----------------------- MODULE FinderShadowingProofs -----------------------
(***************************************************************************)
(* Proofs about FinderShadowing, for any threads, finders and number of    *)
(* installations.  RestoreInv is inductive (one lemma per conjunct), and   *)
(* it implies RestoredAfterUninstall and NoAbandonedClaim.                 *)
(***************************************************************************)
EXTENDS FinderShadowing, TLAPS

\* The initial state is well typed.
LEMMA TypeInit == Init => TypeOK
<1> SUFFICES ASSUME Init PROVE TypeOK
  OBVIOUS
<1> USE DEF Init, Slot, Wrapper
<1>1. /\ installed \in [Finders -> Wrapper \union {Absent}]
      /\ previous \in [Finders -> Slot] /\ slot \in [Finders -> Slot]
  OBVIOUS
<1>2. pc \in [Threads -> PC] /\ todo \in [Threads -> SUBSET Finders]
  BY DEF PC
<1>3. /\ original \in [Threads -> Slot] /\ found \in [Threads -> Slot]
      /\ wrapper \in [Threads -> Wrapper]
  OBVIOUS
<1>4. QED
  BY <1>1, <1>2, <1>3 DEF TypeOK

\* Every step keeps the state well typed.
LEMMA TypeStep == TypeOK /\ [Next]_vars => TypeOK'
<1> SUFFICES ASSUME TypeOK, [Next]_vars PROVE TypeOK'
  OBVIOUS
<1> USE DEF TypeOK, AtLabel, Goto, Return, PC, Attempting, Slot, Wrapper,
            monitor, patches, locals, history
<1>1. ASSUME NEW t \in Threads, NEW S \in SUBSET Finders, InstallBegin(t, S)
      PROVE TypeOK'
  BY <1>1 DEF InstallBegin
<1>2. ASSUME NEW t \in Threads, NEW S \in SUBSET Finders, RecoverBegin(t, S)
      PROVE TypeOK'
  BY <1>2 DEF RecoverBegin
<1>3. ASSUME NEW t \in Threads, NEW f \in Finders, MetaPathChange(t, f)
      PROVE TypeOK'
  BY <1>3 DEF MetaPathChange
<1>4. ASSUME NEW t \in Threads, UninstallBegin(t) PROVE TypeOK'
  BY <1>4 DEF UninstallBegin
<1>5. ASSUME NEW t \in Threads, ChangeRecorded(t) PROVE TypeOK'
  BY <1>5 DEF ChangeRecorded
<1>6. ASSUME NEW t \in Threads, NextFinder(t) PROVE TypeOK'
  BY <1>6 DEF NextFinder
<1>7. ASSUME NEW t \in Threads, LoopEnd(t) PROVE TypeOK'
  BY <1>7 DEF LoopEnd
<1>8. ASSUME NEW t \in Threads, Claim(t) PROVE TypeOK'
  BY <1>8 DEF Claim, Claimable
<1>9. ASSUME NEW t \in Threads, Inspect(t) PROVE TypeOK'
  BY <1>9 DEF Inspect
<1>10. ASSUME NEW t \in Threads, ShadowState(t) PROVE TypeOK'
  BY <1>10 DEF ShadowState
<1>11. ASSUME NEW t \in Threads, Prepare(t) PROVE TypeOK'
  BY <1>11 DEF Prepare
<1>12. ASSUME NEW t \in Threads, Assign(t) PROVE TypeOK'
  BY <1>12 DEF Assign, Assigned
<1>13. ASSUME NEW t \in Threads, Verify(t) PROVE TypeOK'
  BY <1>13 DEF Verify
<1>14. ASSUME NEW t \in Threads, PutBack(t) PROVE TypeOK'
  BY <1>14 DEF PutBack, Assigned
<1>15. ASSUME NEW t \in Threads, Skip(t) PROVE TypeOK'
  BY <1>15 DEF Skip, ClaimsWithout
<1>16. ASSUME NEW t \in Threads, CommitRead(t) PROVE TypeOK'
  BY <1>16 DEF CommitRead
<1>17. ASSUME NEW t \in Threads, CommitStore(t) PROVE TypeOK'
  BY <1>17 DEF CommitStore
<1>18. ASSUME NEW t \in Threads, Undo(t) PROVE TypeOK'
  BY <1>18 DEF Undo, Restored
<1>19. ASSUME NEW t \in Threads, UninstallCopy(t) PROVE TypeOK'
  BY <1>19 DEF UninstallCopy, PatchCopy
<1>20. ASSUME NEW t \in Threads, UninstallRestore(t) PROVE TypeOK'
  BY <1>20 DEF UninstallRestore, Restored
<1>21. ASSUME NEW t \in Threads, UninstallClear(t) PROVE TypeOK'
  BY <1>21 DEF UninstallClear
<1>22. ASSUME NEW t \in Threads, UninstallEnd(t) PROVE TypeOK'
  BY <1>22 DEF UninstallEnd
<1>23. ASSUME NEW f \in Finders, ForeignShadow(f) PROVE TypeOK'
  BY <1>23 DEF ForeignShadow
<1>24. ASSUME NEW t \in Threads, Interrupt(t) PROVE TypeOK'
  BY <1>24 DEF Interrupt
<1>25. CASE UNCHANGED vars
  BY <1>25 DEF vars
<1>26. QED
  BY <1>1, <1>2, <1>3, <1>4, <1>5, <1>6, <1>7, <1>8, <1>9, <1>10, <1>11,
     <1>12, <1>13, <1>14, <1>15, <1>16, <1>17, <1>18, <1>19, <1>20, <1>21,
     <1>22, <1>23, <1>24, <1>25
     DEF Next, Proceed, Instrument, Uninstalling

\* Every variable keeps its type: the flags, locks, maps and thread locals of
\* the finder attribution code.
THEOREM TypeCorrect == Spec => []TypeOK
BY TypeInit, TypeStep, PTL DEF Spec
-----------------------------------------------------------------------------
\* Uninstallation keeps the lifecycle lock and monitoring stays off meanwhile.
LEMMA UninstallHoldsLifecycleStep ==
  ASSUME RestoreInv, [Next]_vars PROVE UninstallHoldsLifecycle'
<1> USE DEF RestoreInv, TypeOK, UninstallHoldsLifecycle, AtLabel, Goto, Return,
            monitor, patches, locals, history
<1>1. ASSUME NEW t \in Threads, NEW S \in SUBSET Finders, InstallBegin(t, S)
      PROVE UninstallHoldsLifecycle'
  BY <1>1, NobodyAssumption DEF InstallBegin
<1>2. ASSUME NEW t \in Threads, NEW S \in SUBSET Finders, RecoverBegin(t, S)
      PROVE UninstallHoldsLifecycle'
  BY <1>2 DEF RecoverBegin
<1>3. ASSUME NEW t \in Threads, NEW f \in Finders, MetaPathChange(t, f)
      PROVE UninstallHoldsLifecycle'
  BY <1>3 DEF MetaPathChange
<1>4. ASSUME NEW t \in Threads, UninstallBegin(t)
      PROVE UninstallHoldsLifecycle'
  BY <1>4 DEF UninstallBegin
<1>5. ASSUME NEW t \in Threads, ChangeRecorded(t)
      PROVE UninstallHoldsLifecycle'
  BY <1>5 DEF ChangeRecorded
<1>6. ASSUME NEW t \in Threads, NextFinder(t) PROVE UninstallHoldsLifecycle'
  BY <1>6 DEF NextFinder
<1>7. ASSUME NEW t \in Threads, LoopEnd(t) PROVE UninstallHoldsLifecycle'
  BY <1>7 DEF LoopEnd
<1>8. ASSUME NEW t \in Threads, Claim(t) PROVE UninstallHoldsLifecycle'
  BY <1>8 DEF Claim, Claimable
<1>9. ASSUME NEW t \in Threads, Inspect(t) PROVE UninstallHoldsLifecycle'
  BY <1>9 DEF Inspect
<1>10. ASSUME NEW t \in Threads, ShadowState(t) PROVE UninstallHoldsLifecycle'
  BY <1>10 DEF ShadowState
<1>11. ASSUME NEW t \in Threads, Prepare(t) PROVE UninstallHoldsLifecycle'
  BY <1>11 DEF Prepare
<1>12. ASSUME NEW t \in Threads, Assign(t) PROVE UninstallHoldsLifecycle'
  BY <1>12 DEF Assign, Assigned
<1>13. ASSUME NEW t \in Threads, Verify(t) PROVE UninstallHoldsLifecycle'
  BY <1>13 DEF Verify
<1>14. ASSUME NEW t \in Threads, PutBack(t) PROVE UninstallHoldsLifecycle'
  BY <1>14 DEF PutBack, Assigned
<1>15. ASSUME NEW t \in Threads, Skip(t) PROVE UninstallHoldsLifecycle'
  BY <1>15 DEF Skip, ClaimsWithout
<1>16. ASSUME NEW t \in Threads, CommitRead(t) PROVE UninstallHoldsLifecycle'
  BY <1>16 DEF CommitRead
<1>17. ASSUME NEW t \in Threads, CommitStore(t) PROVE UninstallHoldsLifecycle'
  BY <1>17 DEF CommitStore
<1>18. ASSUME NEW t \in Threads, Undo(t) PROVE UninstallHoldsLifecycle'
  BY <1>18 DEF Undo, Restored
<1>19. ASSUME NEW t \in Threads, UninstallCopy(t)
      PROVE UninstallHoldsLifecycle'
  BY <1>19 DEF UninstallCopy, PatchCopy
<1>20. ASSUME NEW t \in Threads, UninstallRestore(t)
      PROVE UninstallHoldsLifecycle'
  BY <1>20 DEF UninstallRestore, Restored
<1>21. ASSUME NEW t \in Threads, UninstallClear(t)
      PROVE UninstallHoldsLifecycle'
  BY <1>21 DEF UninstallClear
<1>22. ASSUME NEW t \in Threads, UninstallEnd(t)
      PROVE UninstallHoldsLifecycle'
  BY <1>22 DEF UninstallEnd
<1>23. ASSUME NEW f \in Finders, ForeignShadow(f) PROVE UninstallHoldsLifecycle'
  BY <1>23 DEF ForeignShadow
<1>24. ASSUME NEW t \in Threads, Interrupt(t) PROVE UninstallHoldsLifecycle'
  BY <1>24 DEF Interrupt
<1>25. CASE UNCHANGED vars
  BY <1>25 DEF vars
<1>26. QED
  BY <1>1, <1>2, <1>3, <1>4, <1>5, <1>6, <1>7, <1>8, <1>9, <1>10, <1>11,
     <1>12, <1>13, <1>14, <1>15, <1>16, <1>17, <1>18, <1>19, <1>20, <1>21,
     <1>22, <1>23, <1>24, <1>25
     DEF Next, Proceed, Instrument, Uninstalling

\* While the patches are those of the current capture, the thread at work on a
\* finder owns its claim, and nobody else is at work on that finder.
LEMMA LiveClaimsStep ==
  ASSUME RestoreInv, [Next]_vars PROVE LiveClaims'
<1> USE DEF RestoreInv, TypeOK, LiveClaims, AtLabel, Goto, Return, monitor,
            patches, locals, history, Live, Working, Attempting,
            UninstallHoldsLifecycle
<1>1. ASSUME NEW t \in Threads, NEW S \in SUBSET Finders, InstallBegin(t, S)
      PROVE LiveClaims'
  BY <1>1 DEF InstallBegin
<1>2. ASSUME NEW t \in Threads, NEW S \in SUBSET Finders, RecoverBegin(t, S)
      PROVE LiveClaims'
  BY <1>2 DEF RecoverBegin
<1>3. ASSUME NEW t \in Threads, NEW f \in Finders, MetaPathChange(t, f)
      PROVE LiveClaims'
  BY <1>3 DEF MetaPathChange
<1>4. ASSUME NEW t \in Threads, UninstallBegin(t) PROVE LiveClaims'
  BY <1>4 DEF UninstallBegin
<1>5. ASSUME NEW t \in Threads, ChangeRecorded(t) PROVE LiveClaims'
  BY <1>5 DEF ChangeRecorded
<1>6. ASSUME NEW t \in Threads, NextFinder(t) PROVE LiveClaims'
  BY <1>6 DEF NextFinder
<1>7. ASSUME NEW t \in Threads, LoopEnd(t) PROVE LiveClaims'
  BY <1>7 DEF LoopEnd
<1>8. ASSUME NEW t \in Threads, Claim(t) PROVE LiveClaims'
  BY <1>8 DEF Claim, Claimable, PatchesAreClaims
<1>9. ASSUME NEW t \in Threads, Inspect(t) PROVE LiveClaims'
  BY <1>9 DEF Inspect
<1>10. ASSUME NEW t \in Threads, ShadowState(t) PROVE LiveClaims'
  BY <1>10 DEF ShadowState
<1>11. ASSUME NEW t \in Threads, Prepare(t) PROVE LiveClaims'
  BY <1>11 DEF Prepare
<1>12. ASSUME NEW t \in Threads, Assign(t) PROVE LiveClaims'
  BY <1>12 DEF Assign, Assigned
<1>13. ASSUME NEW t \in Threads, Verify(t) PROVE LiveClaims'
  BY <1>13 DEF Verify
<1>14. ASSUME NEW t \in Threads, PutBack(t) PROVE LiveClaims'
  BY <1>14 DEF PutBack, Assigned
<1>15. ASSUME NEW t \in Threads, Skip(t) PROVE LiveClaims'
  BY <1>15 DEF Skip, ClaimsWithout
<1>16. ASSUME NEW t \in Threads, CommitRead(t) PROVE LiveClaims'
  BY <1>16 DEF CommitRead
<1>17. ASSUME NEW t \in Threads, CommitStore(t) PROVE LiveClaims'
  BY <1>17 DEF CommitStore
<1>18. ASSUME NEW t \in Threads, Undo(t) PROVE LiveClaims'
  BY <1>18 DEF Undo, Restored
<1>19. ASSUME NEW t \in Threads, UninstallCopy(t) PROVE LiveClaims'
  BY <1>19 DEF UninstallCopy, PatchCopy
<1>20. ASSUME NEW t \in Threads, UninstallRestore(t) PROVE LiveClaims'
  BY <1>20 DEF UninstallRestore, Restored
<1>21. ASSUME NEW t \in Threads, UninstallClear(t) PROVE LiveClaims'
  BY <1>21 DEF UninstallClear
<1>22. ASSUME NEW t \in Threads, UninstallEnd(t) PROVE LiveClaims'
  BY <1>22 DEF UninstallEnd
<1>23. ASSUME NEW f \in Finders, ForeignShadow(f) PROVE LiveClaims'
  BY <1>23 DEF ForeignShadow
<1>24. ASSUME NEW t \in Threads, Interrupt(t) PROVE LiveClaims'
  BY <1>24 DEF Interrupt
<1>25. CASE UNCHANGED vars
  BY <1>25 DEF vars
<1>26. QED
  BY <1>1, <1>2, <1>3, <1>4, <1>5, <1>6, <1>7, <1>8, <1>9, <1>10, <1>11,
     <1>12, <1>13, <1>14, <1>15, <1>16, <1>17, <1>18, <1>19, <1>20, <1>21,
     <1>22, <1>23, <1>24, <1>25
     DEF Next, Proceed, Instrument, Uninstalling

\* Once uninstall has cleared them, no committed patch comes back.
LEMMA DeadPatchesStep ==
  ASSUME RestoreInv, [Next]_vars PROVE DeadPatches'
<1> USE DEF RestoreInv, TypeOK, DeadPatches, AtLabel, Goto, Return, monitor,
            patches, locals, history, Live, Working, Attempting,
            UninstallHoldsLifecycle, LiveClaims
<1>1. ASSUME NEW t \in Threads, NEW S \in SUBSET Finders, InstallBegin(t, S)
      PROVE DeadPatches'
  BY <1>1 DEF InstallBegin
<1>2. ASSUME NEW t \in Threads, NEW S \in SUBSET Finders, RecoverBegin(t, S)
      PROVE DeadPatches'
  BY <1>2 DEF RecoverBegin
<1>3. ASSUME NEW t \in Threads, NEW f \in Finders, MetaPathChange(t, f)
      PROVE DeadPatches'
  BY <1>3 DEF MetaPathChange
<1>4. ASSUME NEW t \in Threads, UninstallBegin(t) PROVE DeadPatches'
  BY <1>4 DEF UninstallBegin
<1>5. ASSUME NEW t \in Threads, ChangeRecorded(t) PROVE DeadPatches'
  BY <1>5 DEF ChangeRecorded
<1>6. ASSUME NEW t \in Threads, NextFinder(t) PROVE DeadPatches'
  BY <1>6 DEF NextFinder
<1>7. ASSUME NEW t \in Threads, LoopEnd(t) PROVE DeadPatches'
  BY <1>7 DEF LoopEnd
<1>8. ASSUME NEW t \in Threads, Claim(t) PROVE DeadPatches'
  BY <1>8 DEF Claim, Claimable
<1>9. ASSUME NEW t \in Threads, Inspect(t) PROVE DeadPatches'
  BY <1>9 DEF Inspect
<1>10. ASSUME NEW t \in Threads, ShadowState(t) PROVE DeadPatches'
  BY <1>10 DEF ShadowState
<1>11. ASSUME NEW t \in Threads, Prepare(t) PROVE DeadPatches'
  BY <1>11 DEF Prepare
<1>12. ASSUME NEW t \in Threads, Assign(t) PROVE DeadPatches'
  BY <1>12 DEF Assign, Assigned
<1>13. ASSUME NEW t \in Threads, Verify(t) PROVE DeadPatches'
  BY <1>13 DEF Verify
<1>14. ASSUME NEW t \in Threads, PutBack(t) PROVE DeadPatches'
  BY <1>14 DEF PutBack, Assigned
<1>15. ASSUME NEW t \in Threads, Skip(t) PROVE DeadPatches'
  BY <1>15 DEF Skip, ClaimsWithout
<1>16. ASSUME NEW t \in Threads, CommitRead(t) PROVE DeadPatches'
  BY <1>16 DEF CommitRead
<1>17. ASSUME NEW t \in Threads, CommitStore(t) PROVE DeadPatches'
  BY <1>17 DEF CommitStore
<1>18. ASSUME NEW t \in Threads, Undo(t) PROVE DeadPatches'
  BY <1>18 DEF Undo, Restored
<1>19. ASSUME NEW t \in Threads, UninstallCopy(t) PROVE DeadPatches'
  BY <1>19 DEF UninstallCopy, PatchCopy
<1>20. ASSUME NEW t \in Threads, UninstallRestore(t) PROVE DeadPatches'
  BY <1>20 DEF UninstallRestore, Restored
<1>21. ASSUME NEW t \in Threads, UninstallClear(t) PROVE DeadPatches'
  BY <1>21 DEF UninstallClear
<1>22. ASSUME NEW t \in Threads, UninstallEnd(t) PROVE DeadPatches'
  BY <1>22 DEF UninstallEnd
<1>23. ASSUME NEW f \in Finders, ForeignShadow(f) PROVE DeadPatches'
  BY <1>23 DEF ForeignShadow
<1>24. ASSUME NEW t \in Threads, Interrupt(t) PROVE DeadPatches'
  BY <1>24 DEF Interrupt
<1>25. CASE UNCHANGED vars
  BY <1>25 DEF vars
<1>26. QED
  BY <1>1, <1>2, <1>3, <1>4, <1>5, <1>6, <1>7, <1>8, <1>9, <1>10, <1>11,
     <1>12, <1>13, <1>14, <1>15, <1>16, <1>17, <1>18, <1>19, <1>20, <1>21,
     <1>22, <1>23, <1>24, <1>25
     DEF Next, Proceed, Instrument, Uninstalling

\* Only claimed finders have a patch.
LEMMA PatchesAreClaimsStep ==
  ASSUME RestoreInv, [Next]_vars PROVE PatchesAreClaims'
<1> USE DEF RestoreInv, TypeOK, PatchesAreClaims, AtLabel, Goto, Return,
            monitor, patches, locals, history, Live, Slot, Wrapper
<1>1. ASSUME NEW t \in Threads, NEW S \in SUBSET Finders, InstallBegin(t, S)
      PROVE PatchesAreClaims'
  BY <1>1 DEF InstallBegin
<1>2. ASSUME NEW t \in Threads, NEW S \in SUBSET Finders, RecoverBegin(t, S)
      PROVE PatchesAreClaims'
  BY <1>2 DEF RecoverBegin
<1>3. ASSUME NEW t \in Threads, NEW f \in Finders, MetaPathChange(t, f)
      PROVE PatchesAreClaims'
  BY <1>3 DEF MetaPathChange
<1>4. ASSUME NEW t \in Threads, UninstallBegin(t) PROVE PatchesAreClaims'
  BY <1>4 DEF UninstallBegin
<1>5. ASSUME NEW t \in Threads, ChangeRecorded(t) PROVE PatchesAreClaims'
  BY <1>5 DEF ChangeRecorded
<1>6. ASSUME NEW t \in Threads, NextFinder(t) PROVE PatchesAreClaims'
  BY <1>6 DEF NextFinder
<1>7. ASSUME NEW t \in Threads, LoopEnd(t) PROVE PatchesAreClaims'
  BY <1>7 DEF LoopEnd
<1>8. ASSUME NEW t \in Threads, Claim(t) PROVE PatchesAreClaims'
  BY <1>8 DEF Claim, Claimable
<1>9. ASSUME NEW t \in Threads, Inspect(t) PROVE PatchesAreClaims'
  BY <1>9 DEF Inspect
<1>10. ASSUME NEW t \in Threads, ShadowState(t) PROVE PatchesAreClaims'
  BY <1>10 DEF ShadowState
<1>11. ASSUME NEW t \in Threads, Prepare(t) PROVE PatchesAreClaims'
  BY <1>11 DEF Prepare
<1>12. ASSUME NEW t \in Threads, Assign(t) PROVE PatchesAreClaims'
  BY <1>12 DEF Assign, Assigned
<1>13. ASSUME NEW t \in Threads, Verify(t) PROVE PatchesAreClaims'
  BY <1>13 DEF Verify
<1>14. ASSUME NEW t \in Threads, PutBack(t) PROVE PatchesAreClaims'
  BY <1>14 DEF PutBack, Assigned
<1>15. ASSUME NEW t \in Threads, Skip(t) PROVE PatchesAreClaims'
  BY <1>15 DEF Skip, ClaimsWithout
<1>16. ASSUME NEW t \in Threads, CommitRead(t) PROVE PatchesAreClaims'
  BY <1>16 DEF CommitRead
<1>17. ASSUME NEW t \in Threads, CommitStore(t) PROVE PatchesAreClaims'
  BY <1>17 DEF CommitStore
<1>18. ASSUME NEW t \in Threads, Undo(t) PROVE PatchesAreClaims'
  BY <1>18 DEF Undo, Restored
<1>19. ASSUME NEW t \in Threads, UninstallCopy(t) PROVE PatchesAreClaims'
  BY <1>19 DEF UninstallCopy, PatchCopy
<1>20. ASSUME NEW t \in Threads, UninstallRestore(t) PROVE PatchesAreClaims'
  BY <1>20 DEF UninstallRestore, Restored
<1>21. ASSUME NEW t \in Threads, UninstallClear(t) PROVE PatchesAreClaims'
  BY <1>21 DEF UninstallClear
<1>22. ASSUME NEW t \in Threads, UninstallEnd(t) PROVE PatchesAreClaims'
  BY <1>22 DEF UninstallEnd
<1>23. ASSUME NEW f \in Finders, ForeignShadow(f) PROVE PatchesAreClaims'
  BY <1>23 DEF ForeignShadow
<1>24. ASSUME NEW t \in Threads, Interrupt(t) PROVE PatchesAreClaims'
  BY <1>24 DEF Interrupt
<1>25. CASE UNCHANGED vars
  BY <1>25 DEF vars
<1>26. QED
  BY <1>1, <1>2, <1>3, <1>4, <1>5, <1>6, <1>7, <1>8, <1>9, <1>10, <1>11,
     <1>12, <1>13, <1>14, <1>15, <1>16, <1>17, <1>18, <1>19, <1>20, <1>21,
     <1>22, <1>23, <1>24, <1>25
     DEF Next, Proceed, Instrument, Uninstalling

\* Two threads never both hold one finder between prepare and the end.
LEMMA OneAttemptPerFinderStep ==
  ASSUME RestoreInv, [Next]_vars PROVE OneAttemptPerFinder'
<1> USE DEF RestoreInv, TypeOK, OneAttemptPerFinder, AtLabel, Goto, Return,
            monitor, patches, locals, history, Holding, Live, LiveClaims,
            Working, Attempting
<1>1. ASSUME NEW t \in Threads, NEW S \in SUBSET Finders, InstallBegin(t, S)
      PROVE OneAttemptPerFinder'
  BY <1>1 DEF InstallBegin
<1>2. ASSUME NEW t \in Threads, NEW S \in SUBSET Finders, RecoverBegin(t, S)
      PROVE OneAttemptPerFinder'
  BY <1>2 DEF RecoverBegin
<1>3. ASSUME NEW t \in Threads, NEW f \in Finders, MetaPathChange(t, f)
      PROVE OneAttemptPerFinder'
  BY <1>3 DEF MetaPathChange
<1>4. ASSUME NEW t \in Threads, UninstallBegin(t) PROVE OneAttemptPerFinder'
  BY <1>4 DEF UninstallBegin
<1>5. ASSUME NEW t \in Threads, ChangeRecorded(t) PROVE OneAttemptPerFinder'
  BY <1>5 DEF ChangeRecorded
<1>6. ASSUME NEW t \in Threads, NextFinder(t) PROVE OneAttemptPerFinder'
  BY <1>6 DEF NextFinder
<1>7. ASSUME NEW t \in Threads, LoopEnd(t) PROVE OneAttemptPerFinder'
  BY <1>7 DEF LoopEnd
<1>8. ASSUME NEW t \in Threads, Claim(t) PROVE OneAttemptPerFinder'
  BY <1>8 DEF Claim, Claimable
<1>9. ASSUME NEW t \in Threads, Inspect(t) PROVE OneAttemptPerFinder'
  BY <1>9 DEF Inspect
<1>10. ASSUME NEW t \in Threads, ShadowState(t) PROVE OneAttemptPerFinder'
  BY <1>10 DEF ShadowState
<1>11. ASSUME NEW t \in Threads, Prepare(t) PROVE OneAttemptPerFinder'
  BY <1>11 DEF Prepare
<1>12. ASSUME NEW t \in Threads, Assign(t) PROVE OneAttemptPerFinder'
  BY <1>12 DEF Assign, Assigned
<1>13. ASSUME NEW t \in Threads, Verify(t) PROVE OneAttemptPerFinder'
  BY <1>13 DEF Verify
<1>14. ASSUME NEW t \in Threads, PutBack(t) PROVE OneAttemptPerFinder'
  BY <1>14 DEF PutBack, Assigned
<1>15. ASSUME NEW t \in Threads, Skip(t) PROVE OneAttemptPerFinder'
  BY <1>15 DEF Skip, ClaimsWithout
<1>16. ASSUME NEW t \in Threads, CommitRead(t) PROVE OneAttemptPerFinder'
  BY <1>16 DEF CommitRead
<1>17. ASSUME NEW t \in Threads, CommitStore(t) PROVE OneAttemptPerFinder'
  BY <1>17 DEF CommitStore
<1>18. ASSUME NEW t \in Threads, Undo(t) PROVE OneAttemptPerFinder'
  BY <1>18 DEF Undo, Restored
<1>19. ASSUME NEW t \in Threads, UninstallCopy(t) PROVE OneAttemptPerFinder'
  BY <1>19 DEF UninstallCopy, PatchCopy
<1>20. ASSUME NEW t \in Threads, UninstallRestore(t)
      PROVE OneAttemptPerFinder'
  BY <1>20 DEF UninstallRestore, Restored
<1>21. ASSUME NEW t \in Threads, UninstallClear(t) PROVE OneAttemptPerFinder'
  BY <1>21 DEF UninstallClear
<1>22. ASSUME NEW t \in Threads, UninstallEnd(t) PROVE OneAttemptPerFinder'
  BY <1>22 DEF UninstallEnd
<1>23. ASSUME NEW f \in Finders, ForeignShadow(f) PROVE OneAttemptPerFinder'
  BY <1>23 DEF ForeignShadow
<1>24. ASSUME NEW t \in Threads, Interrupt(t) PROVE OneAttemptPerFinder'
  BY <1>24 DEF Interrupt
<1>25. CASE UNCHANGED vars
  BY <1>25 DEF vars
<1>26. QED
  BY <1>1, <1>2, <1>3, <1>4, <1>5, <1>6, <1>7, <1>8, <1>9, <1>10, <1>11,
     <1>12, <1>13, <1>14, <1>15, <1>16, <1>17, <1>18, <1>19, <1>20, <1>21,
     <1>22, <1>23, <1>24, <1>25
     DEF Next, Proceed, Instrument, Uninstalling

\* What a thread saved as "previous" is what the program had there.
LEMMA FoundIsTheirsStep ==
  ASSUME RestoreInv, [Next]_vars PROVE FoundIsTheirs'
<1> USE DEF RestoreInv, Undisturbed, TypeOK, FoundIsTheirs, AtLabel, Goto,
            Return, monitor, patches, locals, history, Holding, Theirs, Live, LiveClaims,
            NothingThereYet, Working, Attempting
<1>1. ASSUME NEW t \in Threads, NEW S \in SUBSET Finders, InstallBegin(t, S)
      PROVE FoundIsTheirs'
  BY <1>1 DEF InstallBegin
<1>2. ASSUME NEW t \in Threads, NEW S \in SUBSET Finders, RecoverBegin(t, S)
      PROVE FoundIsTheirs'
  BY <1>2 DEF RecoverBegin
<1>3. ASSUME NEW t \in Threads, NEW f \in Finders, MetaPathChange(t, f)
      PROVE FoundIsTheirs'
  BY <1>3 DEF MetaPathChange
<1>4. ASSUME NEW t \in Threads, UninstallBegin(t) PROVE FoundIsTheirs'
  BY <1>4 DEF UninstallBegin
<1>5. ASSUME NEW t \in Threads, ChangeRecorded(t) PROVE FoundIsTheirs'
  BY <1>5 DEF ChangeRecorded
<1>6. ASSUME NEW t \in Threads, NextFinder(t) PROVE FoundIsTheirs'
  BY <1>6 DEF NextFinder
<1>7. ASSUME NEW t \in Threads, LoopEnd(t) PROVE FoundIsTheirs'
  BY <1>7 DEF LoopEnd
<1>8. ASSUME NEW t \in Threads, Claim(t) PROVE FoundIsTheirs'
  BY <1>8 DEF Claim, Claimable
<1>9. ASSUME NEW t \in Threads, Inspect(t) PROVE FoundIsTheirs'
  BY <1>9 DEF Inspect
<1>10. ASSUME NEW t \in Threads, ShadowState(t) PROVE FoundIsTheirs'
  BY <1>10 DEF ShadowState
<1>11. ASSUME NEW t \in Threads, Prepare(t) PROVE FoundIsTheirs'
  BY <1>11 DEF Prepare
<1>12. ASSUME NEW t \in Threads, Assign(t) PROVE FoundIsTheirs'
  BY <1>12 DEF Assign, Assigned
<1>13. ASSUME NEW t \in Threads, Verify(t) PROVE FoundIsTheirs'
  BY <1>13 DEF Verify
<1>14. ASSUME NEW t \in Threads, PutBack(t) PROVE FoundIsTheirs'
  BY <1>14 DEF PutBack, Assigned
<1>15. ASSUME NEW t \in Threads, Skip(t) PROVE FoundIsTheirs'
  BY <1>15 DEF Skip, ClaimsWithout
<1>16. ASSUME NEW t \in Threads, CommitRead(t) PROVE FoundIsTheirs'
  BY <1>16 DEF CommitRead
<1>17. ASSUME NEW t \in Threads, CommitStore(t) PROVE FoundIsTheirs'
  BY <1>17 DEF CommitStore
<1>18. ASSUME NEW t \in Threads, Undo(t) PROVE FoundIsTheirs'
  BY <1>18 DEF Undo, Restored
<1>19. ASSUME NEW t \in Threads, UninstallCopy(t) PROVE FoundIsTheirs'
  BY <1>19 DEF UninstallCopy, PatchCopy
<1>20. ASSUME NEW t \in Threads, UninstallRestore(t) PROVE FoundIsTheirs'
  BY <1>20 DEF UninstallRestore, Restored
<1>21. ASSUME NEW t \in Threads, UninstallClear(t) PROVE FoundIsTheirs'
  BY <1>21 DEF UninstallClear
<1>22. ASSUME NEW t \in Threads, UninstallEnd(t) PROVE FoundIsTheirs'
  BY <1>22 DEF UninstallEnd
<1>23. ASSUME NEW f \in Finders, ForeignShadow(f) PROVE FoundIsTheirs'
  BY <1>23 DEF ForeignShadow
<1>24. ASSUME NEW t \in Threads, Interrupt(t) PROVE FoundIsTheirs'
  BY <1>24 DEF Interrupt
<1>25. CASE UNCHANGED vars
  BY <1>25 DEF vars
<1>26. QED
  BY <1>1, <1>2, <1>3, <1>4, <1>5, <1>6, <1>7, <1>8, <1>9, <1>10, <1>11,
     <1>12, <1>13, <1>14, <1>15, <1>16, <1>17, <1>18, <1>19, <1>20, <1>21,
     <1>22, <1>23, <1>24, <1>25
     DEF Next, Proceed, Instrument, Uninstalling

\* A thread that has not assigned its wrapper yet finds the program's entry.
LEMMA NothingThereYetStep ==
  ASSUME RestoreInv, [Next]_vars PROVE NothingThereYet'
<1> USE DEF RestoreInv, Undisturbed, TypeOK, NothingThereYet, AtLabel, Goto,
            Return, monitor, patches, locals, history, Theirs, Live, LiveClaims,
            Working, Attempting
<1>1. ASSUME NEW t \in Threads, NEW S \in SUBSET Finders, InstallBegin(t, S)
      PROVE NothingThereYet'
  BY <1>1 DEF InstallBegin
<1>2. ASSUME NEW t \in Threads, NEW S \in SUBSET Finders, RecoverBegin(t, S)
      PROVE NothingThereYet'
  BY <1>2 DEF RecoverBegin
<1>3. ASSUME NEW t \in Threads, NEW f \in Finders, MetaPathChange(t, f)
      PROVE NothingThereYet'
  BY <1>3 DEF MetaPathChange
<1>4. ASSUME NEW t \in Threads, UninstallBegin(t) PROVE NothingThereYet'
  BY <1>4 DEF UninstallBegin
<1>5. ASSUME NEW t \in Threads, ChangeRecorded(t) PROVE NothingThereYet'
  BY <1>5 DEF ChangeRecorded
<1>6. ASSUME NEW t \in Threads, NextFinder(t) PROVE NothingThereYet'
  BY <1>6 DEF NextFinder
<1>7. ASSUME NEW t \in Threads, LoopEnd(t) PROVE NothingThereYet'
  BY <1>7 DEF LoopEnd
<1>8. ASSUME NEW t \in Threads, Claim(t) PROVE NothingThereYet'
  <2> SUFFICES ASSUME Live', NEW f \in Undisturbed', NEW u \in Threads,
                      pc'[u] \in
                        {"inspect", "shadowState", "prepare", "assign"},
                      finder'[u] = f
               PROVE slot'[f] = Theirs(f)'
    BY <1>8
  <2>1. Live /\ f \in Undisturbed /\ slot' = slot /\ Theirs(f)' = Theirs(f)
    BY <1>8 DEF Claim, Claimable
  <2>2. CASE u # t
    BY <1>8, <2>1, <2>2 DEF Claim, Claimable
  <2>3. CASE u = t
    <3>1. f \notin claimed
      BY <1>8, <2>3 DEF Claim, Claimable
    <3>2. installed[f] = Absent /\ \A v \in Threads : ~Working(v, f)
      BY <2>1, <3>1 DEF PatchesAreClaims
    <3>3. \A v \in Threads : ~Settling(v, f)
      BY <3>2 DEF Settling
    <3>4. QED
      BY <2>1, <3>2, <3>3, SlotAssumption
      DEF SlotIsAccountedFor, Accounted, Wrapper
  <2>4. QED
    BY <2>2, <2>3
<1>9. ASSUME NEW t \in Threads, Inspect(t) PROVE NothingThereYet'
  BY <1>9 DEF Inspect
<1>10. ASSUME NEW t \in Threads, ShadowState(t) PROVE NothingThereYet'
  BY <1>10 DEF ShadowState
<1>11. ASSUME NEW t \in Threads, Prepare(t) PROVE NothingThereYet'
  BY <1>11 DEF Prepare
<1>12. ASSUME NEW t \in Threads, Assign(t) PROVE NothingThereYet'
  BY <1>12 DEF Assign, Assigned
<1>13. ASSUME NEW t \in Threads, Verify(t) PROVE NothingThereYet'
  BY <1>13 DEF Verify
<1>14. ASSUME NEW t \in Threads, PutBack(t) PROVE NothingThereYet'
  BY <1>14 DEF PutBack, Assigned
<1>15. ASSUME NEW t \in Threads, Skip(t) PROVE NothingThereYet'
  BY <1>15 DEF Skip, ClaimsWithout
<1>16. ASSUME NEW t \in Threads, CommitRead(t) PROVE NothingThereYet'
  BY <1>16 DEF CommitRead
<1>17. ASSUME NEW t \in Threads, CommitStore(t) PROVE NothingThereYet'
  BY <1>17 DEF CommitStore
<1>18. ASSUME NEW t \in Threads, Undo(t) PROVE NothingThereYet'
  BY <1>18 DEF Undo, Restored
<1>19. ASSUME NEW t \in Threads, UninstallCopy(t) PROVE NothingThereYet'
  BY <1>19 DEF UninstallCopy, PatchCopy
<1>20. ASSUME NEW t \in Threads, UninstallRestore(t) PROVE NothingThereYet'
  BY <1>20 DEF UninstallRestore, Restored, DoomedArePatches
<1>21. ASSUME NEW t \in Threads, UninstallClear(t) PROVE NothingThereYet'
  BY <1>21 DEF UninstallClear
<1>22. ASSUME NEW t \in Threads, UninstallEnd(t) PROVE NothingThereYet'
  BY <1>22 DEF UninstallEnd
<1>23. ASSUME NEW f \in Finders, ForeignShadow(f) PROVE NothingThereYet'
  BY <1>23 DEF ForeignShadow
<1>24. ASSUME NEW t \in Threads, Interrupt(t) PROVE NothingThereYet'
  BY <1>24 DEF Interrupt
<1>25. CASE UNCHANGED vars
  BY <1>25 DEF vars
<1>26. QED
  BY <1>1, <1>2, <1>3, <1>4, <1>5, <1>6, <1>7, <1>8, <1>9, <1>10, <1>11,
     <1>12, <1>13, <1>14, <1>15, <1>16, <1>17, <1>18, <1>19, <1>20, <1>21,
     <1>22, <1>23, <1>24, <1>25
     DEF Next, Proceed, Instrument, Uninstalling

\* After the assignment the wrapper stays in place, unless setattr bypasses it.
LEMMA WrapperLandedStep ==
  ASSUME RestoreInv, [Next]_vars PROVE WrapperLanded'
<1> USE DEF RestoreInv, TypeOK, WrapperLanded, AtLabel, Goto, Return, monitor,
            patches, locals, history, OneAttemptPerFinder, Holding, Live,
            LiveClaims, Working, Attempting, DoomedArePatches, Slot, Wrapper
<1>1. ASSUME NEW t \in Threads, NEW S \in SUBSET Finders, InstallBegin(t, S)
      PROVE WrapperLanded'
  BY <1>1 DEF InstallBegin
<1>2. ASSUME NEW t \in Threads, NEW S \in SUBSET Finders, RecoverBegin(t, S)
      PROVE WrapperLanded'
  BY <1>2 DEF RecoverBegin
<1>3. ASSUME NEW t \in Threads, NEW f \in Finders, MetaPathChange(t, f)
      PROVE WrapperLanded'
  BY <1>3 DEF MetaPathChange
<1>4. ASSUME NEW t \in Threads, UninstallBegin(t) PROVE WrapperLanded'
  BY <1>4 DEF UninstallBegin
<1>5. ASSUME NEW t \in Threads, ChangeRecorded(t) PROVE WrapperLanded'
  BY <1>5 DEF ChangeRecorded
<1>6. ASSUME NEW t \in Threads, NextFinder(t) PROVE WrapperLanded'
  BY <1>6 DEF NextFinder
<1>7. ASSUME NEW t \in Threads, LoopEnd(t) PROVE WrapperLanded'
  BY <1>7 DEF LoopEnd
<1>8. ASSUME NEW t \in Threads, Claim(t) PROVE WrapperLanded'
  BY <1>8 DEF Claim, Claimable
<1>9. ASSUME NEW t \in Threads, Inspect(t) PROVE WrapperLanded'
  BY <1>9 DEF Inspect
<1>10. ASSUME NEW t \in Threads, ShadowState(t) PROVE WrapperLanded'
  BY <1>10 DEF ShadowState
<1>11. ASSUME NEW t \in Threads, Prepare(t) PROVE WrapperLanded'
  BY <1>11 DEF Prepare
<1>12. ASSUME NEW t \in Threads, Assign(t) PROVE WrapperLanded'
  BY <1>12 DEF Assign, Assigned
<1>13. ASSUME NEW t \in Threads, Verify(t) PROVE WrapperLanded'
  BY <1>13 DEF Verify
<1>14. ASSUME NEW t \in Threads, PutBack(t) PROVE WrapperLanded'
  BY <1>14 DEF PutBack, Assigned
<1>15. ASSUME NEW t \in Threads, Skip(t) PROVE WrapperLanded'
  BY <1>15 DEF Skip, ClaimsWithout
<1>16. ASSUME NEW t \in Threads, CommitRead(t) PROVE WrapperLanded'
  BY <1>16 DEF CommitRead
<1>17. ASSUME NEW t \in Threads, CommitStore(t) PROVE WrapperLanded'
  BY <1>17 DEF CommitStore
<1>18. ASSUME NEW t \in Threads, Undo(t) PROVE WrapperLanded'
  BY <1>18 DEF Undo, Restored
<1>19. ASSUME NEW t \in Threads, UninstallCopy(t) PROVE WrapperLanded'
  BY <1>19 DEF UninstallCopy, PatchCopy
<1>20. ASSUME NEW t \in Threads, UninstallRestore(t) PROVE WrapperLanded'
  BY <1>20 DEF UninstallRestore, Restored
<1>21. ASSUME NEW t \in Threads, UninstallClear(t) PROVE WrapperLanded'
  BY <1>21 DEF UninstallClear
<1>22. ASSUME NEW t \in Threads, UninstallEnd(t) PROVE WrapperLanded'
  BY <1>22 DEF UninstallEnd
<1>23. ASSUME NEW f \in Finders, ForeignShadow(f) PROVE WrapperLanded'
  BY <1>23 DEF ForeignShadow
<1>24. ASSUME NEW t \in Threads, Interrupt(t) PROVE WrapperLanded'
  BY <1>24 DEF Interrupt
<1>25. CASE UNCHANGED vars
  BY <1>25 DEF vars
<1>26. QED
  BY <1>1, <1>2, <1>3, <1>4, <1>5, <1>6, <1>7, <1>8, <1>9, <1>10, <1>11,
     <1>12, <1>13, <1>14, <1>15, <1>16, <1>17, <1>18, <1>19, <1>20, <1>21,
     <1>22, <1>23, <1>24, <1>25
     DEF Next, Proceed, Instrument, Uninstalling

\* A wrapper in a finder is a patch that uninstall will restore, or a thread
\* is about to settle it.
LEMMA SlotIsAccountedForStep ==
  ASSUME RestoreInv, [Next]_vars PROVE SlotIsAccountedFor'
<1> USE DEF RestoreInv, Undisturbed, TypeOK, SlotIsAccountedFor, AtLabel, Goto,
            Return, monitor, patches, locals, history, Theirs, Settling, Live,
            LiveClaims, Working, Attempting, Slot, Wrapper
<1>1. ASSUME NEW t \in Threads, NEW S \in SUBSET Finders, InstallBegin(t, S)
      PROVE SlotIsAccountedFor'
  BY <1>1 DEF Accounted, InstallBegin
<1>2. ASSUME NEW t \in Threads, NEW S \in SUBSET Finders, RecoverBegin(t, S)
      PROVE SlotIsAccountedFor'
  BY <1>2 DEF Accounted, RecoverBegin
<1>3. ASSUME NEW t \in Threads, NEW f \in Finders, MetaPathChange(t, f)
      PROVE SlotIsAccountedFor'
  BY <1>3 DEF Accounted, MetaPathChange
<1>4. ASSUME NEW t \in Threads, UninstallBegin(t) PROVE SlotIsAccountedFor'
  BY <1>4 DEF Accounted, UninstallBegin
<1>5. ASSUME NEW t \in Threads, ChangeRecorded(t) PROVE SlotIsAccountedFor'
  BY <1>5 DEF Accounted, ChangeRecorded
<1>6. ASSUME NEW t \in Threads, NextFinder(t) PROVE SlotIsAccountedFor'
  BY <1>6 DEF Accounted, NextFinder
<1>7. ASSUME NEW t \in Threads, LoopEnd(t) PROVE SlotIsAccountedFor'
  BY <1>7 DEF Accounted, LoopEnd
<1>8. ASSUME NEW t \in Threads, Claim(t) PROVE SlotIsAccountedFor'
  BY <1>8 DEF Accounted, Claim, Claimable
<1>9. ASSUME NEW t \in Threads, Inspect(t) PROVE SlotIsAccountedFor'
  BY <1>9 DEF Accounted, Inspect
<1>10. ASSUME NEW t \in Threads, ShadowState(t) PROVE SlotIsAccountedFor'
  BY <1>10 DEF Accounted, ShadowState
<1>11. ASSUME NEW t \in Threads, Prepare(t) PROVE SlotIsAccountedFor'
  <2> SUFFICES ASSUME NEW f \in Undisturbed' PROVE Accounted(f)'
    BY <1>11 DEF SlotIsAccountedFor
  <2>1. /\ f \in Undisturbed /\ slot' = slot /\ doomed' = doomed
        /\ Theirs(f)' = Theirs(f)
    BY <1>11 DEF Prepare, Theirs
  <2>2. \A u \in Threads : Settling(u, f) => Settling(u, f)'
    BY <1>11 DEF Prepare
  <2>3. \A u \in Threads : pc'[u] = "restore" => pc[u] = "restore"
    BY <1>11 DEF Prepare
  <2>4. CASE installed'[f] = installed[f] /\ previous'[f] = previous[f]
    BY <2>1, <2>2, <2>3, <2>4 DEF Accounted
  <2>5. CASE finder[t] = f /\ enabled
    <3>1. installed[f] = Absent
      BY <1>11, <2>1, <2>5 DEF Prepare
    <3>2. slot[f] = Theirs(f) \/ \E u \in Threads : Settling(u, f)
      BY <2>1, <3>1, SlotAssumption DEF Accounted
    <3>3. QED
      BY <3>2, <2>1, <2>2 DEF Accounted
  <2>6. QED
    BY <1>11, <2>4, <2>5 DEF Prepare
<1>12. ASSUME NEW t \in Threads, Assign(t) PROVE SlotIsAccountedFor'
  BY <1>12 DEF Accounted, Assign, Assigned
<1>13. ASSUME NEW t \in Threads, Verify(t) PROVE SlotIsAccountedFor'
  BY <1>13 DEF Accounted, Verify
<1>14. ASSUME NEW t \in Threads, PutBack(t) PROVE SlotIsAccountedFor'
  BY <1>14 DEF Accounted, PutBack, Assigned, WrapperLanded
<1>15. ASSUME NEW t \in Threads, Skip(t) PROVE SlotIsAccountedFor'
  <2> SUFFICES ASSUME NEW f \in Undisturbed' PROVE Accounted(f)'
    BY <1>15 DEF SlotIsAccountedFor
  <2>1. /\ f \in Undisturbed /\ slot' = slot /\ doomed' = doomed
        /\ Theirs(f)' = Theirs(f)
    BY <1>15 DEF Skip, ClaimsWithout, Theirs
  <2>2. \A u \in Threads : Settling(u, f) => Settling(u, f)'
    BY <1>15 DEF Skip, ClaimsWithout
  <2>3. \A u \in Threads : pc'[u] = "restore" => pc[u] = "restore"
    BY <1>15 DEF Skip, ClaimsWithout
  <2>4. CASE finder[t] # f
    BY <1>15, <2>1, <2>2, <2>3, <2>4 DEF Accounted, Skip, ClaimsWithout
  <2>5. CASE finder[t] = f
    <3>1. installed[f] = Absent
      BY <1>15, <2>1, <2>5 DEF Skip, ClaimsWithout, DeadPatches
    <3>2. slot[f] = Theirs(f) \/ \E u \in Threads : Settling(u, f)
      BY <2>1, <3>1, SlotAssumption DEF Accounted
    <3>3. QED
      BY <3>2, <2>1, <2>2 DEF Accounted
  <2>6. QED
    BY <2>4, <2>5
<1>16. ASSUME NEW t \in Threads, CommitRead(t) PROVE SlotIsAccountedFor'
  BY <1>16 DEF Accounted, CommitRead
<1>17. ASSUME NEW t \in Threads, CommitStore(t) PROVE SlotIsAccountedFor'
  <2> SUFFICES ASSUME NEW f \in Undisturbed' PROVE Accounted(f)'
    BY <1>17 DEF SlotIsAccountedFor
  <2>1. /\ f \in Undisturbed /\ slot' = slot /\ doomed' = doomed
        /\ Theirs(f)' = Theirs(f)
    BY <1>17 DEF CommitStore, Theirs
  <2>2. \A u \in Threads : u # t /\ Settling(u, f) => Settling(u, f)'
    BY <1>17 DEF CommitStore
  <2>3. \A u \in Threads : pc'[u] = "restore" => pc[u] = "restore"
    BY <1>17 DEF CommitStore
  <2>4. CASE finder[t] # f
    BY <1>17, <2>1, <2>2, <2>3, <2>4 DEF Accounted, CommitStore
  <2>5. CASE finder[t] = f
    <3>1. enabled /\ found[t] = Theirs(f)
      BY <1>17, <2>1, <2>5 DEF CommitStore, FoundIsTheirs, Holding
    <3>2. \A u \in Threads : pc'[u] # "restore"
      BY <2>3, <3>1 DEF UninstallHoldsLifecycle
    <3>3. installed'[f] = wrapper[t] /\ previous'[f] = Theirs(f)
      BY <1>17, <2>5, <3>1 DEF CommitStore
    <3>4. CASE slot[f] = wrapper[t]
      BY <2>1, <3>2, <3>3, <3>4 DEF Accounted
    <3>5. CASE slot[f] # wrapper[t]
      <4>1. installed[f] = Absent
        BY <1>17, <2>1, <2>5, <3>1 DEF CommitStore
      <4>2. slot[f] = Theirs(f) \/ \E u \in Threads : Settling(u, f)
        BY <2>1, <4>1, SlotAssumption DEF Accounted
      <4>3. QED
        BY <4>2, <2>1, <2>2, <2>5, <3>5 DEF Accounted
    <3>6. QED
      BY <3>4, <3>5
  <2>6. QED
    BY <2>4, <2>5
<1>18. ASSUME NEW t \in Threads, Undo(t) PROVE SlotIsAccountedFor'
  <2> SUFFICES ASSUME NEW f \in Undisturbed' PROVE Accounted(f)'
    BY <1>18 DEF SlotIsAccountedFor
  <2>1. f \in Undisturbed /\ doomed' = doomed /\ Theirs(f)' = Theirs(f)
    BY <1>18 DEF Undo, Theirs
  <2>2. \A u \in Threads : pc'[u] = "restore" => pc[u] = "restore"
    BY <1>18 DEF Undo
  <2>3. CASE finder[t] = f /\ slot[f] = wrapper[t]
    <3>1. found[t] = Theirs(f)
      BY <1>18, <2>1, <2>3 DEF Undo, FoundIsTheirs, Holding
    <3>2. slot'[f] = Theirs(f)
      BY <1>18, <2>1, <2>3, <3>1 DEF Undo, Restored
    <3>3. QED
      BY <2>1, <3>2 DEF Accounted
  <2>4. CASE finder[t] # f \/ slot[f] # wrapper[t]
    <3>1. slot'[f] = slot[f]
      BY <1>18, <2>4 DEF Undo, Restored
    <3>2. \A u \in Threads : Settling(u, f) => Settling(u, f)'
      BY <1>18, <2>4, <3>1 DEF Undo
    <3>3. previous' = previous /\ installed' = installed
      BY <1>18 DEF Undo
    <3>4. QED
      BY <2>1, <2>2, <3>1, <3>2, <3>3 DEF Accounted
  <2>5. QED
    BY <2>3, <2>4
<1>19. ASSUME NEW t \in Threads, UninstallCopy(t) PROVE SlotIsAccountedFor'
  <2> SUFFICES ASSUME NEW f \in Undisturbed' PROVE Accounted(f)'
    BY <1>19 DEF SlotIsAccountedFor
  <2>1. f \in Undisturbed /\ slot' = slot /\ Theirs(f)' = Theirs(f)
    BY <1>19 DEF UninstallCopy, PatchCopy, Theirs
  <2>2. \A u \in Threads : Settling(u, f) => Settling(u, f)'
    BY <1>19 DEF UninstallCopy, PatchCopy
  <2>3. CASE slot[f] \in Wrapper /\ slot[f] = installed[f]
    <3>1. f \in claimed
      BY <2>3, SlotAssumption DEF PatchesAreClaims
    <3>2. <<f, previous[f], installed[f]>> \in doomed'
      BY <1>19, <3>1 DEF UninstallCopy, PatchCopy
    <3>3. previous' = previous /\ installed' = installed
      BY <1>19 DEF UninstallCopy, PatchCopy
    <3>4. QED
      BY <2>1, <2>2, <3>2, <3>3 DEF Accounted
  <2>4. QED
    BY <2>1, <2>2, <2>3 DEF Accounted
<1>20. ASSUME NEW t \in Threads, UninstallRestore(t) PROVE SlotIsAccountedFor'
  BY <1>20, SlotAssumption
  DEF Accounted, UninstallRestore, Restored, DoomedArePatches
<1>21. ASSUME NEW t \in Threads, UninstallClear(t) PROVE SlotIsAccountedFor'
  BY <1>21 DEF Accounted, UninstallClear
<1>22. ASSUME NEW t \in Threads, UninstallEnd(t) PROVE SlotIsAccountedFor'
  BY <1>22 DEF Accounted, UninstallEnd
<1>23. ASSUME NEW f \in Finders, ForeignShadow(f) PROVE SlotIsAccountedFor'
  BY <1>23 DEF Accounted, ForeignShadow
<1>24. ASSUME NEW t \in Threads, Interrupt(t) PROVE SlotIsAccountedFor'
  BY <1>24 DEF Accounted, Interrupt
<1>25. CASE UNCHANGED vars
  BY <1>25 DEF Accounted, vars
<1>26. QED
  BY <1>1, <1>2, <1>3, <1>4, <1>5, <1>6, <1>7, <1>8, <1>9, <1>10, <1>11,
     <1>12, <1>13, <1>14, <1>15, <1>16, <1>17, <1>18, <1>19, <1>20, <1>21,
     <1>22, <1>23, <1>24, <1>25
     DEF Next, Proceed, Instrument, Uninstalling

\* What uninstall copied is still what _patches says.
LEMMA DoomedArePatchesStep ==
  ASSUME RestoreInv, [Next]_vars PROVE DoomedArePatches'
<1> USE DEF RestoreInv, TypeOK, DoomedArePatches, AtLabel, Goto, Return,
            monitor, patches, locals, history, Live, LiveClaims, Working,
            Attempting, UninstallHoldsLifecycle, DoomedWhileRestoring
<1>1. ASSUME NEW t \in Threads, NEW S \in SUBSET Finders, InstallBegin(t, S)
      PROVE DoomedArePatches'
  BY <1>1 DEF InstallBegin
<1>2. ASSUME NEW t \in Threads, NEW S \in SUBSET Finders, RecoverBegin(t, S)
      PROVE DoomedArePatches'
  BY <1>2 DEF RecoverBegin
<1>3. ASSUME NEW t \in Threads, NEW f \in Finders, MetaPathChange(t, f)
      PROVE DoomedArePatches'
  BY <1>3 DEF MetaPathChange
<1>4. ASSUME NEW t \in Threads, UninstallBegin(t) PROVE DoomedArePatches'
  BY <1>4 DEF UninstallBegin
<1>5. ASSUME NEW t \in Threads, ChangeRecorded(t) PROVE DoomedArePatches'
  BY <1>5 DEF ChangeRecorded
<1>6. ASSUME NEW t \in Threads, NextFinder(t) PROVE DoomedArePatches'
  BY <1>6 DEF NextFinder
<1>7. ASSUME NEW t \in Threads, LoopEnd(t) PROVE DoomedArePatches'
  BY <1>7 DEF LoopEnd
<1>8. ASSUME NEW t \in Threads, Claim(t) PROVE DoomedArePatches'
  BY <1>8 DEF Claim, Claimable
<1>9. ASSUME NEW t \in Threads, Inspect(t) PROVE DoomedArePatches'
  BY <1>9 DEF Inspect
<1>10. ASSUME NEW t \in Threads, ShadowState(t) PROVE DoomedArePatches'
  BY <1>10 DEF ShadowState
<1>11. ASSUME NEW t \in Threads, Prepare(t) PROVE DoomedArePatches'
  BY <1>11 DEF Prepare
<1>12. ASSUME NEW t \in Threads, Assign(t) PROVE DoomedArePatches'
  BY <1>12 DEF Assign, Assigned
<1>13. ASSUME NEW t \in Threads, Verify(t) PROVE DoomedArePatches'
  BY <1>13 DEF Verify
<1>14. ASSUME NEW t \in Threads, PutBack(t) PROVE DoomedArePatches'
  BY <1>14 DEF PutBack, Assigned
<1>15. ASSUME NEW t \in Threads, Skip(t) PROVE DoomedArePatches'
  BY <1>15 DEF Skip, ClaimsWithout
<1>16. ASSUME NEW t \in Threads, CommitRead(t) PROVE DoomedArePatches'
  BY <1>16 DEF CommitRead
<1>17. ASSUME NEW t \in Threads, CommitStore(t) PROVE DoomedArePatches'
  BY <1>17 DEF CommitStore
<1>18. ASSUME NEW t \in Threads, Undo(t) PROVE DoomedArePatches'
  BY <1>18 DEF Undo, Restored
<1>19. ASSUME NEW t \in Threads, UninstallCopy(t) PROVE DoomedArePatches'
  BY <1>19 DEF UninstallCopy, PatchCopy
<1>20. ASSUME NEW t \in Threads, UninstallRestore(t) PROVE DoomedArePatches'
  BY <1>20 DEF UninstallRestore, Restored
<1>21. ASSUME NEW t \in Threads, UninstallClear(t) PROVE DoomedArePatches'
  BY <1>21 DEF UninstallClear
<1>22. ASSUME NEW t \in Threads, UninstallEnd(t) PROVE DoomedArePatches'
  BY <1>22 DEF UninstallEnd
<1>23. ASSUME NEW f \in Finders, ForeignShadow(f) PROVE DoomedArePatches'
  BY <1>23 DEF ForeignShadow
<1>24. ASSUME NEW t \in Threads, Interrupt(t) PROVE DoomedArePatches'
  BY <1>24 DEF Interrupt
<1>25. CASE UNCHANGED vars
  BY <1>25 DEF vars
<1>26. QED
  BY <1>1, <1>2, <1>3, <1>4, <1>5, <1>6, <1>7, <1>8, <1>9, <1>10, <1>11,
     <1>12, <1>13, <1>14, <1>15, <1>16, <1>17, <1>18, <1>19, <1>20, <1>21,
     <1>22, <1>23, <1>24, <1>25
     DEF Next, Proceed, Instrument, Uninstalling

\* Copied patches exist only while uninstall restores them.
LEMMA DoomedWhileRestoringStep ==
  ASSUME RestoreInv, [Next]_vars PROVE DoomedWhileRestoring'
<1> USE DEF RestoreInv, TypeOK, DoomedWhileRestoring, AtLabel, Goto, Return,
            monitor, patches, locals, history, UninstallHoldsLifecycle
<1>1. ASSUME NEW t \in Threads, NEW S \in SUBSET Finders, InstallBegin(t, S)
      PROVE DoomedWhileRestoring'
  BY <1>1 DEF InstallBegin
<1>2. ASSUME NEW t \in Threads, NEW S \in SUBSET Finders, RecoverBegin(t, S)
      PROVE DoomedWhileRestoring'
  BY <1>2 DEF RecoverBegin
<1>3. ASSUME NEW t \in Threads, NEW f \in Finders, MetaPathChange(t, f)
      PROVE DoomedWhileRestoring'
  BY <1>3 DEF MetaPathChange
<1>4. ASSUME NEW t \in Threads, UninstallBegin(t) PROVE DoomedWhileRestoring'
  BY <1>4 DEF UninstallBegin
<1>5. ASSUME NEW t \in Threads, ChangeRecorded(t) PROVE DoomedWhileRestoring'
  BY <1>5 DEF ChangeRecorded
<1>6. ASSUME NEW t \in Threads, NextFinder(t) PROVE DoomedWhileRestoring'
  BY <1>6 DEF NextFinder
<1>7. ASSUME NEW t \in Threads, LoopEnd(t) PROVE DoomedWhileRestoring'
  BY <1>7 DEF LoopEnd
<1>8. ASSUME NEW t \in Threads, Claim(t) PROVE DoomedWhileRestoring'
  BY <1>8 DEF Claim, Claimable
<1>9. ASSUME NEW t \in Threads, Inspect(t) PROVE DoomedWhileRestoring'
  BY <1>9 DEF Inspect
<1>10. ASSUME NEW t \in Threads, ShadowState(t) PROVE DoomedWhileRestoring'
  BY <1>10 DEF ShadowState
<1>11. ASSUME NEW t \in Threads, Prepare(t) PROVE DoomedWhileRestoring'
  BY <1>11 DEF Prepare
<1>12. ASSUME NEW t \in Threads, Assign(t) PROVE DoomedWhileRestoring'
  BY <1>12 DEF Assign, Assigned
<1>13. ASSUME NEW t \in Threads, Verify(t) PROVE DoomedWhileRestoring'
  BY <1>13 DEF Verify
<1>14. ASSUME NEW t \in Threads, PutBack(t) PROVE DoomedWhileRestoring'
  BY <1>14 DEF PutBack, Assigned
<1>15. ASSUME NEW t \in Threads, Skip(t) PROVE DoomedWhileRestoring'
  BY <1>15 DEF Skip, ClaimsWithout
<1>16. ASSUME NEW t \in Threads, CommitRead(t) PROVE DoomedWhileRestoring'
  BY <1>16 DEF CommitRead
<1>17. ASSUME NEW t \in Threads, CommitStore(t) PROVE DoomedWhileRestoring'
  BY <1>17 DEF CommitStore
<1>18. ASSUME NEW t \in Threads, Undo(t) PROVE DoomedWhileRestoring'
  BY <1>18 DEF Undo, Restored
<1>19. ASSUME NEW t \in Threads, UninstallCopy(t) PROVE DoomedWhileRestoring'
  BY <1>19 DEF UninstallCopy, PatchCopy
<1>20. ASSUME NEW t \in Threads, UninstallRestore(t)
      PROVE DoomedWhileRestoring'
  BY <1>20 DEF UninstallRestore, Restored
<1>21. ASSUME NEW t \in Threads, UninstallClear(t) PROVE DoomedWhileRestoring'
  BY <1>21 DEF UninstallClear
<1>22. ASSUME NEW t \in Threads, UninstallEnd(t) PROVE DoomedWhileRestoring'
  BY <1>22 DEF UninstallEnd
<1>23. ASSUME NEW f \in Finders, ForeignShadow(f) PROVE DoomedWhileRestoring'
  BY <1>23 DEF ForeignShadow
<1>24. ASSUME NEW t \in Threads, Interrupt(t) PROVE DoomedWhileRestoring'
  BY <1>24 DEF Interrupt
<1>25. CASE UNCHANGED vars
  BY <1>25 DEF vars
<1>26. QED
  BY <1>1, <1>2, <1>3, <1>4, <1>5, <1>6, <1>7, <1>8, <1>9, <1>10, <1>11,
     <1>12, <1>13, <1>14, <1>15, <1>16, <1>17, <1>18, <1>19, <1>20, <1>21,
     <1>22, <1>23, <1>24, <1>25
     DEF Next, Proceed, Instrument, Uninstalling

\* While monitoring is on a claim is settled only by its thread.
LEMMA NoAbandonedClaimStep ==
  ASSUME RestoreInv, [Next]_vars PROVE NoAbandonedClaim'
<1> USE DEF RestoreInv, TypeOK, NoAbandonedClaim, AtLabel, Goto, Return, monitor,
            patches, locals, history, Live, Working, Attempting,
            UninstallHoldsLifecycle
<1>1. ASSUME NEW t \in Threads, NEW S \in SUBSET Finders, InstallBegin(t, S)
      PROVE NoAbandonedClaim'
  BY <1>1, NobodyAssumption DEF InstallBegin, DeadClaimsAreRefused
<1>2. ASSUME NEW t \in Threads, NEW S \in SUBSET Finders, RecoverBegin(t, S)
      PROVE NoAbandonedClaim'
  BY <1>2 DEF RecoverBegin
<1>3. ASSUME NEW t \in Threads, NEW f \in Finders, MetaPathChange(t, f)
      PROVE NoAbandonedClaim'
  BY <1>3 DEF MetaPathChange
<1>4. ASSUME NEW t \in Threads, UninstallBegin(t) PROVE NoAbandonedClaim'
  BY <1>4 DEF UninstallBegin
<1>5. ASSUME NEW t \in Threads, ChangeRecorded(t) PROVE NoAbandonedClaim'
  BY <1>5 DEF ChangeRecorded
<1>6. ASSUME NEW t \in Threads, NextFinder(t) PROVE NoAbandonedClaim'
  BY <1>6 DEF NextFinder
<1>7. ASSUME NEW t \in Threads, LoopEnd(t) PROVE NoAbandonedClaim'
  BY <1>7 DEF LoopEnd
<1>8. ASSUME NEW t \in Threads, Claim(t) PROVE NoAbandonedClaim'
  BY <1>8 DEF Claim, Claimable, PatchesAreClaims
<1>9. ASSUME NEW t \in Threads, Inspect(t) PROVE NoAbandonedClaim'
  BY <1>9 DEF Inspect
<1>10. ASSUME NEW t \in Threads, ShadowState(t) PROVE NoAbandonedClaim'
  BY <1>10 DEF ShadowState
<1>11. ASSUME NEW t \in Threads, Prepare(t) PROVE NoAbandonedClaim'
  BY <1>11 DEF Prepare, LiveClaims
<1>12. ASSUME NEW t \in Threads, Assign(t) PROVE NoAbandonedClaim'
  BY <1>12 DEF Assign, Assigned
<1>13. ASSUME NEW t \in Threads, Verify(t) PROVE NoAbandonedClaim'
  BY <1>13 DEF Verify
<1>14. ASSUME NEW t \in Threads, PutBack(t) PROVE NoAbandonedClaim'
  BY <1>14 DEF PutBack, Assigned
<1>15. ASSUME NEW t \in Threads, Skip(t) PROVE NoAbandonedClaim'
  BY <1>15 DEF Skip, ClaimsWithout, LiveClaims
<1>16. ASSUME NEW t \in Threads, CommitRead(t) PROVE NoAbandonedClaim'
  BY <1>16 DEF CommitRead, LiveClaims
<1>17. ASSUME NEW t \in Threads, CommitStore(t) PROVE NoAbandonedClaim'
  BY <1>17, SlotAssumption DEF CommitStore, Wrapper
<1>18. ASSUME NEW t \in Threads, Undo(t) PROVE NoAbandonedClaim'
  BY <1>18 DEF Undo, Restored, NoUndoWhileOn
<1>19. ASSUME NEW t \in Threads, UninstallCopy(t) PROVE NoAbandonedClaim'
  BY <1>19 DEF UninstallCopy, PatchCopy
<1>20. ASSUME NEW t \in Threads, UninstallRestore(t) PROVE NoAbandonedClaim'
  BY <1>20 DEF UninstallRestore, Restored
<1>21. ASSUME NEW t \in Threads, UninstallClear(t) PROVE NoAbandonedClaim'
  BY <1>21 DEF UninstallClear
<1>22. ASSUME NEW t \in Threads, UninstallEnd(t) PROVE NoAbandonedClaim'
  BY <1>22 DEF UninstallEnd
<1>23. ASSUME NEW f \in Finders, ForeignShadow(f) PROVE NoAbandonedClaim'
  BY <1>23 DEF ForeignShadow
<1>24. ASSUME NEW t \in Threads, Interrupt(t) PROVE NoAbandonedClaim'
  BY <1>24 DEF Interrupt
<1>25. CASE UNCHANGED vars
  BY <1>25 DEF vars
<1>26. QED
  BY <1>1, <1>2, <1>3, <1>4, <1>5, <1>6, <1>7, <1>8, <1>9, <1>10, <1>11,
     <1>12, <1>13, <1>14, <1>15, <1>16, <1>17, <1>18, <1>19, <1>20, <1>21,
     <1>22, <1>23, <1>24, <1>25
     DEF Next, Proceed, Instrument, Uninstalling

\* While monitoring is off a claim goes only the way to its refusal.
LEMMA DeadClaimsAreRefusedStep ==
  ASSUME RestoreInv, [Next]_vars PROVE DeadClaimsAreRefused'
<1> USE DEF RestoreInv, TypeOK, DeadClaimsAreRefused, AtLabel, Goto, Return,
            monitor, patches, locals, history, Live, Working, Attempting,
            UninstallHoldsLifecycle
<1>1. ASSUME NEW t \in Threads, NEW S \in SUBSET Finders, InstallBegin(t, S)
      PROVE DeadClaimsAreRefused'
  BY <1>1 DEF InstallBegin
<1>2. ASSUME NEW t \in Threads, NEW S \in SUBSET Finders, RecoverBegin(t, S)
      PROVE DeadClaimsAreRefused'
  BY <1>2 DEF RecoverBegin
<1>3. ASSUME NEW t \in Threads, NEW f \in Finders, MetaPathChange(t, f)
      PROVE DeadClaimsAreRefused'
  BY <1>3 DEF MetaPathChange
<1>4. ASSUME NEW t \in Threads, UninstallBegin(t) PROVE DeadClaimsAreRefused'
  BY <1>4, NobodyAssumption DEF UninstallBegin
<1>5. ASSUME NEW t \in Threads, ChangeRecorded(t) PROVE DeadClaimsAreRefused'
  BY <1>5 DEF ChangeRecorded
<1>6. ASSUME NEW t \in Threads, NextFinder(t) PROVE DeadClaimsAreRefused'
  BY <1>6 DEF NextFinder
<1>7. ASSUME NEW t \in Threads, LoopEnd(t) PROVE DeadClaimsAreRefused'
  BY <1>7 DEF LoopEnd
<1>8. ASSUME NEW t \in Threads, Claim(t) PROVE DeadClaimsAreRefused'
  BY <1>8 DEF Claim, Claimable
<1>9. ASSUME NEW t \in Threads, Inspect(t) PROVE DeadClaimsAreRefused'
  BY <1>9 DEF Inspect
<1>10. ASSUME NEW t \in Threads, ShadowState(t) PROVE DeadClaimsAreRefused'
  BY <1>10 DEF ShadowState
<1>11. ASSUME NEW t \in Threads, Prepare(t) PROVE DeadClaimsAreRefused'
  BY <1>11 DEF Prepare
<1>12. ASSUME NEW t \in Threads, Assign(t) PROVE DeadClaimsAreRefused'
  BY <1>12 DEF Assign, Assigned
<1>13. ASSUME NEW t \in Threads, Verify(t) PROVE DeadClaimsAreRefused'
  BY <1>13 DEF Verify
<1>14. ASSUME NEW t \in Threads, PutBack(t) PROVE DeadClaimsAreRefused'
  BY <1>14 DEF PutBack, Assigned
<1>15. ASSUME NEW t \in Threads, Skip(t) PROVE DeadClaimsAreRefused'
  BY <1>15 DEF Skip, ClaimsWithout
<1>16. ASSUME NEW t \in Threads, CommitRead(t) PROVE DeadClaimsAreRefused'
  BY <1>16 DEF CommitRead
<1>17. ASSUME NEW t \in Threads, CommitStore(t) PROVE DeadClaimsAreRefused'
  BY <1>17 DEF CommitStore
<1>18. ASSUME NEW t \in Threads, Undo(t) PROVE DeadClaimsAreRefused'
  BY <1>18 DEF Undo, Restored
<1>19. ASSUME NEW t \in Threads, UninstallCopy(t) PROVE DeadClaimsAreRefused'
  BY <1>19 DEF UninstallCopy, PatchCopy
<1>20. ASSUME NEW t \in Threads, UninstallRestore(t) PROVE DeadClaimsAreRefused'
  BY <1>20 DEF UninstallRestore, Restored
<1>21. ASSUME NEW t \in Threads, UninstallClear(t) PROVE DeadClaimsAreRefused'
  BY <1>21 DEF UninstallClear
<1>22. ASSUME NEW t \in Threads, UninstallEnd(t) PROVE DeadClaimsAreRefused'
  BY <1>22 DEF UninstallEnd
<1>23. ASSUME NEW f \in Finders, ForeignShadow(f) PROVE DeadClaimsAreRefused'
  BY <1>23 DEF ForeignShadow
<1>24. ASSUME NEW t \in Threads, Interrupt(t) PROVE DeadClaimsAreRefused'
  BY <1>24 DEF Interrupt
<1>25. CASE UNCHANGED vars
  BY <1>25 DEF vars
<1>26. QED
  BY <1>1, <1>2, <1>3, <1>4, <1>5, <1>6, <1>7, <1>8, <1>9, <1>10, <1>11,
     <1>12, <1>13, <1>14, <1>15, <1>16, <1>17, <1>18, <1>19, <1>20, <1>21,
     <1>22, <1>23, <1>24, <1>25
     DEF Next, Proceed, Instrument, Uninstalling

\* A commit that is refused while monitoring is on has lost a race.
LEMMA NoUndoWhileOnStep ==
  ASSUME RestoreInv, [Next]_vars PROVE NoUndoWhileOn'
<1> USE DEF RestoreInv, TypeOK, NoUndoWhileOn, AtLabel, Goto, Return, monitor,
            patches, locals, history, Live, Working, Attempting,
            UninstallHoldsLifecycle
<1>1. ASSUME NEW t \in Threads, NEW S \in SUBSET Finders, InstallBegin(t, S)
      PROVE NoUndoWhileOn'
  BY <1>1 DEF InstallBegin
<1>2. ASSUME NEW t \in Threads, NEW S \in SUBSET Finders, RecoverBegin(t, S)
      PROVE NoUndoWhileOn'
  BY <1>2 DEF RecoverBegin
<1>3. ASSUME NEW t \in Threads, NEW f \in Finders, MetaPathChange(t, f)
      PROVE NoUndoWhileOn'
  BY <1>3 DEF MetaPathChange
<1>4. ASSUME NEW t \in Threads, UninstallBegin(t) PROVE NoUndoWhileOn'
  BY <1>4 DEF UninstallBegin
<1>5. ASSUME NEW t \in Threads, ChangeRecorded(t) PROVE NoUndoWhileOn'
  BY <1>5 DEF ChangeRecorded
<1>6. ASSUME NEW t \in Threads, NextFinder(t) PROVE NoUndoWhileOn'
  BY <1>6 DEF NextFinder
<1>7. ASSUME NEW t \in Threads, LoopEnd(t) PROVE NoUndoWhileOn'
  BY <1>7 DEF LoopEnd
<1>8. ASSUME NEW t \in Threads, Claim(t) PROVE NoUndoWhileOn'
  BY <1>8 DEF Claim, Claimable
<1>9. ASSUME NEW t \in Threads, Inspect(t) PROVE NoUndoWhileOn'
  BY <1>9 DEF Inspect
<1>10. ASSUME NEW t \in Threads, ShadowState(t) PROVE NoUndoWhileOn'
  BY <1>10 DEF ShadowState
<1>11. ASSUME NEW t \in Threads, Prepare(t) PROVE NoUndoWhileOn'
  BY <1>11 DEF Prepare
<1>12. ASSUME NEW t \in Threads, Assign(t) PROVE NoUndoWhileOn'
  BY <1>12 DEF Assign, Assigned
<1>13. ASSUME NEW t \in Threads, Verify(t) PROVE NoUndoWhileOn'
  BY <1>13 DEF Verify
<1>14. ASSUME NEW t \in Threads, PutBack(t) PROVE NoUndoWhileOn'
  BY <1>14 DEF PutBack, Assigned
<1>15. ASSUME NEW t \in Threads, Skip(t) PROVE NoUndoWhileOn'
  BY <1>15 DEF Skip, ClaimsWithout
<1>16. ASSUME NEW t \in Threads, CommitRead(t) PROVE NoUndoWhileOn'
  BY <1>16 DEF CommitRead, LiveClaims
<1>17. ASSUME NEW t \in Threads, CommitStore(t) PROVE NoUndoWhileOn'
  BY <1>17 DEF CommitStore
<1>18. ASSUME NEW t \in Threads, Undo(t) PROVE NoUndoWhileOn'
  BY <1>18 DEF Undo, Restored
<1>19. ASSUME NEW t \in Threads, UninstallCopy(t) PROVE NoUndoWhileOn'
  BY <1>19 DEF UninstallCopy, PatchCopy
<1>20. ASSUME NEW t \in Threads, UninstallRestore(t) PROVE NoUndoWhileOn'
  BY <1>20 DEF UninstallRestore, Restored
<1>21. ASSUME NEW t \in Threads, UninstallClear(t) PROVE NoUndoWhileOn'
  BY <1>21 DEF UninstallClear
<1>22. ASSUME NEW t \in Threads, UninstallEnd(t) PROVE NoUndoWhileOn'
  BY <1>22 DEF UninstallEnd
<1>23. ASSUME NEW f \in Finders, ForeignShadow(f) PROVE NoUndoWhileOn'
  BY <1>23 DEF ForeignShadow
<1>24. ASSUME NEW t \in Threads, Interrupt(t) PROVE NoUndoWhileOn'
  BY <1>24 DEF Interrupt
<1>25. CASE UNCHANGED vars
  BY <1>25 DEF vars
<1>26. QED
  BY <1>1, <1>2, <1>3, <1>4, <1>5, <1>6, <1>7, <1>8, <1>9, <1>10, <1>11,
     <1>12, <1>13, <1>14, <1>15, <1>16, <1>17, <1>18, <1>19, <1>20, <1>21,
     <1>22, <1>23, <1>24, <1>25
     DEF Next, Proceed, Instrument, Uninstalling

-----------------------------------------------------------------------------
\* Before the first installation every part of the invariant holds.
LEMMA RestoreInit == Init => RestoreInv
<1> SUFFICES ASSUME Init PROVE RestoreInv
  OBVIOUS
<1>1. TypeOK
  BY TypeInit
<1>2. /\ \A t \in Threads : pc[t] = "idle"
      /\ \A f \in Finders : slot[f] = Theirs(f) /\ installed[f] = Absent
      /\ doomed = {} /\ enabled = FALSE
  BY DEF Init, Theirs
<1>3. /\ UninstallHoldsLifecycle /\ LiveClaims /\ DeadPatches
      /\ PatchesAreClaims /\ OneAttemptPerFinder
  BY <1>2 DEF UninstallHoldsLifecycle, LiveClaims, DeadPatches,
              PatchesAreClaims, OneAttemptPerFinder, Working, Attempting, Holding
<1>4. FoundIsTheirs /\ NothingThereYet /\ WrapperLanded
  BY <1>2 DEF FoundIsTheirs, NothingThereYet, WrapperLanded, Holding,
              Undisturbed
<1>5. SlotIsAccountedFor /\ DoomedArePatches /\ DoomedWhileRestoring
  BY <1>2 DEF SlotIsAccountedFor, Accounted, DoomedArePatches,
              DoomedWhileRestoring, Undisturbed
<1>6. NoAbandonedClaim /\ DeadClaimsAreRefused /\ NoUndoWhileOn
  BY DEF Init, NoAbandonedClaim, DeadClaimsAreRefused, NoUndoWhileOn
<1>7. QED
  BY <1>1, <1>3, <1>4, <1>5, <1>6 DEF RestoreInv

\* RestoreInv is inductive: threads may instrument, uninstall, install again
\* and be shadowed by other tools in any order, and foreign code may raise.
THEOREM RestoreInvariant == Spec => []RestoreInv
<1>1. RestoreInv /\ [Next]_vars => RestoreInv'
  <2>1. RestoreInv /\ [Next]_vars => TypeOK'
    BY TypeStep DEF RestoreInv
  <2>2. QED
    BY <2>1, UninstallHoldsLifecycleStep,
       LiveClaimsStep,
       DeadPatchesStep,
       PatchesAreClaimsStep,
       OneAttemptPerFinderStep,
       FoundIsTheirsStep,
       NothingThereYetStep,
       WrapperLandedStep,
       SlotIsAccountedForStep,
       DoomedArePatchesStep,
       DoomedWhileRestoringStep,
       NoAbandonedClaimStep,
       DeadClaimsAreRefusedStep,
       NoUndoWhileOnStep
    DEF RestoreInv
<1>2. QED
  BY <1>1, RestoreInit, PTL DEF Spec

\* Uninstallation leaves every finder that lost no race and whose __setattr__
\* and __dict__ let a wrapper be taken out again as the program had it, or in
\* the hands of a thread that is about to take its wrapper out.
THEOREM Restoration == Spec => []RestoredAfterUninstall
<1>1. RestoreInv => RestoredAfterUninstall
  <2> SUFFICES ASSUME RestoreInv, ~enabled, lifecycle = Nobody,
                      NEW f \in Undisturbed
               PROVE slot[f] = Theirs(f) \/ \E t \in Threads : Settling(t, f)
    BY DEF RestoredAfterUninstall
  <2>1. \A t \in Threads : pc[t] \notin {"copy", "restore"}
    BY NobodyAssumption DEF RestoreInv, UninstallHoldsLifecycle
  <2>2. installed[f] = Absent
    BY <2>1 DEF RestoreInv, DeadPatches, Live, Undisturbed
  <2>3. QED
    BY <2>2, SlotAssumption
    DEF RestoreInv, SlotIsAccountedFor, Accounted, Wrapper
<1>2. QED
  BY <1>1, RestoreInvariant, PTL

\* Wrappers of two threads never nest on a finder that lost no race.
THEOREM Exclusion == Spec => []OneAttemptPerFinder
<1>1. RestoreInv => OneAttemptPerFinder
  BY DEF RestoreInv
<1>2. QED
  BY <1>1, RestoreInvariant, PTL

\* While monitoring is on, every claim on a finder that lost no race is a
\* finished patch or has a thread at work on it, unless _prepare_claim refused
\* it or foreign code raised out of its attempt.
THEOREM ClaimsAreSettled == Spec => []NoAbandonedClaim
<1>1. RestoreInv => NoAbandonedClaim
  BY DEF RestoreInv
<1>2. QED
  BY <1>1, RestoreInvariant, PTL
=============================================================================
