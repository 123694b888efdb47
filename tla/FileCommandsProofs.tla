-------------------------- MODULE FileCommandsProofs --------------------------
(***************************************************************************)
(* Proofs about the commands that share files, for any number of commands, *)
(* process ids, versions and births.                                       *)
(*                                                                         *)
(* The archives: CacheInv is inductive.  Until a race has happened, a      *)
(* process that was ever monitored is leased or its session is still       *)
(* starting (ServedIsCovered), and a prune spares what has a manifest or a *)
(* lease (PruneSpares); so what an unlink takes away nothing needs.  First *)
(* come the types and what holds after a race too, then what one step can  *)
(* do to a manifest, a prune, a monitored process and a lease, then the    *)
(* four parts of the invariant that a race ends.                           *)
(*                                                                         *)
(* The start-up file: SiteBootstrapProofs, here for the model of both.     *)
(***************************************************************************)
EXTENDS MCFileCommands, TLAPS

\* Values that are none of the others.
LEMMA Values ==
  /\ Births \subseteq Nat /\ 1 \in Births /\ 0 \notin Births
  /\ \A b \in Births : b < MaxBirths => b + 1 \in Births
  /\ NoStatus \in [state : {"none", "active", "complete", "failed"},
                   birth : Births \union {0}]
  /\ NoStatus.state = "none"
  /\ \A b \in Births, s \in {"active", "complete", "failed"} :
       [state |-> s, birth |-> b] \in [state : {"none", "active", "complete", "failed"},
                                       birth : Births \union {0}]
  BY BirthAssumption DEF Births, NoStatus

\* A manifest names a version and a birth.
LEMMA ManifestIsSession ==
  ASSUME CacheInv
  PROVE  \A p \in Pids : HasManifest(p) =>
           /\ manifest[p].version \in Versions /\ manifest[p].birth \in Births
           /\ manifest[p].version # None
  BY NoneAssumption DEF CacheInv, TypeOK, HasManifest, Sessions

\* It names nothing else.
LEMMA ManifestIsRecord ==
  ASSUME CacheInv, NEW p \in Pids, HasManifest(p)
  PROVE  manifest[p] = [version |-> manifest[p].version, birth |-> manifest[p].birth]
<1>1. manifest[p] \in [version : Versions, birth : Births]
  BY DEF CacheInv, TypeOK, HasManifest, Sessions
<1>2. QED
  BY <1>1

\* A manifest that is written is one.
LEMMA NewManifest ==
  /\ NoStatus.state = "none"
  /\ \A v \in Versions \union {None}, b \in Births :
       /\ [version |-> v, birth |-> b] # Fresh
       /\ [version |-> v, birth |-> b].version = v
       /\ [version |-> v, birth |-> b].birth = b
  BY NoneAssumption, Values DEF Fresh, NoStatus

\* The places a command goes to are places.
LEMMA Places ==
  /\ {"idle", "manifests", "leases", "archives", "unlink", "reserve", "stage",
      "manifest", "handler", "unclaimed", "removeAgain"} \subseteq PC
  /\ {"exec", "wait", "acknowledge", "stop", "waitStop", "deliver", "remove"}
       \subseteq PC
  BY DEF PC

\* The types, by what they are types of.
TargetTypes ==
  /\ birth \in [Pids -> Births] /\ alive \in [Pids -> BOOLEAN]
  /\ slot \in [Pids -> {"none", "start", "stop"}]
  /\ loaded \in [Pids -> Versions \union {None}]
  /\ served \in [Pids -> BOOLEAN]
SessionTypes ==
  /\ directory \in [Pids -> BOOLEAN]
  /\ manifest \in [Pids -> Sessions \union {Fresh}]
  /\ status \in [Pids -> [state : {"none", "active", "complete", "failed"},
                         birth : Births \union {0}]]
  /\ control \in [Pids -> {"none", "start_pending", "active", "terminal"}]
FileTypes ==
  /\ archives \subseteq Versions
  /\ leases \in [Processes -> Versions \union {None}]
  /\ raced \in BOOLEAN
LocalTypes ==
  /\ pc \in [Commands -> PC]
  /\ after \in [Commands -> {"idle", "reserve", "handler"}]
  /\ pid \in [Commands -> Pids \union {None}]
  /\ version \in [Commands -> Versions \union {None}]
  /\ expected \in [Commands -> Births \union {0}]
  /\ stopping \in [Commands -> BOOLEAN]
  /\ unread \in [Commands -> SUBSET (Pids \union Processes)]
  /\ referenced \in [Commands -> SUBSET Versions]
  /\ doomed \in [Commands -> SUBSET Versions]

\* A command that ends or goes on leaves the types of its locals.
LEMMA EndsTypes ==
  ASSUME LocalTypes, NEW k \in Commands, Ends(k)
  PROVE  LocalTypes'
  BY Places DEF LocalTypes, Ends, Forgets, Goto

\* So does one that goes to its handler.
LEMMA HandlesTypes ==
  ASSUME LocalTypes, NEW k \in Commands, Handles(k)
  PROVE  LocalTypes'
  BY Places DEF LocalTypes, Handles, Forgets, Goto

\* So does one that goes on.
LEMMA GoesTypes ==
  ASSUME LocalTypes, NEW k \in Commands, NEW label \in PC, Goes(k, label)
  PROVE  LocalTypes'
  BY DEF LocalTypes, Goes, Goto, KeepsRun, PrunesOnly, KeepsPrune

\* The two parts of BirthsGrow.
ManifestsAreOld == \A p \in Pids : HasManifest(p) => manifest[p].birth <= birth[p]
CommandsAreOld == \A k \in Commands : pid[k] \in Pids => expected[k] <= birth[pid[k]]

\* A status is a state and a birth.
LEMMA StatusTypes ==
  ASSUME TypeOK, NEW p \in Pids, NEW s \in {"active", "complete", "failed"},
         SetStatus(p, s)
  PROVE  /\ directory' \in [Pids -> BOOLEAN]
         /\ status' \in [Pids -> [state : {"none", "active", "complete", "failed"},
                                  birth : Births \union {0}]]
<1>1. [state |-> s, birth |-> birth[p]]
        \in [state : {"none", "active", "complete", "failed"}, birth : Births \union {0}]
  BY DEF TypeOK
<1>2. directory' \in [Pids -> BOOLEAN]
  BY DEF TypeOK, SetStatus
<1>3. status' = [status EXCEPT ![p] = [state |-> s, birth |-> birth[p]]]
  BY DEF SetStatus
<1>4. QED
  BY <1>1, <1>2, <1>3 DEF TypeOK

\* Every step leaves the types of the target.
LEMMA TargetStep ==
  ASSUME CacheInv, [Next]_vars
  PROVE  TargetTypes'
<1>0. /\ birth \in [Pids -> Births]
      /\ alive \in [Pids -> BOOLEAN]
      /\ slot \in [Pids -> {"none", "start", "stop"}]
      /\ loaded \in [Pids -> Versions \union {None}]
      /\ served \in [Pids -> BOOLEAN]
  BY Values, BirthAssumption DEF CacheInv, TypeOK
<1> USE <1>0 DEF TargetTypes, At, Goto, Goes, Ends, Handles, Forgets,
        KeepsRun, PrunesOnly, KeepsPrune, Prune, SetControl, RemoveSession, SetStatus,
        target, session, locals
<1>1. CASE UNCHANGED vars
  BY <1>1 DEF vars
<1>2. ASSUME NEW k \in Commands, NEW p \in Pids, ReadManifest(k, p)
      PROVE  TargetTypes'
  BY <1>2 DEF ReadManifest
<1>3. ASSUME NEW k \in Commands, AllManifestsRead(k) PROVE TargetTypes'
  BY <1>3 DEF AllManifestsRead
<1>4. ASSUME NEW k \in Commands, NEW q \in Processes, ReadLease(k, q)
      PROVE  TargetTypes'
  BY <1>4 DEF ReadLease, Held
<1>5. ASSUME NEW k \in Commands, AllLeasesRead(k) PROVE TargetTypes'
  BY <1>5 DEF AllLeasesRead
<1>6. ASSUME NEW k \in Commands, ListArchives(k) PROVE TargetTypes'
  BY <1>6 DEF ListArchives
<1>7. ASSUME NEW k \in Commands, Unlink(k) PROVE TargetTypes'
  BY <1>7 DEF Unlink
<1>8. ASSUME NEW k \in Commands, UnlinkFails(k) PROVE TargetTypes'
  BY <1>8, SMTT(30) DEF UnlinkFails
<1>9. ASSUME NEW k \in Commands, Pruned(k) PROVE TargetTypes'
  BY <1>9 DEF Pruned
<1>10. ASSUME NEW k \in Commands, NEW p \in Pids, NEW v \in Versions,
             AttachBegin(k, p, v)
      PROVE  TargetTypes'
  BY <1>10 DEF AttachBegin
<1>11. ASSUME NEW k \in Commands, Reserve(k) PROVE TargetTypes'
  BY <1>11 DEF Reserve
<1>12. ASSUME NEW k \in Commands, Stage(k) PROVE TargetTypes'
  BY <1>12 DEF Stage
<1>13. ASSUME NEW k \in Commands, WriteManifest(k) PROVE TargetTypes'
  BY <1>13 DEF WriteManifest, Uncovered
<1>14. ASSUME NEW k \in Commands, StartExec(k) PROVE TargetTypes'
  BY <1>14 DEF StartExec
<1>15. ASSUME NEW k \in Commands, StartExecFails(k) PROVE TargetTypes'
  BY <1>15 DEF StartExecFails
<1>16. ASSUME NEW k \in Commands, ObserveStart(k) PROVE TargetTypes'
  BY <1>16 DEF ObserveStart
<1>17. ASSUME NEW k \in Commands, Acknowledge(k) PROVE TargetTypes'
  BY <1>17 DEF Acknowledge, Lease, OtherSession
<1>18. ASSUME NEW k \in Commands, NEW p \in Pids, StopBegin(k, p)
      PROVE  TargetTypes'
  BY <1>18 DEF StopBegin, Terminal
<1>19. ASSUME NEW k \in Commands, NEW p \in Pids, Discard(k, p)
      PROVE  TargetTypes'
  BY <1>19 DEF Discard, MayExecute
<1>20. ASSUME NEW k \in Commands, StopExec(k) PROVE TargetTypes'
  BY <1>20 DEF StopExec
<1>21. ASSUME NEW k \in Commands, ObserveStop(k) PROVE TargetTypes'
  BY <1>21 DEF ObserveStop, Terminal
<1>22. ASSUME NEW k \in Commands, Deliver(k) PROVE TargetTypes'
  BY <1>22 DEF Deliver
<1>23. ASSUME NEW k \in Commands, Remove(k) PROVE TargetTypes'
  BY <1>23 DEF Remove, Started, MayExecute
<1>24. ASSUME NEW k \in Commands, Raises(k) PROVE TargetTypes'
  BY <1>24 DEF Raises, Reserved
<1>25. ASSUME NEW k \in Commands, FindDirectory(k) PROVE TargetTypes'
  BY <1>25 DEF FindDirectory
<1>26. ASSUME NEW k \in Commands, FindNoManifest(k) PROVE TargetTypes'
  BY <1>26 DEF FindNoManifest
<1>27. ASSUME NEW k \in Commands, RemoveAgain(k) PROVE TargetTypes'
  BY <1>27 DEF RemoveAgain, Started, MayExecute
<1>28. ASSUME NEW k \in Commands, GiveUp(k) PROVE TargetTypes'
  BY <1>28 DEF GiveUp
<1>29. ASSUME NEW p \in Pids, RunStart(p) PROVE TargetTypes'
  BY <1>29, ManifestIsSession DEF RunStart
<1>30. ASSUME NEW p \in Pids, RunStop(p) PROVE TargetTypes'
  BY <1>30 DEF RunStop, Finalize
<1>31. ASSUME NEW p \in Pids, RecoverAtExit(p) PROVE TargetTypes'
  BY <1>31 DEF RecoverAtExit, Finalize
<1>32. ASSUME NEW p \in Pids, Exit(p) PROVE TargetTypes'
  BY <1>32 DEF Exit
<1>33. ASSUME NEW p \in Pids, Reuse(p) PROVE TargetTypes'
  BY <1>33, Values DEF Reuse
<1> QED
  BY <1>1, <1>2, <1>3, <1>4, <1>5, <1>6, <1>7, <1>8, <1>9, <1>10,
     <1>11, <1>12, <1>13, <1>14, <1>15, <1>16, <1>17, <1>18, <1>19, <1>20,
     <1>21, <1>22, <1>23, <1>24, <1>25, <1>26, <1>27, <1>28, <1>29, <1>30,
     <1>31, <1>32, <1>33
  DEF Next

\* Every step leaves the types of the session.
LEMMA SessionStep ==
  ASSUME CacheInv, [Next]_vars
  PROVE  SessionTypes'
<1>0. LocalsFit
      /\ directory \in [Pids -> BOOLEAN]
      /\ manifest \in [Pids -> Sessions \union {Fresh}]
      /\ status \in [Pids ->
           [state : {"none", "active", "complete", "failed"}, birth : Births \union {0}]]
      /\ control \in [Pids -> {"none", "start_pending", "active", "terminal"}]
      /\ pc \in [Commands -> PC]
      /\ pid \in [Commands -> Pids \union {None}]
      /\ birth \in [Pids -> Births]
  BY Values, BirthAssumption DEF CacheInv, TypeOK
<1> USE <1>0 DEF SessionTypes, LocalsFit, Pruning, Over, At, Goto, Goes, Ends,
        Handles, Forgets, KeepsRun, PrunesOnly, KeepsPrune, Prune, SetControl,
        RemoveSession, SetStatus, target, session, locals
<1>1. CASE UNCHANGED vars
  BY <1>1 DEF vars
<1>2. ASSUME NEW k \in Commands, NEW p \in Pids, ReadManifest(k, p)
      PROVE  SessionTypes'
  BY <1>2 DEF ReadManifest
<1>3. ASSUME NEW k \in Commands, AllManifestsRead(k) PROVE SessionTypes'
  BY <1>3 DEF AllManifestsRead
<1>4. ASSUME NEW k \in Commands, NEW q \in Processes, ReadLease(k, q)
      PROVE  SessionTypes'
  BY <1>4 DEF ReadLease, Held
<1>5. ASSUME NEW k \in Commands, AllLeasesRead(k) PROVE SessionTypes'
  BY <1>5 DEF AllLeasesRead
<1>6. ASSUME NEW k \in Commands, ListArchives(k) PROVE SessionTypes'
  BY <1>6 DEF ListArchives
<1>7. ASSUME NEW k \in Commands, Unlink(k) PROVE SessionTypes'
  BY <1>7 DEF Unlink
<1>8. ASSUME NEW k \in Commands, UnlinkFails(k) PROVE SessionTypes'
  BY <1>8, SMTT(30) DEF UnlinkFails
<1>9. ASSUME NEW k \in Commands, Pruned(k) PROVE SessionTypes'
  BY <1>9 DEF Pruned
<1>10. ASSUME NEW k \in Commands, NEW p \in Pids, NEW v \in Versions,
             AttachBegin(k, p, v)
      PROVE  SessionTypes'
  BY <1>10 DEF AttachBegin
<1>11. ASSUME NEW k \in Commands, Reserve(k) PROVE SessionTypes'
  BY <1>11 DEF Reserve
<1>12. ASSUME NEW k \in Commands, Stage(k) PROVE SessionTypes'
  BY <1>12 DEF Stage
<1>13. ASSUME NEW k \in Commands, WriteManifest(k) PROVE SessionTypes'
  <2>1. /\ version[k] \in Versions /\ expected[k] \in Births
        /\ manifest' = [manifest EXCEPT ![pid[k]] =
                          [version |-> version[k], birth |-> expected[k]]]
        /\ directory' = [directory EXCEPT ![pid[k]] = TRUE]
        /\ UNCHANGED <<status, control>>
    BY <1>13 DEF WriteManifest
  <2>2. [version |-> version[k], birth |-> expected[k]] \in Sessions
    BY <2>1 DEF Sessions
  <2>3. QED
    BY <2>1, <2>2
<1>14. ASSUME NEW k \in Commands, StartExec(k) PROVE SessionTypes'
  BY <1>14 DEF StartExec
<1>15. ASSUME NEW k \in Commands, StartExecFails(k) PROVE SessionTypes'
  BY <1>15, Values DEF StartExecFails
<1>16. ASSUME NEW k \in Commands, ObserveStart(k) PROVE SessionTypes'
  BY <1>16 DEF ObserveStart
<1>17. ASSUME NEW k \in Commands, Acknowledge(k) PROVE SessionTypes'
  BY <1>17 DEF Acknowledge, Lease, OtherSession
<1>18. ASSUME NEW k \in Commands, NEW p \in Pids, StopBegin(k, p)
      PROVE  SessionTypes'
  BY <1>18 DEF StopBegin, Terminal
<1>19. ASSUME NEW k \in Commands, NEW p \in Pids, Discard(k, p)
      PROVE  SessionTypes'
  BY <1>19 DEF Discard, MayExecute
<1>20. ASSUME NEW k \in Commands, StopExec(k) PROVE SessionTypes'
  BY <1>20 DEF StopExec
<1>21. ASSUME NEW k \in Commands, ObserveStop(k) PROVE SessionTypes'
  BY <1>21 DEF ObserveStop, Terminal
<1>22. ASSUME NEW k \in Commands, Deliver(k) PROVE SessionTypes'
  BY <1>22 DEF Deliver
<1>23. ASSUME NEW k \in Commands, Remove(k) PROVE SessionTypes'
  BY <1>23, Values DEF Remove, Started, MayExecute
<1>24. ASSUME NEW k \in Commands, Raises(k) PROVE SessionTypes'
  BY <1>24 DEF Raises, Reserved
<1>25. ASSUME NEW k \in Commands, FindDirectory(k) PROVE SessionTypes'
  BY <1>25 DEF FindDirectory
<1>26. ASSUME NEW k \in Commands, FindNoManifest(k) PROVE SessionTypes'
  BY <1>26 DEF FindNoManifest
<1>27. ASSUME NEW k \in Commands, RemoveAgain(k) PROVE SessionTypes'
  BY <1>27, Values DEF RemoveAgain, Started, MayExecute
<1>28. ASSUME NEW k \in Commands, GiveUp(k) PROVE SessionTypes'
  BY <1>28 DEF GiveUp
<1>29. ASSUME NEW p \in Pids, RunStart(p) PROVE SessionTypes'
  <2>1. manifest' = manifest /\ control' = control
    BY <1>29 DEF RunStart
  <2>2. CASE UNCHANGED <<directory, status>>
    BY <2>1, <2>2
  <2>3. ASSUME NEW s \in {"active", "complete", "failed"}, SetStatus(p, s)
        PROVE  SessionTypes'
    BY <2>1, <2>3, StatusTypes DEF CacheInv
  <2>4. QED
    BY <1>29, <2>2, <2>3 DEF RunStart
<1>30. ASSUME NEW p \in Pids, RunStop(p) PROVE SessionTypes'
  <2>1. manifest' = manifest /\ control' = control
    BY <1>30 DEF RunStop, Finalize
  <2>2. CASE UNCHANGED <<directory, status>>
    BY <2>1, <2>2
  <2>3. ASSUME NEW s \in {"active", "complete", "failed"}, SetStatus(p, s)
        PROVE  SessionTypes'
    BY <2>1, <2>3, StatusTypes DEF CacheInv
  <2>4. QED
    BY <1>30, <2>2, <2>3 DEF RunStop, Finalize
<1>31. ASSUME NEW p \in Pids, RecoverAtExit(p) PROVE SessionTypes'
  <2>1. manifest' = manifest /\ control' = control
    BY <1>31 DEF RecoverAtExit, Finalize
  <2>2. CASE UNCHANGED <<directory, status>>
    BY <2>1, <2>2
  <2>3. ASSUME NEW s \in {"active", "complete", "failed"}, SetStatus(p, s)
        PROVE  SessionTypes'
    BY <2>1, <2>3, StatusTypes DEF CacheInv
  <2>4. QED
    BY <1>31, <2>2, <2>3 DEF RecoverAtExit, Finalize
<1>32. ASSUME NEW p \in Pids, Exit(p) PROVE SessionTypes'
  BY <1>32 DEF Exit
<1>33. ASSUME NEW p \in Pids, Reuse(p) PROVE SessionTypes'
  BY <1>33 DEF Reuse
<1> QED
  BY <1>1, <1>2, <1>3, <1>4, <1>5, <1>6, <1>7, <1>8, <1>9, <1>10,
     <1>11, <1>12, <1>13, <1>14, <1>15, <1>16, <1>17, <1>18, <1>19, <1>20,
     <1>21, <1>22, <1>23, <1>24, <1>25, <1>26, <1>27, <1>28, <1>29, <1>30,
     <1>31, <1>32, <1>33
  DEF Next

\* Every step leaves the types of the archives and leases.
LEMMA FileStep ==
  ASSUME CacheInv, [Next]_vars
  PROVE  FileTypes'
<1>0. LocalsFit
      /\ archives \subseteq Versions
      /\ leases \in [Processes -> Versions \union {None}]
      /\ raced \in BOOLEAN
      /\ pc \in [Commands -> PC]
      /\ pid \in [Commands -> Pids \union {None}]
      /\ version \in [Commands -> Versions \union {None}]
      /\ expected \in [Commands -> Births \union {0}]
  BY Values, BirthAssumption DEF CacheInv, TypeOK
<1> USE <1>0 DEF FileTypes, LocalsFit, Pruning, Over, At, Goto, Goes, Ends,
        Handles, Forgets, KeepsRun, PrunesOnly, KeepsPrune, Prune, SetControl,
        RemoveSession, SetStatus, target, session, locals
<1>1. CASE UNCHANGED vars
  BY <1>1 DEF vars
<1>2. ASSUME NEW k \in Commands, NEW p \in Pids, ReadManifest(k, p)
      PROVE  FileTypes'
  BY <1>2 DEF ReadManifest
<1>3. ASSUME NEW k \in Commands, AllManifestsRead(k) PROVE FileTypes'
  BY <1>3 DEF AllManifestsRead
<1>4. ASSUME NEW k \in Commands, NEW q \in Processes, ReadLease(k, q)
      PROVE  FileTypes'
  BY <1>4 DEF ReadLease, Held
<1>5. ASSUME NEW k \in Commands, AllLeasesRead(k) PROVE FileTypes'
  BY <1>5 DEF AllLeasesRead
<1>6. ASSUME NEW k \in Commands, ListArchives(k) PROVE FileTypes'
  BY <1>6 DEF ListArchives
<1>7. ASSUME NEW k \in Commands, Unlink(k) PROVE FileTypes'
  BY <1>7 DEF Unlink
<1>8. ASSUME NEW k \in Commands, UnlinkFails(k) PROVE FileTypes'
  BY <1>8, SMTT(30) DEF UnlinkFails
<1>9. ASSUME NEW k \in Commands, Pruned(k) PROVE FileTypes'
  BY <1>9 DEF Pruned
<1>10. ASSUME NEW k \in Commands, NEW p \in Pids, NEW v \in Versions,
             AttachBegin(k, p, v)
      PROVE  FileTypes'
  BY <1>10 DEF AttachBegin
<1>11. ASSUME NEW k \in Commands, Reserve(k) PROVE FileTypes'
  BY <1>11 DEF Reserve
<1>12. ASSUME NEW k \in Commands, Stage(k) PROVE FileTypes'
  BY <1>12 DEF Stage
<1>13. ASSUME NEW k \in Commands, WriteManifest(k) PROVE FileTypes'
  BY <1>13 DEF WriteManifest, Uncovered
<1>14. ASSUME NEW k \in Commands, StartExec(k) PROVE FileTypes'
  BY <1>14 DEF StartExec
<1>15. ASSUME NEW k \in Commands, StartExecFails(k) PROVE FileTypes'
  BY <1>15 DEF StartExecFails
<1>16. ASSUME NEW k \in Commands, ObserveStart(k) PROVE FileTypes'
  BY <1>16 DEF ObserveStart
<1>17. ASSUME NEW k \in Commands, Acknowledge(k) PROVE FileTypes'
  BY <1>17, ManifestIsSession DEF Acknowledge, Lease, OtherSession, Processes
<1>18. ASSUME NEW k \in Commands, NEW p \in Pids, StopBegin(k, p)
      PROVE  FileTypes'
  BY <1>18 DEF StopBegin, Terminal
<1>19. ASSUME NEW k \in Commands, NEW p \in Pids, Discard(k, p)
      PROVE  FileTypes'
  BY <1>19 DEF Discard, MayExecute
<1>20. ASSUME NEW k \in Commands, StopExec(k) PROVE FileTypes'
  BY <1>20 DEF StopExec
<1>21. ASSUME NEW k \in Commands, ObserveStop(k) PROVE FileTypes'
  BY <1>21 DEF ObserveStop, Terminal
<1>22. ASSUME NEW k \in Commands, Deliver(k) PROVE FileTypes'
  BY <1>22 DEF Deliver
<1>23. ASSUME NEW k \in Commands, Remove(k) PROVE FileTypes'
  BY <1>23 DEF Remove, Started, MayExecute
<1>24. ASSUME NEW k \in Commands, Raises(k) PROVE FileTypes'
  BY <1>24 DEF Raises, Reserved
<1>25. ASSUME NEW k \in Commands, FindDirectory(k) PROVE FileTypes'
  BY <1>25 DEF FindDirectory
<1>26. ASSUME NEW k \in Commands, FindNoManifest(k) PROVE FileTypes'
  BY <1>26 DEF FindNoManifest
<1>27. ASSUME NEW k \in Commands, RemoveAgain(k) PROVE FileTypes'
  BY <1>27 DEF RemoveAgain, Started, MayExecute
<1>28. ASSUME NEW k \in Commands, GiveUp(k) PROVE FileTypes'
  BY <1>28 DEF GiveUp
<1>29. ASSUME NEW p \in Pids, RunStart(p) PROVE FileTypes'
  BY <1>29 DEF RunStart
<1>30. ASSUME NEW p \in Pids, RunStop(p) PROVE FileTypes'
  BY <1>30 DEF RunStop, Finalize
<1>31. ASSUME NEW p \in Pids, RecoverAtExit(p) PROVE FileTypes'
  BY <1>31 DEF RecoverAtExit, Finalize
<1>32. ASSUME NEW p \in Pids, Exit(p) PROVE FileTypes'
  BY <1>32 DEF Exit
<1>33. ASSUME NEW p \in Pids, Reuse(p) PROVE FileTypes'
  BY <1>33 DEF Reuse
<1> QED
  BY <1>1, <1>2, <1>3, <1>4, <1>5, <1>6, <1>7, <1>8, <1>9, <1>10,
     <1>11, <1>12, <1>13, <1>14, <1>15, <1>16, <1>17, <1>18, <1>19, <1>20,
     <1>21, <1>22, <1>23, <1>24, <1>25, <1>26, <1>27, <1>28, <1>29, <1>30,
     <1>31, <1>32, <1>33
  DEF Next

\* Every step leaves the types of the locals.
LEMMA CommandStep ==
  ASSUME CacheInv, [Next]_vars
  PROVE  LocalTypes'
<1>0. LocalsFit
      /\ archives \subseteq Versions
      /\ pc \in [Commands -> PC]
      /\ pid \in [Commands -> Pids \union {None}]
      /\ version \in [Commands -> Versions \union {None}]
      /\ expected \in [Commands -> Births \union {0}]
      /\ stopping \in [Commands -> BOOLEAN]
      /\ after \in [Commands -> {"idle", "reserve", "handler"}]
      /\ unread \in [Commands -> SUBSET (Pids \union Processes)]
      /\ referenced \in [Commands -> SUBSET Versions]
      /\ doomed \in [Commands -> SUBSET Versions]
      /\ birth \in [Pids -> Births]
  BY Values, BirthAssumption DEF CacheInv, TypeOK
<1> USE <1>0 DEF LocalTypes, LocalsFit, Pruning, Over, At, Goto, KeepsRun, PrunesOnly,
        KeepsPrune, Prune, SetControl, RemoveSession, SetStatus, target,
        session, locals
<1>1. CASE UNCHANGED vars
  BY <1>1 DEF vars
<1>2. ASSUME NEW k \in Commands, NEW p \in Pids, ReadManifest(k, p)
      PROVE  LocalTypes'
  BY <1>2, ManifestIsSession, Places, GoesTypes DEF ReadManifest
<1>3. ASSUME NEW k \in Commands, AllManifestsRead(k) PROVE LocalTypes'
  BY <1>3, Places, GoesTypes DEF AllManifestsRead
<1>4. ASSUME NEW k \in Commands, NEW q \in Processes, ReadLease(k, q)
      PROVE  LocalTypes'
  <2>1. Held(q) \subseteq Versions
    BY DEF CacheInv, TypeOK, Held
  <2>2. QED
    BY <1>4, <2>1 DEF ReadLease
<1>5. ASSUME NEW k \in Commands, AllLeasesRead(k) PROVE LocalTypes'
  BY <1>5, Places, GoesTypes DEF AllLeasesRead
<1>6. ASSUME NEW k \in Commands, ListArchives(k) PROVE LocalTypes'
  BY <1>6, Places, GoesTypes DEF ListArchives
<1>7. ASSUME NEW k \in Commands, Unlink(k) PROVE LocalTypes'
  BY <1>7, Places, GoesTypes DEF Unlink
<1>8. ASSUME NEW k \in Commands, UnlinkFails(k) PROVE LocalTypes'
  <2>1. CASE Ends(k)
    BY <2>1, EndsTypes
  <2>2. CASE Handles(k)
    BY <2>2, HandlesTypes
  <2>3. QED
    BY <1>8, <2>1, <2>2 DEF UnlinkFails
<1>9. ASSUME NEW k \in Commands, Pruned(k) PROVE LocalTypes'
  <2>1. CASE Ends(k)
    BY <2>1, EndsTypes
  <2>2. CASE Handles(k)
    BY <2>2, HandlesTypes
  <2>3. CASE ~Ends(k) /\ ~Handles(k)
    <3>1. /\ pc' = [pc EXCEPT ![k] = "reserve"]
          /\ UNCHANGED <<pid, version, expected, stopping, unread, doomed>>
          /\ referenced' = [referenced EXCEPT ![k] = {}]
          /\ after' = [after EXCEPT ![k] = "idle"]
      BY <1>9, <2>3 DEF Pruned
    <3>2. QED
      BY <3>1, Places
  <2>4. QED
    BY <2>1, <2>2, <2>3
<1>10. ASSUME NEW k \in Commands, NEW p \in Pids, NEW v \in Versions,
             AttachBegin(k, p, v)
      PROVE  LocalTypes'
  <2>1. birth[p] \in Births
    OBVIOUS
  <2>2. /\ pc' = [pc EXCEPT ![k] = "manifests"] /\ after' = [after EXCEPT ![k] = "reserve"]
        /\ pid' = [pid EXCEPT ![k] = p] /\ version' = [version EXCEPT ![k] = v]
        /\ expected' = [expected EXCEPT ![k] = birth[p]]
        /\ stopping' = [stopping EXCEPT ![k] = FALSE]
        /\ unread' = [unread EXCEPT ![k] = Pids]
        /\ UNCHANGED <<referenced, doomed>>
    BY <1>10 DEF AttachBegin
  <2>3. QED
    BY <2>1, <2>2, Places
<1>11. ASSUME NEW k \in Commands, Reserve(k) PROVE LocalTypes'
  <2>1. CASE Ends(k)
    BY <2>1, EndsTypes
  <2>2. CASE ~Ends(k)
    BY <1>11, <2>2, Places, GoesTypes DEF Reserve
  <2>3. QED
    BY <2>1, <2>2
<1>12. ASSUME NEW k \in Commands, Stage(k) PROVE LocalTypes'
  BY <1>12, Places, GoesTypes DEF Stage
<1>13. ASSUME NEW k \in Commands, WriteManifest(k) PROVE LocalTypes'
  BY <1>13, Places, GoesTypes DEF WriteManifest, Uncovered
<1>14. ASSUME NEW k \in Commands, StartExec(k) PROVE LocalTypes'
  <2>1. CASE Handles(k)
    BY <2>1, HandlesTypes
  <2>2. CASE ~Handles(k)
    BY <1>14, <2>2, Places, GoesTypes DEF StartExec
  <2>3. QED
    BY <2>1, <2>2
<1>15. ASSUME NEW k \in Commands, StartExecFails(k) PROVE LocalTypes'
  BY <1>15, Places, GoesTypes DEF StartExecFails
<1>16. ASSUME NEW k \in Commands, ObserveStart(k) PROVE LocalTypes'
  <2>1. CASE Ends(k)
    BY <2>1, EndsTypes
  <2>2. CASE ~Ends(k)
    BY <1>16, <2>2, Places, GoesTypes DEF ObserveStart
  <2>3. QED
    BY <2>1, <2>2
<1>17. ASSUME NEW k \in Commands, Acknowledge(k) PROVE LocalTypes'
  <2>1. CASE Ends(k)
    BY <2>1, EndsTypes
  <2>2. CASE ~Ends(k)
    BY <1>17, <2>2, Places, GoesTypes DEF Acknowledge
  <2>3. QED
    BY <2>1, <2>2
<1>18. ASSUME NEW k \in Commands, NEW p \in Pids, StopBegin(k, p)
      PROVE  LocalTypes'
  BY <1>18, Places, ManifestIsSession DEF StopBegin, Terminal
<1>19. ASSUME NEW k \in Commands, NEW p \in Pids, Discard(k, p)
      PROVE  LocalTypes'
  BY <1>19, Places, GoesTypes DEF Discard, MayExecute
<1>20. ASSUME NEW k \in Commands, StopExec(k) PROVE LocalTypes'
  BY <1>20, Places, GoesTypes DEF StopExec
<1>21. ASSUME NEW k \in Commands, ObserveStop(k) PROVE LocalTypes'
  BY <1>21, Places, GoesTypes DEF ObserveStop, Terminal
<1>22. ASSUME NEW k \in Commands, Deliver(k) PROVE LocalTypes'
  BY <1>22, Places, GoesTypes DEF Deliver
<1>23. ASSUME NEW k \in Commands, Remove(k) PROVE LocalTypes'
  BY <1>23, Places, GoesTypes DEF Remove, Started, MayExecute
<1>24. ASSUME NEW k \in Commands, Raises(k) PROVE LocalTypes'
  BY <1>24, HandlesTypes DEF Raises
<1>25. ASSUME NEW k \in Commands, FindDirectory(k) PROVE LocalTypes'
  <2>1. CASE Ends(k)
    BY <2>1, EndsTypes
  <2>2. CASE ~Ends(k)
    BY <1>25, <2>2, Places, GoesTypes DEF FindDirectory
  <2>3. QED
    BY <2>1, <2>2
<1>26. ASSUME NEW k \in Commands, FindNoManifest(k) PROVE LocalTypes'
  <2>1. CASE Ends(k)
    BY <2>1, EndsTypes
  <2>2. CASE ~Ends(k)
    BY <1>26, <2>2, Places, GoesTypes DEF FindNoManifest
  <2>3. QED
    BY <2>1, <2>2
<1>27. ASSUME NEW k \in Commands, RemoveAgain(k) PROVE LocalTypes'
  BY <1>27, EndsTypes DEF RemoveAgain
<1>28. ASSUME NEW k \in Commands, GiveUp(k) PROVE LocalTypes'
  <2>1. CASE Ends(k)
    BY <2>1, EndsTypes
  <2>2. CASE ~Ends(k)
    BY <1>28, <2>2, Places, GoesTypes DEF GiveUp
  <2>3. QED
    BY <2>1, <2>2
<1>29. ASSUME NEW p \in Pids, RunStart(p) PROVE LocalTypes'
  BY <1>29, Places, GoesTypes DEF RunStart
<1>30. ASSUME NEW p \in Pids, RunStop(p) PROVE LocalTypes'
  BY <1>30, Places, GoesTypes DEF RunStop, Finalize
<1>31. ASSUME NEW p \in Pids, RecoverAtExit(p) PROVE LocalTypes'
  BY <1>31, Places, GoesTypes DEF RecoverAtExit, Finalize
<1>32. ASSUME NEW p \in Pids, Exit(p) PROVE LocalTypes'
  BY <1>32, Places, GoesTypes DEF Exit
<1>33. ASSUME NEW p \in Pids, Reuse(p) PROVE LocalTypes'
  BY <1>33, Places, GoesTypes DEF Reuse
<1> QED
  BY <1>1, <1>2, <1>3, <1>4, <1>5, <1>6, <1>7, <1>8, <1>9, <1>10,
     <1>11, <1>12, <1>13, <1>14, <1>15, <1>16, <1>17, <1>18, <1>19, <1>20,
     <1>21, <1>22, <1>23, <1>24, <1>25, <1>26, <1>27, <1>28, <1>29, <1>30,
     <1>31, <1>32, <1>33
  DEF Next

\* Every step leaves the locals of the commands as they must be.
LEMMA LocalsStep ==
  ASSUME CacheInv, [Next]_vars
  PROVE  LocalsFit'
<1>0. LocalsFit
      /\ pc \in [Commands -> PC]
      /\ pid \in [Commands -> Pids \union {None}]
      /\ version \in [Commands -> Versions \union {None}]
      /\ expected \in [Commands -> Births \union {0}]
      /\ after \in [Commands -> {"idle", "reserve", "handler"}]
      /\ birth \in [Pids -> Births]
  BY Values, BirthAssumption DEF CacheInv, TypeOK
<1> USE <1>0 DEF LocalsFit, Pruning, Over, At, Goto, Goes, Ends, Handles,
        Forgets, KeepsRun, PrunesOnly, KeepsPrune, Prune, SetControl, RemoveSession,
        SetStatus, target, session, locals
<1>1. CASE UNCHANGED vars
  BY <1>1 DEF vars
<1>2. ASSUME NEW k \in Commands, NEW p \in Pids, ReadManifest(k, p)
      PROVE  LocalsFit'
  BY <1>2 DEF ReadManifest
<1>3. ASSUME NEW k \in Commands, AllManifestsRead(k) PROVE LocalsFit'
  BY <1>3 DEF AllManifestsRead
<1>4. ASSUME NEW k \in Commands, NEW q \in Processes, ReadLease(k, q)
      PROVE  LocalsFit'
  BY <1>4 DEF ReadLease, Held
<1>5. ASSUME NEW k \in Commands, AllLeasesRead(k) PROVE LocalsFit'
  BY <1>5 DEF AllLeasesRead
<1>6. ASSUME NEW k \in Commands, ListArchives(k) PROVE LocalsFit'
  BY <1>6 DEF ListArchives
<1>7. ASSUME NEW k \in Commands, Unlink(k) PROVE LocalsFit'
  BY <1>7 DEF Unlink
<1>8. ASSUME NEW k \in Commands, UnlinkFails(k) PROVE LocalsFit'
  BY <1>8, SMTT(30) DEF UnlinkFails
<1>9. ASSUME NEW k \in Commands, Pruned(k) PROVE LocalsFit'
  BY <1>9 DEF Pruned
<1>10. ASSUME NEW k \in Commands, NEW p \in Pids, NEW v \in Versions,
             AttachBegin(k, p, v)
      PROVE  LocalsFit'
  BY <1>10 DEF AttachBegin
<1>11. ASSUME NEW k \in Commands, Reserve(k) PROVE LocalsFit'
  BY <1>11 DEF Reserve
<1>12. ASSUME NEW k \in Commands, Stage(k) PROVE LocalsFit'
  BY <1>12 DEF Stage
<1>13. ASSUME NEW k \in Commands, WriteManifest(k) PROVE LocalsFit'
  BY <1>13 DEF WriteManifest, Uncovered
<1>14. ASSUME NEW k \in Commands, StartExec(k) PROVE LocalsFit'
  BY <1>14 DEF StartExec
<1>15. ASSUME NEW k \in Commands, StartExecFails(k) PROVE LocalsFit'
  BY <1>15 DEF StartExecFails
<1>16. ASSUME NEW k \in Commands, ObserveStart(k) PROVE LocalsFit'
  BY <1>16 DEF ObserveStart
<1>17. ASSUME NEW k \in Commands, Acknowledge(k) PROVE LocalsFit'
  BY <1>17 DEF Acknowledge, Lease, OtherSession
<1>18. ASSUME NEW k \in Commands, NEW p \in Pids, StopBegin(k, p)
      PROVE  LocalsFit'
  BY <1>18, ManifestIsSession DEF StopBegin, Terminal
<1>19. ASSUME NEW k \in Commands, NEW p \in Pids, Discard(k, p)
      PROVE  LocalsFit'
  BY <1>19 DEF Discard, MayExecute
<1>20. ASSUME NEW k \in Commands, StopExec(k) PROVE LocalsFit'
  BY <1>20 DEF StopExec
<1>21. ASSUME NEW k \in Commands, ObserveStop(k) PROVE LocalsFit'
  BY <1>21 DEF ObserveStop, Terminal
<1>22. ASSUME NEW k \in Commands, Deliver(k) PROVE LocalsFit'
  BY <1>22 DEF Deliver
<1>23. ASSUME NEW k \in Commands, Remove(k) PROVE LocalsFit'
  BY <1>23 DEF Remove, Started, MayExecute
<1>24. ASSUME NEW k \in Commands, Raises(k) PROVE LocalsFit'
  BY <1>24 DEF Raises, Reserved
<1>25. ASSUME NEW k \in Commands, FindDirectory(k) PROVE LocalsFit'
  BY <1>25 DEF FindDirectory
<1>26. ASSUME NEW k \in Commands, FindNoManifest(k) PROVE LocalsFit'
  BY <1>26 DEF FindNoManifest
<1>27. ASSUME NEW k \in Commands, RemoveAgain(k) PROVE LocalsFit'
  BY <1>27 DEF RemoveAgain, Started, MayExecute
<1>28. ASSUME NEW k \in Commands, GiveUp(k) PROVE LocalsFit'
  BY <1>28 DEF GiveUp
<1>29. ASSUME NEW p \in Pids, RunStart(p) PROVE LocalsFit'
  BY <1>29 DEF RunStart
<1>30. ASSUME NEW p \in Pids, RunStop(p) PROVE LocalsFit'
  BY <1>30 DEF RunStop, Finalize
<1>31. ASSUME NEW p \in Pids, RecoverAtExit(p) PROVE LocalsFit'
  BY <1>31 DEF RecoverAtExit, Finalize
<1>32. ASSUME NEW p \in Pids, Exit(p) PROVE LocalsFit'
  BY <1>32 DEF Exit
<1>33. ASSUME NEW p \in Pids, Reuse(p) PROVE LocalsFit'
  BY <1>33 DEF Reuse
<1> QED
  BY <1>1, <1>2, <1>3, <1>4, <1>5, <1>6, <1>7, <1>8, <1>9, <1>10,
     <1>11, <1>12, <1>13, <1>14, <1>15, <1>16, <1>17, <1>18, <1>19, <1>20,
     <1>21, <1>22, <1>23, <1>24, <1>25, <1>26, <1>27, <1>28, <1>29, <1>30,
     <1>31, <1>32, <1>33
  DEF Next

\* Every step leaves only births that have been in manifests.
LEMMA ManifestBirthStep ==
  ASSUME CacheInv, [Next]_vars
  PROVE  ManifestsAreOld'
<1>0. LocalsFit /\ BirthsGrow /\ Births = 1 .. MaxBirths
      /\ pc \in [Commands -> PC]
      /\ pid \in [Commands -> Pids \union {None}]
      /\ expected \in [Commands -> Births \union {0}]
      /\ manifest \in [Pids -> Sessions \union {Fresh}]
      /\ birth \in [Pids -> Births]
  BY Values, BirthAssumption DEF CacheInv, TypeOK, Births
<1> USE <1>0 DEF LocalsFit, BirthsGrow, ManifestsAreOld, HasManifest, At,
        Goto, Goes, Ends, Handles, Forgets, KeepsRun, PrunesOnly, KeepsPrune, Prune,
        SetControl, RemoveSession, SetStatus, target, session, locals
<1>1. CASE UNCHANGED vars
  BY <1>1 DEF vars
<1>2. ASSUME NEW k \in Commands, NEW p \in Pids, ReadManifest(k, p)
      PROVE  ManifestsAreOld'
  BY <1>2 DEF ReadManifest
<1>3. ASSUME NEW k \in Commands, AllManifestsRead(k) PROVE ManifestsAreOld'
  BY <1>3 DEF AllManifestsRead
<1>4. ASSUME NEW k \in Commands, NEW q \in Processes, ReadLease(k, q)
      PROVE  ManifestsAreOld'
  BY <1>4 DEF ReadLease, Held
<1>5. ASSUME NEW k \in Commands, AllLeasesRead(k) PROVE ManifestsAreOld'
  BY <1>5 DEF AllLeasesRead
<1>6. ASSUME NEW k \in Commands, ListArchives(k) PROVE ManifestsAreOld'
  BY <1>6 DEF ListArchives
<1>7. ASSUME NEW k \in Commands, Unlink(k) PROVE ManifestsAreOld'
  BY <1>7 DEF Unlink
<1>8. ASSUME NEW k \in Commands, UnlinkFails(k) PROVE ManifestsAreOld'
  BY <1>8, SMTT(30) DEF UnlinkFails
<1>9. ASSUME NEW k \in Commands, Pruned(k) PROVE ManifestsAreOld'
  BY <1>9 DEF Pruned
<1>10. ASSUME NEW k \in Commands, NEW p \in Pids, NEW v \in Versions,
             AttachBegin(k, p, v)
      PROVE  ManifestsAreOld'
  BY <1>10 DEF AttachBegin
<1>11. ASSUME NEW k \in Commands, Reserve(k) PROVE ManifestsAreOld'
  BY <1>11 DEF Reserve
<1>12. ASSUME NEW k \in Commands, Stage(k) PROVE ManifestsAreOld'
  BY <1>12 DEF Stage
<1>13. ASSUME NEW k \in Commands, WriteManifest(k) PROVE ManifestsAreOld'
  BY <1>13 DEF WriteManifest, Uncovered
<1>14. ASSUME NEW k \in Commands, StartExec(k) PROVE ManifestsAreOld'
  BY <1>14 DEF StartExec
<1>15. ASSUME NEW k \in Commands, StartExecFails(k) PROVE ManifestsAreOld'
  BY <1>15 DEF StartExecFails
<1>16. ASSUME NEW k \in Commands, ObserveStart(k) PROVE ManifestsAreOld'
  BY <1>16 DEF ObserveStart
<1>17. ASSUME NEW k \in Commands, Acknowledge(k) PROVE ManifestsAreOld'
  BY <1>17 DEF Acknowledge, Lease, OtherSession
<1>18. ASSUME NEW k \in Commands, NEW p \in Pids, StopBegin(k, p)
      PROVE  ManifestsAreOld'
  BY <1>18 DEF StopBegin, Terminal
<1>19. ASSUME NEW k \in Commands, NEW p \in Pids, Discard(k, p)
      PROVE  ManifestsAreOld'
  BY <1>19 DEF Discard, MayExecute
<1>20. ASSUME NEW k \in Commands, StopExec(k) PROVE ManifestsAreOld'
  BY <1>20 DEF StopExec
<1>21. ASSUME NEW k \in Commands, ObserveStop(k) PROVE ManifestsAreOld'
  BY <1>21 DEF ObserveStop, Terminal
<1>22. ASSUME NEW k \in Commands, Deliver(k) PROVE ManifestsAreOld'
  BY <1>22 DEF Deliver
<1>23. ASSUME NEW k \in Commands, Remove(k) PROVE ManifestsAreOld'
  BY <1>23 DEF Remove, Started, MayExecute
<1>24. ASSUME NEW k \in Commands, Raises(k) PROVE ManifestsAreOld'
  BY <1>24 DEF Raises, Reserved
<1>25. ASSUME NEW k \in Commands, FindDirectory(k) PROVE ManifestsAreOld'
  BY <1>25 DEF FindDirectory
<1>26. ASSUME NEW k \in Commands, FindNoManifest(k) PROVE ManifestsAreOld'
  BY <1>26 DEF FindNoManifest
<1>27. ASSUME NEW k \in Commands, RemoveAgain(k) PROVE ManifestsAreOld'
  BY <1>27 DEF RemoveAgain, Started, MayExecute
<1>28. ASSUME NEW k \in Commands, GiveUp(k) PROVE ManifestsAreOld'
  BY <1>28 DEF GiveUp
<1>29. ASSUME NEW p \in Pids, RunStart(p) PROVE ManifestsAreOld'
  BY <1>29 DEF RunStart
<1>30. ASSUME NEW p \in Pids, RunStop(p) PROVE ManifestsAreOld'
  BY <1>30 DEF RunStop, Finalize
<1>31. ASSUME NEW p \in Pids, RecoverAtExit(p) PROVE ManifestsAreOld'
  BY <1>31 DEF RecoverAtExit, Finalize
<1>32. ASSUME NEW p \in Pids, Exit(p) PROVE ManifestsAreOld'
  BY <1>32 DEF Exit
<1>33. ASSUME NEW p \in Pids, Reuse(p) PROVE ManifestsAreOld'
  BY <1>33, ManifestIsSession DEF Reuse
<1> QED
  BY <1>1, <1>2, <1>3, <1>4, <1>5, <1>6, <1>7, <1>8, <1>9, <1>10,
     <1>11, <1>12, <1>13, <1>14, <1>15, <1>16, <1>17, <1>18, <1>19, <1>20,
     <1>21, <1>22, <1>23, <1>24, <1>25, <1>26, <1>27, <1>28, <1>29, <1>30,
     <1>31, <1>32, <1>33
  DEF Next

\* Every step leaves the commands with births that have been.
LEMMA CommandBirthStep ==
  ASSUME CacheInv, [Next]_vars
  PROVE  CommandsAreOld'
<1>0. LocalsFit /\ BirthsGrow /\ Births = 1 .. MaxBirths
      /\ pc \in [Commands -> PC]
      /\ pid \in [Commands -> Pids \union {None}]
      /\ expected \in [Commands -> Births \union {0}]
      /\ birth \in [Pids -> Births]
  BY Values, BirthAssumption DEF CacheInv, TypeOK, Births
<1> USE <1>0 DEF LocalsFit, BirthsGrow, CommandsAreOld, At, Goto, Goes, Ends,
        Handles, Forgets, KeepsRun, PrunesOnly, KeepsPrune, Prune, SetControl,
        RemoveSession, SetStatus, target, session, locals
<1>1. CASE UNCHANGED vars
  BY <1>1 DEF vars
<1>2. ASSUME NEW k \in Commands, NEW p \in Pids, ReadManifest(k, p)
      PROVE  CommandsAreOld'
  BY <1>2 DEF ReadManifest
<1>3. ASSUME NEW k \in Commands, AllManifestsRead(k) PROVE CommandsAreOld'
  BY <1>3 DEF AllManifestsRead
<1>4. ASSUME NEW k \in Commands, NEW q \in Processes, ReadLease(k, q)
      PROVE  CommandsAreOld'
  BY <1>4 DEF ReadLease, Held
<1>5. ASSUME NEW k \in Commands, AllLeasesRead(k) PROVE CommandsAreOld'
  BY <1>5 DEF AllLeasesRead
<1>6. ASSUME NEW k \in Commands, ListArchives(k) PROVE CommandsAreOld'
  BY <1>6 DEF ListArchives
<1>7. ASSUME NEW k \in Commands, Unlink(k) PROVE CommandsAreOld'
  BY <1>7 DEF Unlink
<1>8. ASSUME NEW k \in Commands, UnlinkFails(k) PROVE CommandsAreOld'
  BY <1>8, SMTT(30) DEF UnlinkFails
<1>9. ASSUME NEW k \in Commands, Pruned(k) PROVE CommandsAreOld'
  BY <1>9 DEF Pruned
<1>10. ASSUME NEW k \in Commands, NEW p \in Pids, NEW v \in Versions,
             AttachBegin(k, p, v)
      PROVE  CommandsAreOld'
  BY <1>10 DEF AttachBegin
<1>11. ASSUME NEW k \in Commands, Reserve(k) PROVE CommandsAreOld'
  <2>1. CASE Ends(k)
    BY <1>11, <2>1 DEF Reserve
  <2>2. CASE ~Ends(k)
    BY <1>11, <2>2 DEF Reserve
  <2>3. QED
    BY <2>1, <2>2
<1>12. ASSUME NEW k \in Commands, Stage(k) PROVE CommandsAreOld'
  BY <1>12 DEF Stage
<1>13. ASSUME NEW k \in Commands, WriteManifest(k) PROVE CommandsAreOld'
  BY <1>13 DEF WriteManifest, Uncovered
<1>14. ASSUME NEW k \in Commands, StartExec(k) PROVE CommandsAreOld'
  <2>1. CASE Ends(k)
    BY <1>14, <2>1 DEF StartExec
  <2>2. CASE ~Ends(k)
    BY <1>14, <2>2 DEF StartExec
  <2>3. QED
    BY <2>1, <2>2
<1>15. ASSUME NEW k \in Commands, StartExecFails(k) PROVE CommandsAreOld'
  BY <1>15 DEF StartExecFails
<1>16. ASSUME NEW k \in Commands, ObserveStart(k) PROVE CommandsAreOld'
  BY <1>16 DEF ObserveStart
<1>17. ASSUME NEW k \in Commands, Acknowledge(k) PROVE CommandsAreOld'
  <2>1. CASE Ends(k)
    BY <1>17, <2>1 DEF Acknowledge
  <2>2. CASE ~Ends(k)
    BY <1>17, <2>2 DEF Acknowledge
  <2>3. QED
    BY <2>1, <2>2
<1>18. ASSUME NEW k \in Commands, NEW p \in Pids, StopBegin(k, p)
      PROVE  CommandsAreOld'
  BY <1>18, ManifestIsSession DEF StopBegin, Terminal
<1>19. ASSUME NEW k \in Commands, NEW p \in Pids, Discard(k, p)
      PROVE  CommandsAreOld'
  BY <1>19 DEF Discard, MayExecute
<1>20. ASSUME NEW k \in Commands, StopExec(k) PROVE CommandsAreOld'
  BY <1>20 DEF StopExec
<1>21. ASSUME NEW k \in Commands, ObserveStop(k) PROVE CommandsAreOld'
  BY <1>21 DEF ObserveStop, Terminal
<1>22. ASSUME NEW k \in Commands, Deliver(k) PROVE CommandsAreOld'
  BY <1>22 DEF Deliver
<1>23. ASSUME NEW k \in Commands, Remove(k) PROVE CommandsAreOld'
  BY <1>23 DEF Remove, Started, MayExecute
<1>24. ASSUME NEW k \in Commands, Raises(k) PROVE CommandsAreOld'
  BY <1>24 DEF Raises, Reserved
<1>25. ASSUME NEW k \in Commands, FindDirectory(k) PROVE CommandsAreOld'
  BY <1>25 DEF FindDirectory
<1>26. ASSUME NEW k \in Commands, FindNoManifest(k) PROVE CommandsAreOld'
  BY <1>26 DEF FindNoManifest
<1>27. ASSUME NEW k \in Commands, RemoveAgain(k) PROVE CommandsAreOld'
  BY <1>27 DEF RemoveAgain, Started, MayExecute
<1>28. ASSUME NEW k \in Commands, GiveUp(k) PROVE CommandsAreOld'
  BY <1>28 DEF GiveUp
<1>29. ASSUME NEW p \in Pids, RunStart(p) PROVE CommandsAreOld'
  BY <1>29 DEF RunStart
<1>30. ASSUME NEW p \in Pids, RunStop(p) PROVE CommandsAreOld'
  BY <1>30 DEF RunStop, Finalize
<1>31. ASSUME NEW p \in Pids, RecoverAtExit(p) PROVE CommandsAreOld'
  BY <1>31 DEF RecoverAtExit, Finalize
<1>32. ASSUME NEW p \in Pids, Exit(p) PROVE CommandsAreOld'
  BY <1>32 DEF Exit
<1>33. ASSUME NEW p \in Pids, Reuse(p) PROVE CommandsAreOld'
  BY <1>33 DEF Reuse
<1> QED
  BY <1>1, <1>2, <1>3, <1>4, <1>5, <1>6, <1>7, <1>8, <1>9, <1>10,
     <1>11, <1>12, <1>13, <1>14, <1>15, <1>16, <1>17, <1>18, <1>19, <1>20,
     <1>21, <1>22, <1>23, <1>24, <1>25, <1>26, <1>27, <1>28, <1>29, <1>30,
     <1>31, <1>32, <1>33
  DEF Next

\* Every step leaves dead processes quiet.
LEMMA QuietStep ==
  ASSUME CacheInv, [Next]_vars
  PROVE  DeadIsQuiet'
<1>0. LocalsFit /\ DeadIsQuiet
      /\ pc \in [Commands -> PC]
      /\ pid \in [Commands -> Pids \union {None}]
      /\ expected \in [Commands -> Births \union {0}]
      /\ birth \in [Pids -> Births]
      /\ alive \in [Pids -> BOOLEAN]
      /\ slot \in [Pids -> {"none", "start", "stop"}]
      /\ served \in [Pids -> BOOLEAN]
      /\ loaded \in [Pids -> Versions \union {None}]
  BY Values, BirthAssumption DEF CacheInv, TypeOK
<1> USE <1>0 DEF LocalsFit, DeadIsQuiet, At, Goto, Goes, Ends, Handles,
        Forgets, KeepsRun, PrunesOnly, KeepsPrune, Prune, SetControl, RemoveSession,
        SetStatus, target, session, locals
<1>1. CASE UNCHANGED vars
  BY <1>1 DEF vars
<1>2. ASSUME NEW k \in Commands, NEW p \in Pids, ReadManifest(k, p)
      PROVE  DeadIsQuiet'
  BY <1>2 DEF ReadManifest
<1>3. ASSUME NEW k \in Commands, AllManifestsRead(k) PROVE DeadIsQuiet'
  BY <1>3 DEF AllManifestsRead
<1>4. ASSUME NEW k \in Commands, NEW q \in Processes, ReadLease(k, q)
      PROVE  DeadIsQuiet'
  BY <1>4 DEF ReadLease, Held
<1>5. ASSUME NEW k \in Commands, AllLeasesRead(k) PROVE DeadIsQuiet'
  BY <1>5 DEF AllLeasesRead
<1>6. ASSUME NEW k \in Commands, ListArchives(k) PROVE DeadIsQuiet'
  BY <1>6 DEF ListArchives
<1>7. ASSUME NEW k \in Commands, Unlink(k) PROVE DeadIsQuiet'
  BY <1>7 DEF Unlink
<1>8. ASSUME NEW k \in Commands, UnlinkFails(k) PROVE DeadIsQuiet'
  BY <1>8, SMTT(30) DEF UnlinkFails
<1>9. ASSUME NEW k \in Commands, Pruned(k) PROVE DeadIsQuiet'
  BY <1>9 DEF Pruned
<1>10. ASSUME NEW k \in Commands, NEW p \in Pids, NEW v \in Versions,
             AttachBegin(k, p, v)
      PROVE  DeadIsQuiet'
  BY <1>10 DEF AttachBegin
<1>11. ASSUME NEW k \in Commands, Reserve(k) PROVE DeadIsQuiet'
  BY <1>11 DEF Reserve
<1>12. ASSUME NEW k \in Commands, Stage(k) PROVE DeadIsQuiet'
  BY <1>12 DEF Stage
<1>13. ASSUME NEW k \in Commands, WriteManifest(k) PROVE DeadIsQuiet'
  BY <1>13 DEF WriteManifest, Uncovered
<1>14. ASSUME NEW k \in Commands, StartExec(k) PROVE DeadIsQuiet'
  BY <1>14 DEF StartExec
<1>15. ASSUME NEW k \in Commands, StartExecFails(k) PROVE DeadIsQuiet'
  BY <1>15 DEF StartExecFails
<1>16. ASSUME NEW k \in Commands, ObserveStart(k) PROVE DeadIsQuiet'
  BY <1>16 DEF ObserveStart
<1>17. ASSUME NEW k \in Commands, Acknowledge(k) PROVE DeadIsQuiet'
  BY <1>17 DEF Acknowledge, Lease, OtherSession
<1>18. ASSUME NEW k \in Commands, NEW p \in Pids, StopBegin(k, p)
      PROVE  DeadIsQuiet'
  BY <1>18 DEF StopBegin, Terminal
<1>19. ASSUME NEW k \in Commands, NEW p \in Pids, Discard(k, p)
      PROVE  DeadIsQuiet'
  BY <1>19 DEF Discard, MayExecute
<1>20. ASSUME NEW k \in Commands, StopExec(k) PROVE DeadIsQuiet'
  BY <1>20 DEF StopExec, Runs
<1>21. ASSUME NEW k \in Commands, ObserveStop(k) PROVE DeadIsQuiet'
  BY <1>21 DEF ObserveStop, Terminal
<1>22. ASSUME NEW k \in Commands, Deliver(k) PROVE DeadIsQuiet'
  BY <1>22 DEF Deliver
<1>23. ASSUME NEW k \in Commands, Remove(k) PROVE DeadIsQuiet'
  BY <1>23 DEF Remove, Started, MayExecute
<1>24. ASSUME NEW k \in Commands, Raises(k) PROVE DeadIsQuiet'
  BY <1>24 DEF Raises, Reserved
<1>25. ASSUME NEW k \in Commands, FindDirectory(k) PROVE DeadIsQuiet'
  BY <1>25 DEF FindDirectory
<1>26. ASSUME NEW k \in Commands, FindNoManifest(k) PROVE DeadIsQuiet'
  BY <1>26 DEF FindNoManifest
<1>27. ASSUME NEW k \in Commands, RemoveAgain(k) PROVE DeadIsQuiet'
  BY <1>27 DEF RemoveAgain, Started, MayExecute
<1>28. ASSUME NEW k \in Commands, GiveUp(k) PROVE DeadIsQuiet'
  BY <1>28 DEF GiveUp
<1>29. ASSUME NEW p \in Pids, RunStart(p) PROVE DeadIsQuiet'
  BY <1>29, ManifestIsSession DEF RunStart
<1>30. ASSUME NEW p \in Pids, RunStop(p) PROVE DeadIsQuiet'
  BY <1>30 DEF RunStop, Finalize
<1>31. ASSUME NEW p \in Pids, RecoverAtExit(p) PROVE DeadIsQuiet'
  BY <1>31 DEF RecoverAtExit, Finalize
<1>32. ASSUME NEW p \in Pids, Exit(p) PROVE DeadIsQuiet'
  BY <1>32 DEF Exit
<1>33. ASSUME NEW p \in Pids, Reuse(p) PROVE DeadIsQuiet'
  BY <1>33 DEF Reuse
<1> QED
  BY <1>1, <1>2, <1>3, <1>4, <1>5, <1>6, <1>7, <1>8, <1>9, <1>10,
     <1>11, <1>12, <1>13, <1>14, <1>15, <1>16, <1>17, <1>18, <1>19, <1>20,
     <1>21, <1>22, <1>23, <1>24, <1>25, <1>26, <1>27, <1>28, <1>29, <1>30,
     <1>31, <1>32, <1>33
  DEF Next

(***************************************************************************)
(* What one step can do.                                                   *)
(***************************************************************************)
\* A race is not forgotten.
LEMMA RaceLasts ==
  ASSUME CacheInv, [Next]_vars, raced
  PROVE  raced'
<1> USE DEF target, session, locals
<1>1. CASE UNCHANGED vars
  BY <1>1 DEF vars
<1>2. ASSUME NEW k \in Commands, NEW p \in Pids, ReadManifest(k, p)
      PROVE  raced'
  BY <1>2 DEF ReadManifest
<1>3. ASSUME NEW k \in Commands, AllManifestsRead(k) PROVE raced'
  BY <1>3 DEF AllManifestsRead
<1>4. ASSUME NEW k \in Commands, NEW q \in Processes, ReadLease(k, q)
      PROVE  raced'
  BY <1>4 DEF ReadLease, Held
<1>5. ASSUME NEW k \in Commands, AllLeasesRead(k) PROVE raced'
  BY <1>5 DEF AllLeasesRead
<1>6. ASSUME NEW k \in Commands, ListArchives(k) PROVE raced'
  BY <1>6 DEF ListArchives
<1>7. ASSUME NEW k \in Commands, Unlink(k) PROVE raced'
  BY <1>7 DEF Unlink
<1>8. ASSUME NEW k \in Commands, UnlinkFails(k) PROVE raced'
  BY <1>8, SMTT(30) DEF UnlinkFails
<1>9. ASSUME NEW k \in Commands, Pruned(k) PROVE raced'
  BY <1>9 DEF Pruned
<1>10. ASSUME NEW k \in Commands, NEW p \in Pids, NEW v \in Versions,
             AttachBegin(k, p, v)
      PROVE  raced'
  BY <1>10 DEF AttachBegin
<1>11. ASSUME NEW k \in Commands, Reserve(k) PROVE raced'
  BY <1>11 DEF Reserve
<1>12. ASSUME NEW k \in Commands, Stage(k) PROVE raced'
  BY <1>12 DEF Stage
<1>13. ASSUME NEW k \in Commands, WriteManifest(k) PROVE raced'
  BY <1>13 DEF WriteManifest
<1>14. ASSUME NEW k \in Commands, StartExec(k) PROVE raced'
  BY <1>14 DEF StartExec
<1>15. ASSUME NEW k \in Commands, StartExecFails(k) PROVE raced'
  BY <1>15 DEF StartExecFails
<1>16. ASSUME NEW k \in Commands, ObserveStart(k) PROVE raced'
  BY <1>16 DEF ObserveStart
<1>17. ASSUME NEW k \in Commands, Acknowledge(k) PROVE raced'
  BY <1>17 DEF Acknowledge
<1>18. ASSUME NEW k \in Commands, NEW p \in Pids, StopBegin(k, p)
      PROVE  raced'
  BY <1>18 DEF StopBegin
<1>19. ASSUME NEW k \in Commands, NEW p \in Pids, Discard(k, p) PROVE raced'
  BY <1>19 DEF Discard
<1>20. ASSUME NEW k \in Commands, StopExec(k) PROVE raced'
  BY <1>20 DEF StopExec
<1>21. ASSUME NEW k \in Commands, ObserveStop(k) PROVE raced'
  BY <1>21 DEF ObserveStop
<1>22. ASSUME NEW k \in Commands, Deliver(k) PROVE raced'
  BY <1>22 DEF Deliver
<1>23. ASSUME NEW k \in Commands, Remove(k) PROVE raced'
  BY <1>23 DEF Remove
<1>24. ASSUME NEW k \in Commands, Raises(k) PROVE raced'
  BY <1>24 DEF Raises, Reserved
<1>25. ASSUME NEW k \in Commands, FindDirectory(k) PROVE raced'
  BY <1>25 DEF FindDirectory
<1>26. ASSUME NEW k \in Commands, FindNoManifest(k) PROVE raced'
  BY <1>26 DEF FindNoManifest
<1>27. ASSUME NEW k \in Commands, RemoveAgain(k) PROVE raced'
  BY <1>27 DEF RemoveAgain
<1>28. ASSUME NEW k \in Commands, GiveUp(k) PROVE raced'
  BY <1>28 DEF GiveUp
<1>29. ASSUME NEW p \in Pids, RunStart(p) PROVE raced'
  BY <1>29 DEF RunStart
<1>30. ASSUME NEW p \in Pids, RunStop(p) PROVE raced'
  BY <1>30 DEF RunStop, Finalize
<1>31. ASSUME NEW p \in Pids, RecoverAtExit(p) PROVE raced'
  BY <1>31 DEF RecoverAtExit, Finalize
<1>32. ASSUME NEW p \in Pids, Exit(p) PROVE raced'
  BY <1>32 DEF Exit
<1>33. ASSUME NEW p \in Pids, Reuse(p) PROVE raced'
  BY <1>33 DEF Reuse
<1> QED
  BY <1>1, <1>2, <1>3, <1>4, <1>5, <1>6, <1>7, <1>8, <1>9, <1>10,
     <1>11, <1>12, <1>13, <1>14, <1>15, <1>16, <1>17, <1>18, <1>19, <1>20,
     <1>21, <1>22, <1>23, <1>24, <1>25, <1>26, <1>27, <1>28, <1>29, <1>30,
     <1>31, <1>32, <1>33
  DEF Next

\* A manifest was there before, or a command has just written it.
LEMMA ManifestSince ==
  ASSUME CacheInv, [Next]_vars, NEW p \in Pids
  PROVE  \/ manifest'[p] = manifest[p]
         \/ manifest'[p] = Fresh
         \/ \E k \in Commands : WriteManifest(k) /\ pid[k] = p
<1> DEFINE Goal ==
           \/ manifest'[p] = manifest[p]
           \/ manifest'[p] = Fresh
           \/ \E k \in Commands : WriteManifest(k) /\ pid[k] = p
<1>0. LocalsFit
      /\ manifest \in [Pids -> Sessions \union {Fresh}]
      /\ pc \in [Commands -> PC]
      /\ pid \in [Commands -> Pids \union {None}]
  BY DEF CacheInv, TypeOK
<1> USE <1>0 DEF LocalsFit, Pruning, Over, At, Goto, Goes, Ends, Handles,
        Forgets, KeepsRun, PrunesOnly, KeepsPrune, Prune, SetControl, RemoveSession,
        SetStatus, target, session, locals
<1>1. CASE UNCHANGED vars
  BY <1>1 DEF vars
<1>2. ASSUME NEW j \in Commands, NEW q \in Pids, ReadManifest(j, q) PROVE Goal
  BY <1>2 DEF ReadManifest
<1>3. ASSUME NEW j \in Commands, AllManifestsRead(j) PROVE Goal
  BY <1>3 DEF AllManifestsRead
<1>4. ASSUME NEW j \in Commands, NEW q \in Processes, ReadLease(j, q)
      PROVE  Goal
  BY <1>4 DEF ReadLease, Held
<1>5. ASSUME NEW j \in Commands, AllLeasesRead(j) PROVE Goal
  BY <1>5 DEF AllLeasesRead
<1>6. ASSUME NEW j \in Commands, ListArchives(j) PROVE Goal
  BY <1>6 DEF ListArchives
<1>7. ASSUME NEW j \in Commands, Unlink(j) PROVE Goal
  BY <1>7 DEF Unlink
<1>8. ASSUME NEW j \in Commands, UnlinkFails(j) PROVE Goal
  BY <1>8, SMTT(30) DEF UnlinkFails
<1>9. ASSUME NEW j \in Commands, Pruned(j) PROVE Goal
  BY <1>9 DEF Pruned
<1>10. ASSUME NEW j \in Commands, NEW q \in Pids, NEW v \in Versions,
             AttachBegin(j, q, v)
      PROVE  Goal
  BY <1>10 DEF AttachBegin
<1>11. ASSUME NEW j \in Commands, Reserve(j) PROVE Goal
  BY <1>11 DEF Reserve
<1>12. ASSUME NEW j \in Commands, Stage(j) PROVE Goal
  BY <1>12 DEF Stage
<1>13. ASSUME NEW j \in Commands, WriteManifest(j) PROVE Goal
  BY <1>13 DEF WriteManifest, Uncovered
<1>14. ASSUME NEW j \in Commands, StartExec(j) PROVE Goal
  BY <1>14 DEF StartExec
<1>15. ASSUME NEW j \in Commands, StartExecFails(j) PROVE Goal
  BY <1>15 DEF StartExecFails
<1>16. ASSUME NEW j \in Commands, ObserveStart(j) PROVE Goal
  BY <1>16 DEF ObserveStart
<1>17. ASSUME NEW j \in Commands, Acknowledge(j) PROVE Goal
  BY <1>17 DEF Acknowledge, Lease, OtherSession
<1>18. ASSUME NEW j \in Commands, NEW q \in Pids, StopBegin(j, q) PROVE Goal
  BY <1>18 DEF StopBegin, Terminal
<1>19. ASSUME NEW j \in Commands, NEW q \in Pids, Discard(j, q) PROVE Goal
  BY <1>19 DEF Discard, MayExecute
<1>20. ASSUME NEW j \in Commands, StopExec(j) PROVE Goal
  BY <1>20 DEF StopExec
<1>21. ASSUME NEW j \in Commands, ObserveStop(j) PROVE Goal
  BY <1>21 DEF ObserveStop, Terminal
<1>22. ASSUME NEW j \in Commands, Deliver(j) PROVE Goal
  BY <1>22 DEF Deliver
<1>23. ASSUME NEW j \in Commands, Remove(j) PROVE Goal
  BY <1>23 DEF Remove, Started, MayExecute
<1>24. ASSUME NEW j \in Commands, Raises(j) PROVE Goal
  BY <1>24 DEF Raises, Reserved
<1>25. ASSUME NEW j \in Commands, FindDirectory(j) PROVE Goal
  BY <1>25 DEF FindDirectory
<1>26. ASSUME NEW j \in Commands, FindNoManifest(j) PROVE Goal
  BY <1>26 DEF FindNoManifest
<1>27. ASSUME NEW j \in Commands, RemoveAgain(j) PROVE Goal
  BY <1>27 DEF RemoveAgain, Started, MayExecute
<1>28. ASSUME NEW j \in Commands, GiveUp(j) PROVE Goal
  BY <1>28 DEF GiveUp
<1>29. ASSUME NEW q \in Pids, RunStart(q) PROVE Goal
  BY <1>29 DEF RunStart
<1>30. ASSUME NEW q \in Pids, RunStop(q) PROVE Goal
  BY <1>30 DEF RunStop, Finalize
<1>31. ASSUME NEW q \in Pids, RecoverAtExit(q) PROVE Goal
  BY <1>31 DEF RecoverAtExit, Finalize
<1>32. ASSUME NEW q \in Pids, Exit(q) PROVE Goal
  BY <1>32 DEF Exit
<1>33. ASSUME NEW q \in Pids, Reuse(q) PROVE Goal
  BY <1>33 DEF Reuse
<1> QED
  BY <1>1, <1>2, <1>3, <1>4, <1>5, <1>6, <1>7, <1>8, <1>9, <1>10,
     <1>11, <1>12, <1>13, <1>14, <1>15, <1>16, <1>17, <1>18, <1>19, <1>20,
     <1>21, <1>22, <1>23, <1>24, <1>25, <1>26, <1>27, <1>28, <1>29, <1>30,
     <1>31, <1>32, <1>33
  DEF Next

\* A prune goes by what it has read.
LEMMA PrunerSince ==
  ASSUME CacheInv, [Next]_vars, NEW k \in Commands
  PROVE  /\ pc'[k] = "manifests" =>
              \/ unread'[k] = Pids
              \/ /\ pc[k] = "manifests"
                 /\ \/ unread'[k] = unread[k] /\ referenced'[k] = referenced[k]
                    \/ \E q \in Pids : ReadManifest(k, q)
         /\ pc'[k] = "leases" =>
              \/ AllManifestsRead(k)
              \/ /\ pc[k] = "leases"
                 /\ \/ unread'[k] = unread[k] /\ referenced'[k] = referenced[k]
                    \/ \E q \in Processes : ReadLease(k, q)
         /\ pc'[k] = "archives" =>
              AllLeasesRead(k) \/ (pc[k] = "archives" /\ referenced'[k] = referenced[k])
         /\ pc'[k] = "unlink" =>
              ListArchives(k) \/ (pc[k] = "unlink" /\ doomed'[k] \subseteq doomed[k])
<1> DEFINE Goal ==
           /\ pc'[k] = "manifests" =>
                \/ unread'[k] = Pids
                \/ /\ pc[k] = "manifests"
                   /\ \/ unread'[k] = unread[k] /\ referenced'[k] = referenced[k]
                      \/ \E q \in Pids : ReadManifest(k, q)
           /\ pc'[k] = "leases" =>
                \/ AllManifestsRead(k)
                \/ /\ pc[k] = "leases"
                   /\ \/ unread'[k] = unread[k] /\ referenced'[k] = referenced[k]
                      \/ \E q \in Processes : ReadLease(k, q)
           /\ pc'[k] = "archives" =>
                AllLeasesRead(k) \/ (pc[k] = "archives" /\ referenced'[k] = referenced[k])
           /\ pc'[k] = "unlink" =>
                ListArchives(k) \/ (pc[k] = "unlink" /\ doomed'[k] \subseteq doomed[k])
<1>0. LocalsFit
      /\ pc \in [Commands -> PC]
      /\ after \in [Commands -> {"idle", "reserve", "handler"}]
      /\ unread \in [Commands -> SUBSET (Pids \union Processes)]
      /\ referenced \in [Commands -> SUBSET Versions]
      /\ doomed \in [Commands -> SUBSET Versions]
  BY DEF CacheInv, TypeOK
<1> USE <1>0 DEF LocalsFit, Pruning, Over, At, Goto, Goes, Ends, Handles,
        Forgets, KeepsRun, PrunesOnly, KeepsPrune, Prune, SetControl, RemoveSession,
        SetStatus, target, session, locals
<1>1. CASE UNCHANGED vars
  BY <1>1 DEF vars
<1>2. ASSUME NEW j \in Commands, NEW q \in Pids, ReadManifest(j, q) PROVE Goal
  BY <1>2 DEF ReadManifest
<1>3. ASSUME NEW j \in Commands, AllManifestsRead(j) PROVE Goal
  BY <1>3 DEF AllManifestsRead
<1>4. ASSUME NEW j \in Commands, NEW q \in Processes, ReadLease(j, q)
      PROVE  Goal
  BY <1>4 DEF ReadLease, Held
<1>5. ASSUME NEW j \in Commands, AllLeasesRead(j) PROVE Goal
  BY <1>5 DEF AllLeasesRead
<1>6. ASSUME NEW j \in Commands, ListArchives(j) PROVE Goal
  BY <1>6 DEF ListArchives
<1>7. ASSUME NEW j \in Commands, Unlink(j) PROVE Goal
  BY <1>7 DEF Unlink
<1>8. ASSUME NEW j \in Commands, UnlinkFails(j) PROVE Goal
  BY <1>8, SMTT(30) DEF UnlinkFails
<1>9. ASSUME NEW j \in Commands, Pruned(j) PROVE Goal
  BY <1>9 DEF Pruned
<1>10. ASSUME NEW j \in Commands, NEW q \in Pids, NEW v \in Versions,
             AttachBegin(j, q, v)
      PROVE  Goal
  BY <1>10 DEF AttachBegin
<1>11. ASSUME NEW j \in Commands, Reserve(j) PROVE Goal
  BY <1>11 DEF Reserve
<1>12. ASSUME NEW j \in Commands, Stage(j) PROVE Goal
  BY <1>12 DEF Stage
<1>13. ASSUME NEW j \in Commands, WriteManifest(j) PROVE Goal
  BY <1>13 DEF WriteManifest, Uncovered
<1>14. ASSUME NEW j \in Commands, StartExec(j) PROVE Goal
  BY <1>14 DEF StartExec
<1>15. ASSUME NEW j \in Commands, StartExecFails(j) PROVE Goal
  BY <1>15 DEF StartExecFails
<1>16. ASSUME NEW j \in Commands, ObserveStart(j) PROVE Goal
  BY <1>16 DEF ObserveStart
<1>17. ASSUME NEW j \in Commands, Acknowledge(j) PROVE Goal
  BY <1>17 DEF Acknowledge, Lease, OtherSession
<1>18. ASSUME NEW j \in Commands, NEW q \in Pids, StopBegin(j, q) PROVE Goal
  BY <1>18 DEF StopBegin, Terminal
<1>19. ASSUME NEW j \in Commands, NEW q \in Pids, Discard(j, q) PROVE Goal
  BY <1>19 DEF Discard, MayExecute
<1>20. ASSUME NEW j \in Commands, StopExec(j) PROVE Goal
  BY <1>20 DEF StopExec
<1>21. ASSUME NEW j \in Commands, ObserveStop(j) PROVE Goal
  BY <1>21 DEF ObserveStop, Terminal
<1>22. ASSUME NEW j \in Commands, Deliver(j) PROVE Goal
  BY <1>22 DEF Deliver
<1>23. ASSUME NEW j \in Commands, Remove(j) PROVE Goal
  BY <1>23 DEF Remove, Started, MayExecute
<1>24. ASSUME NEW j \in Commands, Raises(j) PROVE Goal
  BY <1>24 DEF Raises, Reserved
<1>25. ASSUME NEW j \in Commands, FindDirectory(j) PROVE Goal
  BY <1>25 DEF FindDirectory
<1>26. ASSUME NEW j \in Commands, FindNoManifest(j) PROVE Goal
  BY <1>26 DEF FindNoManifest
<1>27. ASSUME NEW j \in Commands, RemoveAgain(j) PROVE Goal
  BY <1>27 DEF RemoveAgain, Started, MayExecute
<1>28. ASSUME NEW j \in Commands, GiveUp(j) PROVE Goal
  BY <1>28 DEF GiveUp
<1>29. ASSUME NEW q \in Pids, RunStart(q) PROVE Goal
  BY <1>29 DEF RunStart
<1>30. ASSUME NEW q \in Pids, RunStop(q) PROVE Goal
  BY <1>30 DEF RunStop, Finalize
<1>31. ASSUME NEW q \in Pids, RecoverAtExit(q) PROVE Goal
  BY <1>31 DEF RecoverAtExit, Finalize
<1>32. ASSUME NEW q \in Pids, Exit(q) PROVE Goal
  BY <1>32 DEF Exit
<1>33. ASSUME NEW q \in Pids, Reuse(q) PROVE Goal
  BY <1>33 DEF Reuse
<1> QED
  BY <1>1, <1>2, <1>3, <1>4, <1>5, <1>6, <1>7, <1>8, <1>9, <1>10,
     <1>11, <1>12, <1>13, <1>14, <1>15, <1>16, <1>17, <1>18, <1>19, <1>20,
     <1>21, <1>22, <1>23, <1>24, <1>25, <1>26, <1>27, <1>28, <1>29, <1>30,
     <1>31, <1>32, <1>33
  DEF Next

\* A monitored process was monitored before, or has just been started.
LEMMA ServedSince ==
  ASSUME CacheInv, [Next]_vars, NEW p \in Pids
  PROVE  alive'[p] /\ served'[p] =>
           \/ alive[p] /\ served[p] /\ loaded'[p] = loaded[p]
           \/ /\ RunStart(p) /\ HasManifest(p) /\ alive[p]
              /\ manifest[p] = [version |-> loaded'[p], birth |-> birth[p]]
              /\ manifest[p].version \in archives /\ status'[p].state = "active"
<1> DEFINE Goal ==
           alive'[p] /\ served'[p] =>
             \/ alive[p] /\ served[p] /\ loaded'[p] = loaded[p]
             \/ /\ RunStart(p) /\ HasManifest(p) /\ alive[p]
                /\ manifest[p] = [version |-> loaded'[p], birth |-> birth[p]]
                /\ manifest[p].version \in archives /\ status'[p].state = "active"
<1>0. LocalsFit /\ DeadIsQuiet
      /\ birth \in [Pids -> Births]
      /\ alive \in [Pids -> BOOLEAN]
      /\ slot \in [Pids -> {"none", "start", "stop"}]
      /\ served \in [Pids -> BOOLEAN]
      /\ loaded \in [Pids -> Versions \union {None}]
      /\ status \in [Pids ->
           [state : {"none", "active", "complete", "failed"}, birth : Births \union {0}]]
  BY DEF CacheInv, TypeOK
<1> USE <1>0 DEF LocalsFit, DeadIsQuiet, At, Goto, Goes, Ends, Handles,
        Forgets, KeepsRun, PrunesOnly, KeepsPrune, Prune, SetControl, RemoveSession,
        SetStatus, target, session, locals
<1>1. CASE UNCHANGED vars
  BY <1>1 DEF vars
<1>2. ASSUME NEW j \in Commands, NEW q \in Pids, ReadManifest(j, q) PROVE Goal
  BY <1>2 DEF ReadManifest
<1>3. ASSUME NEW j \in Commands, AllManifestsRead(j) PROVE Goal
  BY <1>3 DEF AllManifestsRead
<1>4. ASSUME NEW j \in Commands, NEW q \in Processes, ReadLease(j, q)
      PROVE  Goal
  BY <1>4 DEF ReadLease, Held
<1>5. ASSUME NEW j \in Commands, AllLeasesRead(j) PROVE Goal
  BY <1>5 DEF AllLeasesRead
<1>6. ASSUME NEW j \in Commands, ListArchives(j) PROVE Goal
  BY <1>6 DEF ListArchives
<1>7. ASSUME NEW j \in Commands, Unlink(j) PROVE Goal
  BY <1>7 DEF Unlink
<1>8. ASSUME NEW j \in Commands, UnlinkFails(j) PROVE Goal
  BY <1>8, SMTT(30) DEF UnlinkFails
<1>9. ASSUME NEW j \in Commands, Pruned(j) PROVE Goal
  BY <1>9 DEF Pruned
<1>10. ASSUME NEW j \in Commands, NEW q \in Pids, NEW v \in Versions,
             AttachBegin(j, q, v)
      PROVE  Goal
  BY <1>10 DEF AttachBegin
<1>11. ASSUME NEW j \in Commands, Reserve(j) PROVE Goal
  BY <1>11 DEF Reserve
<1>12. ASSUME NEW j \in Commands, Stage(j) PROVE Goal
  BY <1>12 DEF Stage
<1>13. ASSUME NEW j \in Commands, WriteManifest(j) PROVE Goal
  BY <1>13 DEF WriteManifest, Uncovered
<1>14. ASSUME NEW j \in Commands, StartExec(j) PROVE Goal
  BY <1>14 DEF StartExec
<1>15. ASSUME NEW j \in Commands, StartExecFails(j) PROVE Goal
  BY <1>15 DEF StartExecFails
<1>16. ASSUME NEW j \in Commands, ObserveStart(j) PROVE Goal
  BY <1>16 DEF ObserveStart
<1>17. ASSUME NEW j \in Commands, Acknowledge(j) PROVE Goal
  BY <1>17 DEF Acknowledge, Lease, OtherSession
<1>18. ASSUME NEW j \in Commands, NEW q \in Pids, StopBegin(j, q) PROVE Goal
  BY <1>18 DEF StopBegin, Terminal
<1>19. ASSUME NEW j \in Commands, NEW q \in Pids, Discard(j, q) PROVE Goal
  BY <1>19 DEF Discard, MayExecute
<1>20. ASSUME NEW j \in Commands, StopExec(j) PROVE Goal
  BY <1>20 DEF StopExec
<1>21. ASSUME NEW j \in Commands, ObserveStop(j) PROVE Goal
  BY <1>21 DEF ObserveStop, Terminal
<1>22. ASSUME NEW j \in Commands, Deliver(j) PROVE Goal
  BY <1>22 DEF Deliver
<1>23. ASSUME NEW j \in Commands, Remove(j) PROVE Goal
  BY <1>23 DEF Remove, Started, MayExecute
<1>24. ASSUME NEW j \in Commands, Raises(j) PROVE Goal
  BY <1>24 DEF Raises, Reserved
<1>25. ASSUME NEW j \in Commands, FindDirectory(j) PROVE Goal
  BY <1>25 DEF FindDirectory
<1>26. ASSUME NEW j \in Commands, FindNoManifest(j) PROVE Goal
  BY <1>26 DEF FindNoManifest
<1>27. ASSUME NEW j \in Commands, RemoveAgain(j) PROVE Goal
  BY <1>27 DEF RemoveAgain, Started, MayExecute
<1>28. ASSUME NEW j \in Commands, GiveUp(j) PROVE Goal
  BY <1>28 DEF GiveUp
<1>29. ASSUME NEW q \in Pids, RunStart(q) PROVE Goal
  <2>1. CASE ~(alive'[p] /\ served'[p])
    BY <2>1
  <2>2. CASE q = p /\ served'[p] /\ ~(alive[p] /\ served[p])
    <3>1. /\ HasManifest(p) /\ alive[p] /\ manifest[p].version \in archives
          /\ loaded'[p] = manifest[p].version /\ manifest[p].birth = birth[p]
          /\ status' = [status EXCEPT ![p] = [state |-> "active", birth |-> birth[p]]]
      BY <1>29, <2>2 DEF RunStart
    <3>2. manifest[p] = [version |-> loaded'[p], birth |-> birth[p]]
      <4>1. manifest[p] = [version |-> manifest[p].version, birth |-> manifest[p].birth]
        BY <3>1, ManifestIsRecord
      <4>2. QED
        BY <3>1, <4>1
    <3>3. status'[p].state = "active"
      BY <3>1
    <3>4. QED
      BY <1>29, <2>2, <3>1, <3>2, <3>3
  <2>3. CASE q # p \/ (alive[p] /\ served[p])
    <3>1. alive'[p] /\ served'[p] => alive[p] /\ served[p]
      BY <1>29, <2>3 DEF RunStart
    <3>2. alive[p] /\ served[p] => loaded'[p] = loaded[p]
      BY <1>29, <2>3 DEF RunStart
    <3>3. QED
      BY <3>1, <3>2
  <2>4. QED
    BY <2>1, <2>2, <2>3
<1>30. ASSUME NEW q \in Pids, RunStop(q) PROVE Goal
  BY <1>30 DEF RunStop, Finalize
<1>31. ASSUME NEW q \in Pids, RecoverAtExit(q) PROVE Goal
  BY <1>31 DEF RecoverAtExit, Finalize
<1>32. ASSUME NEW q \in Pids, Exit(q) PROVE Goal
  BY <1>32 DEF Exit
<1>33. ASSUME NEW q \in Pids, Reuse(q) PROVE Goal
  BY <1>33 DEF Reuse
<1> QED
  BY <1>1, <1>2, <1>3, <1>4, <1>5, <1>6, <1>7, <1>8, <1>9, <1>10,
     <1>11, <1>12, <1>13, <1>14, <1>15, <1>16, <1>17, <1>18, <1>19, <1>20,
     <1>21, <1>22, <1>23, <1>24, <1>25, <1>26, <1>27, <1>28, <1>29, <1>30,
     <1>31, <1>32, <1>33
  DEF Next

\* A lease lasts as long as its process.
LEMMA LeaseLasts ==
  ASSUME CacheInv, [Next]_vars, ~raced', NEW p \in Pids
  PROVE  /\ alive[p] /\ alive'[p] => birth'[p] = birth[p]
         /\ alive[p] /\ Leased(p) /\ alive'[p] => Leased(p)'
<1> DEFINE Goal ==
           /\ alive[p] /\ alive'[p] => birth'[p] = birth[p]
           /\ alive[p] /\ Leased(p) /\ alive'[p] => Leased(p)'
<1>0. LocalsFit /\ ~raced'
      /\ birth \in [Pids -> Births]
      /\ alive \in [Pids -> BOOLEAN]
      /\ loaded \in [Pids -> Versions \union {None}]
      /\ leases \in [Processes -> Versions \union {None}]
      /\ pid \in [Commands -> Pids \union {None}]
      /\ expected \in [Commands -> Births \union {0}]
  BY DEF CacheInv, TypeOK
<1> USE <1>0 DEF LocalsFit, Leased, Pruning, Over, At, Goto, Goes, Ends,
        Handles, Forgets, KeepsRun, PrunesOnly, KeepsPrune, Prune, SetControl,
        RemoveSession, SetStatus, target, session, locals
<1>1. CASE UNCHANGED vars
  BY <1>1 DEF vars
<1>2. ASSUME NEW j \in Commands, NEW q \in Pids, ReadManifest(j, q) PROVE Goal
  BY <1>2 DEF ReadManifest
<1>3. ASSUME NEW j \in Commands, AllManifestsRead(j) PROVE Goal
  BY <1>3 DEF AllManifestsRead
<1>4. ASSUME NEW j \in Commands, NEW q \in Processes, ReadLease(j, q) PROVE Goal
  <2>1. <<p, birth[p]>> \in Processes
    BY DEF Processes
  <2>2. Runs(<<p, birth[p]>>) <=> alive[p]
    BY DEF Runs
  <2>3. alive[p] => leases'[<<p, birth[p]>>] = leases[<<p, birth[p]>>]
    BY <1>4, <2>1, <2>2 DEF ReadLease
  <2>4. UNCHANGED <<birth, alive, loaded>>
    BY <1>4 DEF ReadLease
  <2>5. QED
    BY <2>3, <2>4
<1>5. ASSUME NEW j \in Commands, AllLeasesRead(j) PROVE Goal
  BY <1>5 DEF AllLeasesRead
<1>6. ASSUME NEW j \in Commands, ListArchives(j) PROVE Goal
  BY <1>6 DEF ListArchives
<1>7. ASSUME NEW j \in Commands, Unlink(j) PROVE Goal
  BY <1>7 DEF Unlink
<1>8. ASSUME NEW j \in Commands, UnlinkFails(j) PROVE Goal
  BY <1>8, SMTT(30) DEF UnlinkFails
<1>9. ASSUME NEW j \in Commands, Pruned(j) PROVE Goal
  BY <1>9 DEF Pruned
<1>10. ASSUME NEW j \in Commands, NEW q \in Pids, NEW v \in Versions,
             AttachBegin(j, q, v)
      PROVE  Goal
  BY <1>10 DEF AttachBegin
<1>11. ASSUME NEW j \in Commands, Reserve(j) PROVE Goal
  BY <1>11 DEF Reserve
<1>12. ASSUME NEW j \in Commands, Stage(j) PROVE Goal
  BY <1>12 DEF Stage
<1>13. ASSUME NEW j \in Commands, WriteManifest(j) PROVE Goal
  BY <1>13 DEF WriteManifest, Uncovered
<1>14. ASSUME NEW j \in Commands, StartExec(j) PROVE Goal
  BY <1>14 DEF StartExec
<1>15. ASSUME NEW j \in Commands, StartExecFails(j) PROVE Goal
  BY <1>15 DEF StartExecFails
<1>16. ASSUME NEW j \in Commands, ObserveStart(j) PROVE Goal
  BY <1>16 DEF ObserveStart
<1>17. ASSUME NEW j \in Commands, Acknowledge(j) PROVE Goal
  <2>1. <<p, birth[p]>> \in Processes /\ <<pid[j], expected[j]>> \in Processes
    BY <1>17 DEF Acknowledge, Processes
  <2>2. UNCHANGED <<birth, alive, loaded>>
    BY <1>17 DEF Acknowledge
  <2>3. leases' = [leases EXCEPT ![<<pid[j], expected[j]>>] = manifest[pid[j]].version]
    BY <1>17 DEF Acknowledge, Lease
  <2>4. CASE <<p, birth[p]>> # <<pid[j], expected[j]>>
    BY <2>1, <2>2, <2>3, <2>4
  <2>5. CASE <<p, birth[p]>> = <<pid[j], expected[j]>>
    <3>1. p = pid[j] /\ birth[p] = expected[j]
      BY <2>5
    <3>2. alive[p] => Runs(<<p, birth[p]>>)
      BY DEF Runs
    <3>3. alive[p] => manifest[p].version = loaded[p]
      BY <1>17, <3>1, <3>2 DEF Acknowledge, OtherSession
    <3>4. QED
      BY <2>1, <2>2, <2>3, <3>1, <3>3
  <2>6. QED
    BY <2>4, <2>5
<1>18. ASSUME NEW j \in Commands, NEW q \in Pids, StopBegin(j, q) PROVE Goal
  BY <1>18 DEF StopBegin, Terminal
<1>19. ASSUME NEW j \in Commands, NEW q \in Pids, Discard(j, q) PROVE Goal
  BY <1>19 DEF Discard, MayExecute
<1>20. ASSUME NEW j \in Commands, StopExec(j) PROVE Goal
  BY <1>20 DEF StopExec
<1>21. ASSUME NEW j \in Commands, ObserveStop(j) PROVE Goal
  BY <1>21 DEF ObserveStop, Terminal
<1>22. ASSUME NEW j \in Commands, Deliver(j) PROVE Goal
  BY <1>22 DEF Deliver
<1>23. ASSUME NEW j \in Commands, Remove(j) PROVE Goal
  BY <1>23 DEF Remove, Started, MayExecute
<1>24. ASSUME NEW j \in Commands, Raises(j) PROVE Goal
  BY <1>24 DEF Raises, Reserved
<1>25. ASSUME NEW j \in Commands, FindDirectory(j) PROVE Goal
  BY <1>25 DEF FindDirectory
<1>26. ASSUME NEW j \in Commands, FindNoManifest(j) PROVE Goal
  BY <1>26 DEF FindNoManifest
<1>27. ASSUME NEW j \in Commands, RemoveAgain(j) PROVE Goal
  BY <1>27 DEF RemoveAgain, Started, MayExecute
<1>28. ASSUME NEW j \in Commands, GiveUp(j) PROVE Goal
  BY <1>28 DEF GiveUp
<1>29. ASSUME NEW q \in Pids, RunStart(q) PROVE Goal
  BY <1>29 DEF RunStart
<1>30. ASSUME NEW q \in Pids, RunStop(q) PROVE Goal
  BY <1>30 DEF RunStop, Finalize
<1>31. ASSUME NEW q \in Pids, RecoverAtExit(q) PROVE Goal
  BY <1>31 DEF RecoverAtExit, Finalize
<1>32. ASSUME NEW q \in Pids, Exit(q) PROVE Goal
  BY <1>32 DEF Exit
<1>33. ASSUME NEW q \in Pids, Reuse(q) PROVE Goal
  BY <1>33 DEF Reuse
<1> QED
  BY <1>1, <1>2, <1>3, <1>4, <1>5, <1>6, <1>7, <1>8, <1>9, <1>10,
     <1>11, <1>12, <1>13, <1>14, <1>15, <1>16, <1>17, <1>18, <1>19, <1>20,
     <1>21, <1>22, <1>23, <1>24, <1>25, <1>26, <1>27, <1>28, <1>29, <1>30,
     <1>31, <1>32, <1>33
  DEF Next

\* Every step leaves a session's files with its manifest.
LEMMA FilesStep ==
  ASSUME CacheInv, [Next]_vars, ~raced'
  PROVE  FilesOfOneSession'
<1>0. LocalsFit /\ DeadIsQuiet /\ FilesOfOneSession /\ StartIsAlone
      /\ birth \in [Pids -> Births]
      /\ alive \in [Pids -> BOOLEAN]
      /\ slot \in [Pids -> {"none", "start", "stop"}]
      /\ manifest \in [Pids -> Sessions \union {Fresh}]
      /\ status \in [Pids ->
           [state : {"none", "active", "complete", "failed"}, birth : Births \union {0}]]
      /\ control \in [Pids -> {"none", "start_pending", "active", "terminal"}]
      /\ directory \in [Pids -> BOOLEAN]
      /\ pc \in [Commands -> PC]
      /\ pid \in [Commands -> Pids \union {None}]
      /\ version \in [Commands -> Versions \union {None}]
      /\ expected \in [Commands -> Births \union {0}]
  BY RaceLasts, Values, BirthAssumption DEF CacheInv, TypeOK
<1> USE <1>0 DEF LocalsFit, DeadIsQuiet, FilesOfOneSession, StartIsAlone,
        Pruning, Over, HasManifest, At, Goto, Goes, Ends, Handles, Forgets,
        KeepsRun, PrunesOnly, KeepsPrune, Prune, SetControl, RemoveSession, SetStatus,
        target, session, locals
<1>1. CASE UNCHANGED vars
  BY <1>1 DEF vars
<1>2. ASSUME NEW k \in Commands, NEW p \in Pids, ReadManifest(k, p)
      PROVE  FilesOfOneSession'
  BY <1>2, NewManifest DEF ReadManifest
<1>3. ASSUME NEW k \in Commands, AllManifestsRead(k) PROVE FilesOfOneSession'
  BY <1>3, NewManifest DEF AllManifestsRead
<1>4. ASSUME NEW k \in Commands, NEW q \in Processes, ReadLease(k, q)
      PROVE  FilesOfOneSession'
  BY <1>4, NewManifest DEF ReadLease, Held
<1>5. ASSUME NEW k \in Commands, AllLeasesRead(k) PROVE FilesOfOneSession'
  BY <1>5, NewManifest DEF AllLeasesRead
<1>6. ASSUME NEW k \in Commands, ListArchives(k) PROVE FilesOfOneSession'
  BY <1>6, NewManifest DEF ListArchives
<1>7. ASSUME NEW k \in Commands, Unlink(k) PROVE FilesOfOneSession'
  BY <1>7, NewManifest DEF Unlink
<1>8. ASSUME NEW k \in Commands, UnlinkFails(k) PROVE FilesOfOneSession'
  BY <1>8, NewManifest DEF UnlinkFails
<1>9. ASSUME NEW k \in Commands, Pruned(k) PROVE FilesOfOneSession'
  BY <1>9, NewManifest DEF Pruned
<1>10. ASSUME NEW k \in Commands, NEW p \in Pids, NEW v \in Versions,
             AttachBegin(k, p, v)
      PROVE  FilesOfOneSession'
  BY <1>10, NewManifest DEF AttachBegin
<1>11. ASSUME NEW k \in Commands, Reserve(k) PROVE FilesOfOneSession'
  BY <1>11, NewManifest DEF Reserve
<1>12. ASSUME NEW k \in Commands, Stage(k) PROVE FilesOfOneSession'
  BY <1>12, NewManifest DEF Stage
<1>13. ASSUME NEW k \in Commands, WriteManifest(k) PROVE FilesOfOneSession'
  BY <1>13, NewManifest DEF WriteManifest, Uncovered
<1>14. ASSUME NEW k \in Commands, StartExec(k) PROVE FilesOfOneSession'
  <2>1. /\ pid[k] \in Pids /\ version[k] \in Versions /\ expected[k] \in Births
        /\ manifest[pid[k]] = [version |-> version[k], birth |-> expected[k]]
        /\ status[pid[k]].state = "none" /\ birth[pid[k]] = expected[k]
        /\ UNCHANGED <<manifest, status, birth>>
        /\ control' = [control EXCEPT ![pid[k]] = "start_pending"]
        /\ slot' = [slot EXCEPT ![pid[k]] = "start"]
    BY <1>14 DEF StartExec
  <2>2. manifest[pid[k]] # Fresh /\ manifest[pid[k]].birth = birth[pid[k]]
    BY <2>1, NewManifest
  <2>3. ASSUME NEW q \in Pids, q # pid[k]
        PROVE  slot'[q] = slot[q] /\ control'[q] = control[q]
    BY <2>1, <2>3
  <2>4. slot'[pid[k]] = "start" /\ control'[pid[k]] = "start_pending"
    BY <2>1
  <2>5. QED
    BY <2>1, <2>2, <2>3, <2>4
<1>15. ASSUME NEW k \in Commands, StartExecFails(k) PROVE FilesOfOneSession'
  <2>1. /\ pid[k] \in Pids /\ slot[pid[k]] # "start"
        /\ manifest' = [manifest EXCEPT ![pid[k]] = Fresh]
        /\ status' = [status EXCEPT ![pid[k]] = NoStatus]
        /\ control' = [control EXCEPT ![pid[k]] = "none"]
        /\ UNCHANGED <<slot, birth>>
    BY <1>15 DEF StartExecFails
  <2>2. ASSUME NEW q \in Pids, q # pid[k]
        PROVE  /\ manifest'[q] = manifest[q] /\ status'[q] = status[q]
               /\ control'[q] = control[q]
    BY <2>1, <2>2
  <2>3. status'[pid[k]].state = "none" /\ control'[pid[k]] = "none"
    BY <2>1, NewManifest
  <2>4. QED
    BY <2>1, <2>2, <2>3
<1>16. ASSUME NEW k \in Commands, ObserveStart(k) PROVE FilesOfOneSession'
  BY <1>16, NewManifest DEF ObserveStart
<1>17. ASSUME NEW k \in Commands, Acknowledge(k) PROVE FilesOfOneSession'
  BY <1>17, NewManifest DEF Acknowledge, Lease, OtherSession
<1>18. ASSUME NEW k \in Commands, NEW p \in Pids, StopBegin(k, p)
      PROVE  FilesOfOneSession'
  BY <1>18, NewManifest DEF StopBegin, Terminal
<1>19. ASSUME NEW k \in Commands, NEW p \in Pids, Discard(k, p)
      PROVE  FilesOfOneSession'
  BY <1>19, NewManifest DEF Discard, MayExecute
<1>20. ASSUME NEW k \in Commands, StopExec(k) PROVE FilesOfOneSession'
  BY <1>20, NewManifest DEF StopExec
<1>21. ASSUME NEW k \in Commands, ObserveStop(k) PROVE FilesOfOneSession'
  BY <1>21, NewManifest DEF ObserveStop, Terminal
<1>22. ASSUME NEW k \in Commands, Deliver(k) PROVE FilesOfOneSession'
  BY <1>22, NewManifest DEF Deliver
<1>23. ASSUME NEW k \in Commands, Remove(k) PROVE FilesOfOneSession'
  BY <1>23, NewManifest DEF Remove, Started, MayExecute, Runs
<1>24. ASSUME NEW k \in Commands, Raises(k) PROVE FilesOfOneSession'
  BY <1>24, NewManifest DEF Raises, Reserved
<1>25. ASSUME NEW k \in Commands, FindDirectory(k) PROVE FilesOfOneSession'
  BY <1>25, NewManifest, SMTT(30) DEF FindDirectory
<1>26. ASSUME NEW k \in Commands, FindNoManifest(k) PROVE FilesOfOneSession'
  BY <1>26, NewManifest, SMTT(30) DEF FindNoManifest
<1>27. ASSUME NEW k \in Commands, RemoveAgain(k) PROVE FilesOfOneSession'
  BY <1>27, NewManifest DEF RemoveAgain, Started, MayExecute, Runs
<1>28. ASSUME NEW k \in Commands, GiveUp(k) PROVE FilesOfOneSession'
  BY <1>28, NewManifest DEF GiveUp
<1>29. ASSUME NEW p \in Pids, RunStart(p) PROVE FilesOfOneSession'
  BY <1>29, NewManifest DEF RunStart
<1>30. ASSUME NEW p \in Pids, RunStop(p) PROVE FilesOfOneSession'
  BY <1>30, NewManifest DEF RunStop, Finalize
<1>31. ASSUME NEW p \in Pids, RecoverAtExit(p) PROVE FilesOfOneSession'
  BY <1>31, NewManifest DEF RecoverAtExit, Finalize
<1>32. ASSUME NEW p \in Pids, Exit(p) PROVE FilesOfOneSession'
  BY <1>32, NewManifest DEF Exit
<1>33. ASSUME NEW p \in Pids, Reuse(p) PROVE FilesOfOneSession'
  BY <1>33, NewManifest DEF Reuse
<1> QED
  BY <1>1, <1>2, <1>3, <1>4, <1>5, <1>6, <1>7, <1>8, <1>9, <1>10,
     <1>11, <1>12, <1>13, <1>14, <1>15, <1>16, <1>17, <1>18, <1>19, <1>20,
     <1>21, <1>22, <1>23, <1>24, <1>25, <1>26, <1>27, <1>28, <1>29, <1>30,
     <1>31, <1>32, <1>33
  DEF Next

\* Every step leaves the session that is about to start to one command.
LEMMA AloneStep ==
  ASSUME CacheInv, [Next]_vars, ~raced'
  PROVE  StartIsAlone'
<1>0. LocalsFit /\ FilesOfOneSession /\ StartIsAlone
      /\ slot \in [Pids -> {"none", "start", "stop"}]
      /\ manifest \in [Pids -> Sessions \union {Fresh}]
      /\ status \in [Pids ->
           [state : {"none", "active", "complete", "failed"}, birth : Births \union {0}]]
      /\ directory \in [Pids -> BOOLEAN]
      /\ pc \in [Commands -> PC]
      /\ pid \in [Commands -> Pids \union {None}]
      /\ version \in [Commands -> Versions \union {None}]
      /\ expected \in [Commands -> Births \union {0}]
      /\ after \in [Commands -> {"idle", "reserve", "handler"}]
  BY RaceLasts, Values, BirthAssumption DEF CacheInv, TypeOK
<1> USE <1>0 DEF LocalsFit, FilesOfOneSession, StartIsAlone, Pruning, Over,
        HasManifest, At, Goto, Goes, Ends, Handles, Forgets, KeepsRun, PrunesOnly,
        KeepsPrune, Prune, SetControl, RemoveSession, SetStatus, target,
        session, locals
<1>1. CASE UNCHANGED vars
  BY <1>1 DEF vars
<1>2. ASSUME NEW k \in Commands, NEW p \in Pids, ReadManifest(k, p)
      PROVE  StartIsAlone'
  BY <1>2, NewManifest DEF ReadManifest
<1>3. ASSUME NEW k \in Commands, AllManifestsRead(k) PROVE StartIsAlone'
  BY <1>3, NewManifest DEF AllManifestsRead
<1>4. ASSUME NEW k \in Commands, NEW q \in Processes, ReadLease(k, q)
      PROVE  StartIsAlone'
  BY <1>4, NewManifest DEF ReadLease, Held
<1>5. ASSUME NEW k \in Commands, AllLeasesRead(k) PROVE StartIsAlone'
  BY <1>5, NewManifest DEF AllLeasesRead
<1>6. ASSUME NEW k \in Commands, ListArchives(k) PROVE StartIsAlone'
  BY <1>6, NewManifest DEF ListArchives
<1>7. ASSUME NEW k \in Commands, Unlink(k) PROVE StartIsAlone'
  BY <1>7, NewManifest DEF Unlink
<1>8. ASSUME NEW k \in Commands, UnlinkFails(k) PROVE StartIsAlone'
  <2>1. CASE Ends(k)
    BY <1>8, <2>1, NewManifest DEF UnlinkFails
  <2>2. CASE ~Ends(k)
    BY <1>8, <2>2, NewManifest DEF UnlinkFails
  <2>3. QED
    BY <2>1, <2>2
<1>9. ASSUME NEW k \in Commands, Pruned(k) PROVE StartIsAlone'
  <2>1. CASE Ends(k)
    BY <1>9, <2>1, NewManifest DEF Pruned
  <2>2. CASE ~Ends(k)
    BY <1>9, <2>2, NewManifest DEF Pruned
  <2>3. QED
    BY <2>1, <2>2
<1>10. ASSUME NEW k \in Commands, NEW p \in Pids, NEW v \in Versions,
             AttachBegin(k, p, v)
      PROVE  StartIsAlone'
  BY <1>10, NewManifest DEF AttachBegin
<1>11. ASSUME NEW k \in Commands, Reserve(k) PROVE StartIsAlone'
  <2>1. CASE Ends(k)
    BY <1>11, <2>1, NewManifest DEF Reserve
  <2>2. CASE ~Ends(k)
    BY <1>11, <2>2, NewManifest DEF Reserve
  <2>3. QED
    BY <2>1, <2>2
<1>12. ASSUME NEW k \in Commands, Stage(k) PROVE StartIsAlone'
  BY <1>12, NewManifest DEF Stage
<1>13. ASSUME NEW k \in Commands, WriteManifest(k) PROVE StartIsAlone'
  <2>1. /\ pid[k] \in Pids /\ version[k] \in Versions /\ expected[k] \in Births
        /\ manifest' = [manifest EXCEPT ![pid[k]] =
                          [version |-> version[k], birth |-> expected[k]]]
        /\ manifest[pid[k]] = Fresh /\ pc' = [pc EXCEPT ![k] = "exec"]
        /\ UNCHANGED <<slot, status, pid, version, expected>>
    BY <1>13 DEF WriteManifest
  <2>2. status[pid[k]].state = "none" /\ slot[pid[k]] # "start"
    BY <2>1
  <2>3. ASSUME NEW j \in Commands, j # k, pc'[j] = "exec"
        PROVE  pc[j] = "exec" /\ pid[j] \in Pids /\ pid[j] # pid[k]
    <3>1. /\ pc[j] = "exec" /\ pid[j] \in Pids
          /\ version[j] \in Versions /\ expected[j] \in Births
          /\ manifest[pid[j]] = [version |-> version[j], birth |-> expected[j]]
      BY <2>1, <2>3
    <3>2. manifest[pid[j]] # Fresh
      BY <3>1, NewManifest
    <3>3. QED
      BY <2>1, <3>1, <3>2
  <2>4. ASSUME NEW j \in Commands, pc'[j] = "exec"
        PROVE  manifest'[pid[j]] = [version |-> version[j], birth |-> expected[j]]
    BY <2>1, <2>3, <2>4
  <2>5. ASSUME NEW j \in Commands, pc'[j] = "exec"
        PROVE  status[pid[j]].state = "none" /\ slot[pid[j]] # "start"
    BY <2>2, <2>3, <2>5
  <2>6. ASSUME NEW i \in Commands, NEW j \in Commands, pc'[i] = "exec",
               pc'[j] = "exec", pid[i] = pid[j]
        PROVE  i = j
    <3>1. CASE i = k \/ j = k
      BY <2>3, <2>6, <3>1
    <3>2. CASE i # k /\ j # k
      <4>1. pc[i] = "exec" /\ pc[j] = "exec"
        BY <2>3, <2>6, <3>2
      <4>2. QED
        BY ZenonT(30), <2>6, <4>1
    <3>3. QED
      BY <3>1, <3>2
  <2>7. QED
    BY <2>1, <2>4, <2>5, <2>6
<1>14. ASSUME NEW k \in Commands, StartExec(k) PROVE StartIsAlone'
  BY <1>14, NewManifest DEF StartExec
<1>15. ASSUME NEW k \in Commands, StartExecFails(k) PROVE StartIsAlone'
  BY <1>15, NewManifest DEF StartExecFails
<1>16. ASSUME NEW k \in Commands, ObserveStart(k) PROVE StartIsAlone'
  BY <1>16, NewManifest DEF ObserveStart
<1>17. ASSUME NEW k \in Commands, Acknowledge(k) PROVE StartIsAlone'
  BY <1>17, NewManifest DEF Acknowledge, Lease, OtherSession
<1>18. ASSUME NEW k \in Commands, NEW p \in Pids, StopBegin(k, p)
      PROVE  StartIsAlone'
  BY <1>18, NewManifest DEF StopBegin, Terminal
<1>19. ASSUME NEW k \in Commands, NEW p \in Pids, Discard(k, p)
      PROVE  StartIsAlone'
  BY <1>19, NewManifest DEF Discard, MayExecute
<1>20. ASSUME NEW k \in Commands, StopExec(k) PROVE StartIsAlone'
  BY <1>20, NewManifest DEF StopExec
<1>21. ASSUME NEW k \in Commands, ObserveStop(k) PROVE StartIsAlone'
  BY <1>21, NewManifest DEF ObserveStop, Terminal
<1>22. ASSUME NEW k \in Commands, Deliver(k) PROVE StartIsAlone'
  BY <1>22, NewManifest DEF Deliver
<1>23. ASSUME NEW k \in Commands, Remove(k) PROVE StartIsAlone'
  BY <1>23, NewManifest DEF Remove, Started, MayExecute
<1>24. ASSUME NEW k \in Commands, Raises(k) PROVE StartIsAlone'
  BY <1>24, NewManifest DEF Raises, Reserved
<1>25. ASSUME NEW k \in Commands, FindDirectory(k) PROVE StartIsAlone'
  BY <1>25, NewManifest, SMTT(30) DEF FindDirectory
<1>26. ASSUME NEW k \in Commands, FindNoManifest(k) PROVE StartIsAlone'
  BY <1>26, NewManifest, SMTT(30) DEF FindNoManifest
<1>27. ASSUME NEW k \in Commands, RemoveAgain(k) PROVE StartIsAlone'
  BY <1>27, NewManifest DEF RemoveAgain, Started, MayExecute
<1>28. ASSUME NEW k \in Commands, GiveUp(k) PROVE StartIsAlone'
  BY <1>28, NewManifest DEF GiveUp
<1>29. ASSUME NEW p \in Pids, RunStart(p) PROVE StartIsAlone'
  BY <1>29, NewManifest DEF RunStart
<1>30. ASSUME NEW p \in Pids, RunStop(p) PROVE StartIsAlone'
  BY <1>30, NewManifest DEF RunStop, Finalize
<1>31. ASSUME NEW p \in Pids, RecoverAtExit(p) PROVE StartIsAlone'
  BY <1>31, NewManifest DEF RecoverAtExit, Finalize
<1>32. ASSUME NEW p \in Pids, Exit(p) PROVE StartIsAlone'
  BY <1>32, NewManifest DEF Exit
<1>33. ASSUME NEW p \in Pids, Reuse(p) PROVE StartIsAlone'
  BY <1>33, NewManifest DEF Reuse
<1> QED
  BY <1>1, <1>2, <1>3, <1>4, <1>5, <1>6, <1>7, <1>8, <1>9, <1>10,
     <1>11, <1>12, <1>13, <1>14, <1>15, <1>16, <1>17, <1>18, <1>19, <1>20,
     <1>21, <1>22, <1>23, <1>24, <1>25, <1>26, <1>27, <1>28, <1>29, <1>30,
     <1>31, <1>32, <1>33
  DEF Next

\* A process that is starting goes on to be, or gets its lease.
LEMMA StartingLasts ==
  ASSUME CacheInv, [Next]_vars, ~raced', NEW p \in Pids
  PROVE  Starting(p) /\ alive[p] /\ alive'[p] => Starting(p)' \/ Leased(p)'
<1> DEFINE Goal ==
           Starting(p) /\ alive[p] /\ alive'[p] => Starting(p)' \/ Leased(p)'
<1>0. LocalsFit /\ DeadIsQuiet /\ FilesOfOneSession /\ StartIsAlone /\ ServedIsCovered
      /\ birth \in [Pids -> Births]
      /\ alive \in [Pids -> BOOLEAN]
      /\ slot \in [Pids -> {"none", "start", "stop"}]
      /\ loaded \in [Pids -> Versions \union {None}]
      /\ served \in [Pids -> BOOLEAN]
      /\ manifest \in [Pids -> Sessions \union {Fresh}]
      /\ status \in [Pids ->
           [state : {"none", "active", "complete", "failed"}, birth : Births \union {0}]]
      /\ control \in [Pids -> {"none", "start_pending", "active", "terminal"}]
      /\ directory \in [Pids -> BOOLEAN]
      /\ leases \in [Processes -> Versions \union {None}]
      /\ pc \in [Commands -> PC]
      /\ pid \in [Commands -> Pids \union {None}]
      /\ version \in [Commands -> Versions \union {None}]
      /\ expected \in [Commands -> Births \union {0}]
  BY RaceLasts DEF CacheInv, TypeOK
<1> USE <1>0 DEF LocalsFit, DeadIsQuiet, FilesOfOneSession, StartIsAlone,
        ServedIsCovered, Pruning, Over, HasManifest, Starting, At, Goto, Goes,
        Ends, Handles, Forgets, KeepsRun, PrunesOnly, KeepsPrune, Prune, SetControl,
        RemoveSession, SetStatus, target, session, locals
<1>1. CASE UNCHANGED vars
  BY <1>1 DEF vars
<1>2. ASSUME NEW j \in Commands, NEW q \in Pids, ReadManifest(j, q) PROVE Goal
  BY <1>2, NewManifest, LeaseLasts DEF ReadManifest
<1>3. ASSUME NEW j \in Commands, AllManifestsRead(j) PROVE Goal
  BY <1>3, NewManifest, LeaseLasts DEF AllManifestsRead
<1>4. ASSUME NEW j \in Commands, NEW q \in Processes, ReadLease(j, q)
      PROVE  Goal
  BY <1>4, NewManifest, LeaseLasts DEF ReadLease, Held
<1>5. ASSUME NEW j \in Commands, AllLeasesRead(j) PROVE Goal
  BY <1>5, NewManifest, LeaseLasts DEF AllLeasesRead
<1>6. ASSUME NEW j \in Commands, ListArchives(j) PROVE Goal
  BY <1>6, NewManifest, LeaseLasts DEF ListArchives
<1>7. ASSUME NEW j \in Commands, Unlink(j) PROVE Goal
  BY <1>7, NewManifest, LeaseLasts DEF Unlink
<1>8. ASSUME NEW j \in Commands, UnlinkFails(j) PROVE Goal
  BY <1>8, NewManifest, LeaseLasts DEF UnlinkFails
<1>9. ASSUME NEW j \in Commands, Pruned(j) PROVE Goal
  BY <1>9, NewManifest, LeaseLasts DEF Pruned
<1>10. ASSUME NEW j \in Commands, NEW q \in Pids, NEW v \in Versions,
             AttachBegin(j, q, v)
      PROVE  Goal
  BY <1>10, NewManifest, LeaseLasts DEF AttachBegin
<1>11. ASSUME NEW j \in Commands, Reserve(j) PROVE Goal
  BY <1>11, NewManifest, LeaseLasts DEF Reserve
<1>12. ASSUME NEW j \in Commands, Stage(j) PROVE Goal
  BY <1>12, NewManifest, LeaseLasts DEF Stage
<1>13. ASSUME NEW j \in Commands, WriteManifest(j) PROVE Goal
  BY <1>13, NewManifest, LeaseLasts DEF WriteManifest, Uncovered
<1>14. ASSUME NEW j \in Commands, StartExec(j) PROVE Goal
  <2>1. /\ pid[j] \in Pids /\ status[pid[j]].state = "none"
        /\ UNCHANGED <<birth, loaded, manifest, status>>
        /\ control' = [control EXCEPT ![pid[j]] = "start_pending"]
        /\ slot' = [slot EXCEPT ![pid[j]] = "start"]
    BY <1>14 DEF StartExec
  <2>2. CASE pid[j] # p
    BY <2>1, <2>2
  <2>3. CASE pid[j] = p
    BY <2>1, <2>3
  <2>4. QED
    BY <2>2, <2>3
<1>15. ASSUME NEW j \in Commands, StartExecFails(j) PROVE Goal
  <2>1. /\ pid[j] \in Pids /\ status[pid[j]].state = "none"
        /\ UNCHANGED <<birth, loaded, slot>>
        /\ manifest' = [manifest EXCEPT ![pid[j]] = Fresh]
        /\ status' = [status EXCEPT ![pid[j]] = NoStatus]
        /\ control' = [control EXCEPT ![pid[j]] = "none"]
    BY <1>15 DEF StartExecFails
  <2>2. CASE pid[j] # p
    BY <2>1, <2>2
  <2>3. CASE pid[j] = p
    BY <2>1, <2>3
  <2>4. QED
    BY <2>2, <2>3
<1>16. ASSUME NEW j \in Commands, ObserveStart(j) PROVE Goal
  BY <1>16, NewManifest, LeaseLasts DEF ObserveStart
<1>17. ASSUME NEW j \in Commands, Acknowledge(j) PROVE Goal
  <2>1. CASE pid[j] # p
    BY <1>17, <2>1 DEF Acknowledge
  <2>2. CASE pid[j] = p /\ Starting(p) /\ alive[p]
    <3>1. /\ manifest[p] = [version |-> loaded[p], birth |-> birth[p]]
          /\ manifest[p] # Fresh /\ ~OtherSession(j)
          /\ leases' = [leases EXCEPT ![<<p, expected[j]>>] = manifest[p].version]
          /\ UNCHANGED <<birth, loaded>>
      BY <1>17, <2>2, NewManifest DEF Acknowledge, Lease
    <3>2. expected[j] = birth[p] /\ manifest[p].version = loaded[p]
      BY <2>2, <3>1 DEF OtherSession
    <3>3. <<p, birth[p]>> \in Processes
      BY DEF Processes
    <3>4. leases'[<<p, birth[p]>>] = loaded[p]
      BY <3>1, <3>2, <3>3
    <3>5. loaded[p] # None
      BY <3>1, <3>2, ManifestIsSession
    <3>6. QED
      BY <3>1, <3>4, <3>5 DEF Leased
  <2>3. QED
    BY <2>1, <2>2
<1>18. ASSUME NEW j \in Commands, NEW q \in Pids, StopBegin(j, q) PROVE Goal
  BY <1>18, NewManifest, LeaseLasts DEF StopBegin, Terminal
<1>19. ASSUME NEW j \in Commands, NEW q \in Pids, Discard(j, q) PROVE Goal
  BY <1>19, NewManifest, LeaseLasts DEF Discard, MayExecute
<1>20. ASSUME NEW j \in Commands, StopExec(j) PROVE Goal
  BY <1>20, NewManifest, LeaseLasts DEF StopExec
<1>21. ASSUME NEW j \in Commands, ObserveStop(j) PROVE Goal
  BY <1>21, NewManifest, LeaseLasts DEF ObserveStop, Terminal
<1>22. ASSUME NEW j \in Commands, Deliver(j) PROVE Goal
  BY <1>22, NewManifest, LeaseLasts DEF Deliver
<1>23. ASSUME NEW j \in Commands, Remove(j) PROVE Goal
  BY <1>23, NewManifest, LeaseLasts DEF Remove, Started, MayExecute, Runs
<1>24. ASSUME NEW j \in Commands, Raises(j) PROVE Goal
  BY <1>24, NewManifest, LeaseLasts DEF Raises, Reserved
<1>25. ASSUME NEW j \in Commands, FindDirectory(j) PROVE Goal
  BY <1>25, NewManifest, LeaseLasts DEF FindDirectory
<1>26. ASSUME NEW j \in Commands, FindNoManifest(j) PROVE Goal
  BY <1>26, NewManifest, LeaseLasts DEF FindNoManifest
<1>27. ASSUME NEW j \in Commands, RemoveAgain(j) PROVE Goal
  BY <1>27, NewManifest, LeaseLasts DEF RemoveAgain, Started, MayExecute, Runs
<1>28. ASSUME NEW j \in Commands, GiveUp(j) PROVE Goal
  BY <1>28, NewManifest, LeaseLasts DEF GiveUp
<1>29. ASSUME NEW q \in Pids, RunStart(q) PROVE Goal
  <2>1. CASE q # p
    <3>1. /\ birth'[p] = birth[p] /\ loaded'[p] = loaded[p] /\ slot'[p] = slot[p]
          /\ manifest'[p] = manifest[p] /\ control'[p] = control[p]
      BY <1>29, <2>1 DEF RunStart
    <3>2. status'[p] = status[p]
      BY <1>29, <2>1 DEF RunStart
    <3>3. QED
      BY <3>1, <3>2
  <2>2. CASE q = p
    BY <1>29, <2>2 DEF RunStart
  <2>3. QED
    BY <2>1, <2>2
<1>30. ASSUME NEW q \in Pids, RunStop(q) PROVE Goal
  <2>1. CASE q # p
    <3>1. /\ birth'[p] = birth[p] /\ loaded'[p] = loaded[p] /\ slot'[p] = slot[p]
          /\ manifest'[p] = manifest[p] /\ control'[p] = control[p]
      BY <1>30, <2>1 DEF RunStop, Finalize
    <3>2. status'[p] = status[p]
      BY <1>30, <2>1 DEF RunStop, Finalize
    <3>3. QED
      BY <3>1, <3>2
  <2>2. CASE q = p
    BY <1>30, <2>2 DEF RunStop, Finalize
  <2>3. QED
    BY <2>1, <2>2
<1>31. ASSUME NEW q \in Pids, RecoverAtExit(q) PROVE Goal
  <2>1. CASE q # p
    <3>1. /\ birth'[p] = birth[p] /\ loaded'[p] = loaded[p] /\ slot'[p] = slot[p]
          /\ manifest'[p] = manifest[p] /\ control'[p] = control[p]
      BY <1>31, <2>1 DEF RecoverAtExit, Finalize
    <3>2. status'[p] = status[p]
      BY <1>31, <2>1 DEF RecoverAtExit, Finalize
    <3>3. QED
      BY <3>1, <3>2
  <2>2. CASE q = p
    <3>1. /\ leases[<<p, birth[p]>>] = loaded[p] /\ served[p]
          /\ UNCHANGED <<birth, loaded, leases>>
      BY <1>31, <2>2 DEF RecoverAtExit
    <3>2. Leased(p)'
      BY <3>1 DEF Leased
    <3>3. QED
      BY <3>2
  <2>3. QED
    BY <2>1, <2>2
<1>32. ASSUME NEW q \in Pids, Exit(q) PROVE Goal
  BY <1>32, NewManifest, LeaseLasts DEF Exit
<1>33. ASSUME NEW q \in Pids, Reuse(q) PROVE Goal
  BY <1>33, NewManifest, LeaseLasts DEF Reuse
<1> QED
  BY <1>1, <1>2, <1>3, <1>4, <1>5, <1>6, <1>7, <1>8, <1>9, <1>10,
     <1>11, <1>12, <1>13, <1>14, <1>15, <1>16, <1>17, <1>18, <1>19, <1>20,
     <1>21, <1>22, <1>23, <1>24, <1>25, <1>26, <1>27, <1>28, <1>29, <1>30,
     <1>31, <1>32, <1>33
  DEF Next

\* What a process is monitored from is leased to it, or it is starting.
LEMMA ServedStep ==
  ASSUME CacheInv, [Next]_vars, ~raced', NEW p \in Pids, alive'[p], served'[p]
  PROVE  Leased(p)' \/ Starting(p)'
<1>0. /\ ~raced /\ FilesOfOneSession /\ ServedIsCovered /\ DeadIsQuiet
      /\ birth \in [Pids -> Births]
      /\ alive \in [Pids -> BOOLEAN]
      /\ slot \in [Pids -> {"none", "start", "stop"}]
      /\ loaded \in [Pids -> Versions \union {None}]
      /\ served \in [Pids -> BOOLEAN]
      /\ manifest \in [Pids -> Sessions \union {Fresh}]
      /\ control \in [Pids -> {"none", "start_pending", "active", "terminal"}]
  BY RaceLasts DEF CacheInv, TypeOK
<1>1. CASE alive[p] /\ served[p]
  <2>1. Leased(p) \/ Starting(p)
    BY <1>0, <1>1 DEF ServedIsCovered
  <2>2. QED
    BY <1>1, <2>1, LeaseLasts, StartingLasts
<1>2. CASE ~(alive[p] /\ served[p])
  <2>1. /\ RunStart(p) /\ HasManifest(p) /\ alive[p]
        /\ manifest[p] = [version |-> loaded'[p], birth |-> birth[p]]
        /\ status'[p].state = "active"
    BY <1>2, ServedSince
  <2>2. /\ slot[p] = "start" /\ slot'[p] = "none"
        /\ UNCHANGED <<birth, manifest, control>>
    BY <1>0, <2>1 DEF RunStart
  <2>3. control[p] \in {"start_pending", "active"}
    BY <1>0, <2>2 DEF FilesOfOneSession
  <2>4. CASE control[p] = "start_pending"
    BY <2>1, <2>2, <2>4 DEF Starting
  <2>5. CASE control[p] = "active"
    <3>1. Runs(<<p, manifest[p].birth>>)
      BY <2>1 DEF Runs
    <3>2. Leased(p)
      BY <1>0, <2>1, <2>5, <3>1 DEF ServedIsCovered
    <3>3. QED
      BY <2>1, <3>2, LeaseLasts
  <2>6. QED
    BY <2>3, <2>4, <2>5
<1>3. QED
  BY <1>1, <1>2

\* The command that acknowledges a session of a process that runs leases it
\* what it has imported.
LEMMA Acknowledged ==
  ASSUME CacheInv, NEW k \in Commands, Acknowledge(k), ~raced', NEW p \in Pids,
         pid[k] = p, alive[p], birth[p] = expected[k]
  PROVE  Leased(p)'
<1>0. /\ LocalsFit
      /\ birth \in [Pids -> Births]
      /\ alive \in [Pids -> BOOLEAN]
      /\ loaded \in [Pids -> Versions \union {None}]
      /\ leases \in [Processes -> Versions \union {None}]
      /\ manifest \in [Pids -> Sessions \union {Fresh}]
      /\ raced \in BOOLEAN
  BY DEF CacheInv, TypeOK
<1>1. /\ pid[k] \in Pids /\ expected[k] \in Births
  BY <1>0 DEF LocalsFit, Acknowledge, At, Pruning, Over
<1>2. /\ HasManifest(p) /\ ~OtherSession(k)
      /\ leases' = [leases EXCEPT ![<<p, expected[k]>>] = manifest[p].version]
      /\ UNCHANGED <<birth, loaded>>
  BY <1>0 DEF Acknowledge, Lease, target
<1>3. Runs(<<p, expected[k]>>)
  BY DEF Runs
<1>4. manifest[p].version = loaded[p]
  BY <1>2, <1>3 DEF OtherSession
<1>5. loaded[p] # None
  BY <1>1, <1>2, <1>4, ManifestIsSession
<1>6. <<p, expected[k]>> \in Processes
  BY <1>1 DEF Processes
<1>7. leases'[<<p, expected[k]>>] = loaded[p]
  BY <1>0, <1>2, <1>4, <1>6
<1>8. loaded'[p] # None /\ leases'[<<p, birth'[p]>>] = loaded'[p]
  BY <1>2, <1>5, <1>7
<1>9. QED
  BY <1>8 DEF Leased

\* An acknowledged session that can run was one before, or a command has just
\* acknowledged it.
LEMMA ActiveSince ==
  ASSUME CacheInv, [Next]_vars, ~raced', NEW p \in Pids
  PROVE  HasManifest(p)' /\ control'[p] = "active" /\ alive'[p]
             /\ birth'[p] = manifest'[p].birth
           => /\ alive[p]
              /\ \/ HasManifest(p) /\ control[p] = "active" /\ birth[p] = manifest[p].birth
                 \/ \E k \in Commands : Acknowledge(k) /\ pid[k] = p /\ expected[k] = birth[p]
<1> DEFINE Goal ==
           HasManifest(p)' /\ control'[p] = "active" /\ alive'[p]
             /\ birth'[p] = manifest'[p].birth
             => /\ alive[p]
                /\ \/ HasManifest(p) /\ control[p] = "active" /\ birth[p] = manifest[p].birth
                   \/ \E k \in Commands : Acknowledge(k) /\ pid[k] = p /\ expected[k] = birth[p]
<1>0. LocalsFit /\ BirthsGrow /\ FilesOfOneSession /\ Births = 1 .. MaxBirths
      /\ birth \in [Pids -> Births]
      /\ alive \in [Pids -> BOOLEAN]
      /\ manifest \in [Pids -> Sessions \union {Fresh}]
      /\ control \in [Pids -> {"none", "start_pending", "active", "terminal"}]
      /\ pc \in [Commands -> PC]
      /\ pid \in [Commands -> Pids \union {None}]
      /\ version \in [Commands -> Versions \union {None}]
      /\ expected \in [Commands -> Births \union {0}]
  BY RaceLasts DEF CacheInv, TypeOK, Births
<1> USE <1>0 DEF LocalsFit, FilesOfOneSession, Pruning, Over, HasManifest, At,
        Goto, Goes, Ends, Handles, Forgets, KeepsRun, PrunesOnly, KeepsPrune, Prune,
        SetControl, RemoveSession, SetStatus, target, session, locals
<1>1. CASE UNCHANGED vars
  BY <1>1 DEF vars
<1>2. ASSUME NEW j \in Commands, NEW q \in Pids, ReadManifest(j, q) PROVE Goal
  BY <1>2 DEF ReadManifest
<1>3. ASSUME NEW j \in Commands, AllManifestsRead(j) PROVE Goal
  BY <1>3 DEF AllManifestsRead
<1>4. ASSUME NEW j \in Commands, NEW q \in Processes, ReadLease(j, q)
      PROVE  Goal
  BY <1>4 DEF ReadLease, Held
<1>5. ASSUME NEW j \in Commands, AllLeasesRead(j) PROVE Goal
  BY <1>5 DEF AllLeasesRead
<1>6. ASSUME NEW j \in Commands, ListArchives(j) PROVE Goal
  BY <1>6 DEF ListArchives
<1>7. ASSUME NEW j \in Commands, Unlink(j) PROVE Goal
  BY <1>7 DEF Unlink
<1>8. ASSUME NEW j \in Commands, UnlinkFails(j) PROVE Goal
  BY <1>8, SMTT(30) DEF UnlinkFails
<1>9. ASSUME NEW j \in Commands, Pruned(j) PROVE Goal
  BY <1>9 DEF Pruned
<1>10. ASSUME NEW j \in Commands, NEW q \in Pids, NEW v \in Versions,
             AttachBegin(j, q, v)
      PROVE  Goal
  BY <1>10 DEF AttachBegin
<1>11. ASSUME NEW j \in Commands, Reserve(j) PROVE Goal
  BY <1>11 DEF Reserve
<1>12. ASSUME NEW j \in Commands, Stage(j) PROVE Goal
  BY <1>12 DEF Stage
<1>13. ASSUME NEW j \in Commands, WriteManifest(j) PROVE Goal
  BY <1>13 DEF WriteManifest, Uncovered
<1>14. ASSUME NEW j \in Commands, StartExec(j) PROVE Goal
  BY <1>14 DEF StartExec
<1>15. ASSUME NEW j \in Commands, StartExecFails(j) PROVE Goal
  BY <1>15 DEF StartExecFails
<1>16. ASSUME NEW j \in Commands, ObserveStart(j) PROVE Goal
  BY <1>16 DEF ObserveStart
<1>17. ASSUME NEW j \in Commands, Acknowledge(j) PROVE Goal
  <2>1. /\ UNCHANGED <<birth, alive, manifest>> /\ ~OtherSession(j)
        /\ control' = [control EXCEPT ![pid[j]] = "active"]
    BY <1>17 DEF Acknowledge
  <2>2. CASE pid[j] # p
    BY <2>1, <2>2
  <2>3. CASE pid[j] = p
    BY <1>17, <2>1, <2>3 DEF OtherSession
  <2>4. QED
    BY <2>2, <2>3
<1>18. ASSUME NEW j \in Commands, NEW q \in Pids, StopBegin(j, q) PROVE Goal
  BY <1>18 DEF StopBegin, Terminal
<1>19. ASSUME NEW j \in Commands, NEW q \in Pids, Discard(j, q) PROVE Goal
  BY <1>19 DEF Discard, MayExecute
<1>20. ASSUME NEW j \in Commands, StopExec(j) PROVE Goal
  BY <1>20 DEF StopExec
<1>21. ASSUME NEW j \in Commands, ObserveStop(j) PROVE Goal
  BY <1>21 DEF ObserveStop, Terminal
<1>22. ASSUME NEW j \in Commands, Deliver(j) PROVE Goal
  BY <1>22 DEF Deliver
<1>23. ASSUME NEW j \in Commands, Remove(j) PROVE Goal
  BY <1>23 DEF Remove, Started, MayExecute
<1>24. ASSUME NEW j \in Commands, Raises(j) PROVE Goal
  BY <1>24 DEF Raises, Reserved
<1>25. ASSUME NEW j \in Commands, FindDirectory(j) PROVE Goal
  BY <1>25 DEF FindDirectory
<1>26. ASSUME NEW j \in Commands, FindNoManifest(j) PROVE Goal
  BY <1>26 DEF FindNoManifest
<1>27. ASSUME NEW j \in Commands, RemoveAgain(j) PROVE Goal
  BY <1>27 DEF RemoveAgain, Started, MayExecute
<1>28. ASSUME NEW j \in Commands, GiveUp(j) PROVE Goal
  BY <1>28 DEF GiveUp
<1>29. ASSUME NEW q \in Pids, RunStart(q) PROVE Goal
  BY <1>29 DEF RunStart
<1>30. ASSUME NEW q \in Pids, RunStop(q) PROVE Goal
  BY <1>30 DEF RunStop, Finalize
<1>31. ASSUME NEW q \in Pids, RecoverAtExit(q) PROVE Goal
  BY <1>31 DEF RecoverAtExit, Finalize
<1>32. ASSUME NEW q \in Pids, Exit(q) PROVE Goal
  BY <1>32 DEF Exit
<1>33. ASSUME NEW q \in Pids, Reuse(q) PROVE Goal
  <2>1. CASE q # p
    BY <1>33, <2>1 DEF Reuse
  <2>2. CASE q = p /\ HasManifest(p)
    <3>1. manifest[p].birth <= birth[p] /\ manifest[p].birth \in Nat /\ birth[p] \in Nat
      BY <2>2, ManifestIsSession DEF BirthsGrow
    <3>2. birth'[p] = birth[p] + 1 /\ manifest' = manifest
      BY <1>33, <2>2 DEF Reuse
    <3>3. QED
      BY <3>1, <3>2
  <2>3. QED
    BY <1>33, <2>1, <2>2 DEF Reuse
<1> QED
  BY <1>1, <1>2, <1>3, <1>4, <1>5, <1>6, <1>7, <1>8, <1>9, <1>10,
     <1>11, <1>12, <1>13, <1>14, <1>15, <1>16, <1>17, <1>18, <1>19, <1>20,
     <1>21, <1>22, <1>23, <1>24, <1>25, <1>26, <1>27, <1>28, <1>29, <1>30,
     <1>31, <1>32, <1>33
  DEF Next

\* A process that runs ran before, or has a birth that is new.
LEMMA AliveSince ==
  ASSUME CacheInv, [Next]_vars, NEW p \in Pids
  PROVE  alive'[p] =>
           /\ birth[p] \in Nat /\ birth'[p] \in Nat
           /\ (alive[p] /\ birth'[p] = birth[p]) \/ birth'[p] > birth[p]
<1> DEFINE Goal ==
           alive'[p] =>
             /\ birth[p] \in Nat /\ birth'[p] \in Nat
             /\ (alive[p] /\ birth'[p] = birth[p]) \/ birth'[p] > birth[p]
<1>0. Births = 1 .. MaxBirths
      /\ birth \in [Pids -> Births]
      /\ alive \in [Pids -> BOOLEAN]
  BY DEF CacheInv, TypeOK, Births
<1> USE <1>0 DEF At, Goto, Goes, Ends, Handles, Forgets, KeepsRun, PrunesOnly, KeepsPrune,
        Prune, SetControl, RemoveSession, SetStatus, target, session, locals
<1>1. CASE UNCHANGED vars
  BY <1>1 DEF vars
<1>2. ASSUME NEW j \in Commands, NEW q \in Pids, ReadManifest(j, q) PROVE Goal
  BY <1>2 DEF ReadManifest
<1>3. ASSUME NEW j \in Commands, AllManifestsRead(j) PROVE Goal
  BY <1>3 DEF AllManifestsRead
<1>4. ASSUME NEW j \in Commands, NEW q \in Processes, ReadLease(j, q)
      PROVE  Goal
  BY <1>4 DEF ReadLease, Held
<1>5. ASSUME NEW j \in Commands, AllLeasesRead(j) PROVE Goal
  BY <1>5 DEF AllLeasesRead
<1>6. ASSUME NEW j \in Commands, ListArchives(j) PROVE Goal
  BY <1>6 DEF ListArchives
<1>7. ASSUME NEW j \in Commands, Unlink(j) PROVE Goal
  BY <1>7 DEF Unlink
<1>8. ASSUME NEW j \in Commands, UnlinkFails(j) PROVE Goal
  BY <1>8, SMTT(30) DEF UnlinkFails
<1>9. ASSUME NEW j \in Commands, Pruned(j) PROVE Goal
  BY <1>9 DEF Pruned
<1>10. ASSUME NEW j \in Commands, NEW q \in Pids, NEW v \in Versions,
             AttachBegin(j, q, v)
      PROVE  Goal
  BY <1>10 DEF AttachBegin
<1>11. ASSUME NEW j \in Commands, Reserve(j) PROVE Goal
  BY <1>11 DEF Reserve
<1>12. ASSUME NEW j \in Commands, Stage(j) PROVE Goal
  BY <1>12 DEF Stage
<1>13. ASSUME NEW j \in Commands, WriteManifest(j) PROVE Goal
  BY <1>13 DEF WriteManifest, Uncovered
<1>14. ASSUME NEW j \in Commands, StartExec(j) PROVE Goal
  BY <1>14 DEF StartExec
<1>15. ASSUME NEW j \in Commands, StartExecFails(j) PROVE Goal
  BY <1>15 DEF StartExecFails
<1>16. ASSUME NEW j \in Commands, ObserveStart(j) PROVE Goal
  BY <1>16 DEF ObserveStart
<1>17. ASSUME NEW j \in Commands, Acknowledge(j) PROVE Goal
  BY <1>17 DEF Acknowledge, Lease, OtherSession
<1>18. ASSUME NEW j \in Commands, NEW q \in Pids, StopBegin(j, q) PROVE Goal
  BY <1>18 DEF StopBegin, Terminal
<1>19. ASSUME NEW j \in Commands, NEW q \in Pids, Discard(j, q) PROVE Goal
  BY <1>19 DEF Discard, MayExecute
<1>20. ASSUME NEW j \in Commands, StopExec(j) PROVE Goal
  BY <1>20 DEF StopExec
<1>21. ASSUME NEW j \in Commands, ObserveStop(j) PROVE Goal
  BY <1>21 DEF ObserveStop, Terminal
<1>22. ASSUME NEW j \in Commands, Deliver(j) PROVE Goal
  BY <1>22 DEF Deliver
<1>23. ASSUME NEW j \in Commands, Remove(j) PROVE Goal
  BY <1>23 DEF Remove, Started, MayExecute
<1>24. ASSUME NEW j \in Commands, Raises(j) PROVE Goal
  BY <1>24 DEF Raises, Reserved
<1>25. ASSUME NEW j \in Commands, FindDirectory(j) PROVE Goal
  BY <1>25 DEF FindDirectory
<1>26. ASSUME NEW j \in Commands, FindNoManifest(j) PROVE Goal
  BY <1>26 DEF FindNoManifest
<1>27. ASSUME NEW j \in Commands, RemoveAgain(j) PROVE Goal
  BY <1>27 DEF RemoveAgain, Started, MayExecute
<1>28. ASSUME NEW j \in Commands, GiveUp(j) PROVE Goal
  BY <1>28 DEF GiveUp
<1>29. ASSUME NEW q \in Pids, RunStart(q) PROVE Goal
  BY <1>29 DEF RunStart
<1>30. ASSUME NEW q \in Pids, RunStop(q) PROVE Goal
  BY <1>30 DEF RunStop, Finalize
<1>31. ASSUME NEW q \in Pids, RecoverAtExit(q) PROVE Goal
  BY <1>31 DEF RecoverAtExit, Finalize
<1>32. ASSUME NEW q \in Pids, Exit(q) PROVE Goal
  BY <1>32 DEF Exit
<1>33. ASSUME NEW q \in Pids, Reuse(q) PROVE Goal
  BY <1>33 DEF Reuse
<1> QED
  BY <1>1, <1>2, <1>3, <1>4, <1>5, <1>6, <1>7, <1>8, <1>9, <1>10,
     <1>11, <1>12, <1>13, <1>14, <1>15, <1>16, <1>17, <1>18, <1>19, <1>20,
     <1>21, <1>22, <1>23, <1>24, <1>25, <1>26, <1>27, <1>28, <1>29, <1>30,
     <1>31, <1>32, <1>33
  DEF Next

\* A command that is to stop a session was already, or has just found that the
\* session is acknowledged.
LEMMA StopSince ==
  ASSUME CacheInv, [Next]_vars, NEW k \in Commands
  PROVE  pc'[k] = "stop" =>
           \/ pc[k] = "stop" /\ pid'[k] = pid[k] /\ expected'[k] = expected[k]
           \/ Acknowledge(k) /\ pid'[k] = pid[k] /\ expected'[k] = expected[k]
           \/ \E p \in Pids : /\ StopBegin(k, p) /\ pid'[k] = p
                              /\ expected'[k] = manifest[p].birth
                              /\ control[p] = "active" /\ UNCHANGED control
<1> DEFINE Goal ==
           pc'[k] = "stop" =>
             \/ pc[k] = "stop" /\ pid'[k] = pid[k] /\ expected'[k] = expected[k]
             \/ Acknowledge(k) /\ pid'[k] = pid[k] /\ expected'[k] = expected[k]
             \/ \E p \in Pids : /\ StopBegin(k, p) /\ pid'[k] = p
                                /\ expected'[k] = manifest[p].birth
                                /\ control[p] = "active" /\ UNCHANGED control
<1>0. /\ pc \in [Commands -> PC]
      /\ pid \in [Commands -> Pids \union {None}]
      /\ expected \in [Commands -> Births \union {0}]
      /\ after \in [Commands -> {"idle", "reserve", "handler"}]
  BY DEF CacheInv, TypeOK
<1> USE <1>0 DEF At, Goto, Goes, Ends, Handles, Forgets, KeepsRun, PrunesOnly, KeepsPrune,
        Prune, SetControl, RemoveSession, SetStatus, target, session, locals
<1>1. CASE UNCHANGED vars
  BY <1>1 DEF vars
<1>2. ASSUME NEW j \in Commands, NEW q \in Pids, ReadManifest(j, q) PROVE Goal
  BY <1>2 DEF ReadManifest
<1>3. ASSUME NEW j \in Commands, AllManifestsRead(j) PROVE Goal
  BY <1>3 DEF AllManifestsRead
<1>4. ASSUME NEW j \in Commands, NEW q \in Processes, ReadLease(j, q)
      PROVE  Goal
  BY <1>4 DEF ReadLease, Held
<1>5. ASSUME NEW j \in Commands, AllLeasesRead(j) PROVE Goal
  BY <1>5 DEF AllLeasesRead
<1>6. ASSUME NEW j \in Commands, ListArchives(j) PROVE Goal
  BY <1>6 DEF ListArchives
<1>7. ASSUME NEW j \in Commands, Unlink(j) PROVE Goal
  BY <1>7 DEF Unlink
<1>8. ASSUME NEW j \in Commands, UnlinkFails(j) PROVE Goal
  BY <1>8, SMTT(30) DEF UnlinkFails
<1>9. ASSUME NEW j \in Commands, Pruned(j) PROVE Goal
  BY <1>9 DEF Pruned
<1>10. ASSUME NEW j \in Commands, NEW q \in Pids, NEW v \in Versions,
             AttachBegin(j, q, v)
      PROVE  Goal
  BY <1>10 DEF AttachBegin
<1>11. ASSUME NEW j \in Commands, Reserve(j) PROVE Goal
  BY <1>11 DEF Reserve
<1>12. ASSUME NEW j \in Commands, Stage(j) PROVE Goal
  BY <1>12 DEF Stage
<1>13. ASSUME NEW j \in Commands, WriteManifest(j) PROVE Goal
  BY <1>13 DEF WriteManifest, Uncovered
<1>14. ASSUME NEW j \in Commands, StartExec(j) PROVE Goal
  BY <1>14 DEF StartExec
<1>15. ASSUME NEW j \in Commands, StartExecFails(j) PROVE Goal
  BY <1>15 DEF StartExecFails
<1>16. ASSUME NEW j \in Commands, ObserveStart(j) PROVE Goal
  BY <1>16 DEF ObserveStart
<1>17. ASSUME NEW j \in Commands, Acknowledge(j) PROVE Goal
  BY <1>17 DEF Acknowledge, Lease, OtherSession
<1>18. ASSUME NEW j \in Commands, NEW q \in Pids, StopBegin(j, q) PROVE Goal
  BY <1>18 DEF StopBegin, Terminal
<1>19. ASSUME NEW j \in Commands, NEW q \in Pids, Discard(j, q) PROVE Goal
  BY <1>19 DEF Discard, MayExecute
<1>20. ASSUME NEW j \in Commands, StopExec(j) PROVE Goal
  BY <1>20 DEF StopExec
<1>21. ASSUME NEW j \in Commands, ObserveStop(j) PROVE Goal
  BY <1>21 DEF ObserveStop, Terminal
<1>22. ASSUME NEW j \in Commands, Deliver(j) PROVE Goal
  BY <1>22 DEF Deliver
<1>23. ASSUME NEW j \in Commands, Remove(j) PROVE Goal
  BY <1>23 DEF Remove, Started, MayExecute
<1>24. ASSUME NEW j \in Commands, Raises(j) PROVE Goal
  BY <1>24 DEF Raises, Reserved
<1>25. ASSUME NEW j \in Commands, FindDirectory(j) PROVE Goal
  BY <1>25 DEF FindDirectory
<1>26. ASSUME NEW j \in Commands, FindNoManifest(j) PROVE Goal
  BY <1>26 DEF FindNoManifest
<1>27. ASSUME NEW j \in Commands, RemoveAgain(j) PROVE Goal
  BY <1>27 DEF RemoveAgain, Started, MayExecute
<1>28. ASSUME NEW j \in Commands, GiveUp(j) PROVE Goal
  BY <1>28 DEF GiveUp
<1>29. ASSUME NEW q \in Pids, RunStart(q) PROVE Goal
  BY <1>29 DEF RunStart
<1>30. ASSUME NEW q \in Pids, RunStop(q) PROVE Goal
  BY <1>30 DEF RunStop, Finalize
<1>31. ASSUME NEW q \in Pids, RecoverAtExit(q) PROVE Goal
  BY <1>31 DEF RecoverAtExit, Finalize
<1>32. ASSUME NEW q \in Pids, Exit(q) PROVE Goal
  BY <1>32 DEF Exit
<1>33. ASSUME NEW q \in Pids, Reuse(q) PROVE Goal
  BY <1>33 DEF Reuse
<1> QED
  BY <1>1, <1>2, <1>3, <1>4, <1>5, <1>6, <1>7, <1>8, <1>9, <1>10,
     <1>11, <1>12, <1>13, <1>14, <1>15, <1>16, <1>17, <1>18, <1>19, <1>20,
     <1>21, <1>22, <1>23, <1>24, <1>25, <1>26, <1>27, <1>28, <1>29, <1>30,
     <1>31, <1>32, <1>33
  DEF Next

\* An acknowledged session has its lease.
LEMMA ActiveStep ==
  ASSUME CacheInv, [Next]_vars, ~raced', NEW p \in Pids, HasManifest(p)',
         control'[p] = "active", Runs(<<p, manifest[p].birth>>)'
  PROVE  Leased(p)'
<1>0. ServedIsCovered
  BY RaceLasts DEF CacheInv
<1>1. alive'[p] /\ birth'[p] = manifest'[p].birth
  BY DEF Runs
<1>2. alive[p]
  BY <1>1, ActiveSince
<1>3. CASE HasManifest(p) /\ control[p] = "active" /\ birth[p] = manifest[p].birth
  <2>1. Runs(<<p, manifest[p].birth>>)
    BY <1>2, <1>3 DEF Runs
  <2>2. Leased(p)
    BY <1>0, <1>3, <2>1 DEF ServedIsCovered
  <2>3. QED
    BY <1>1, <1>2, <2>2, LeaseLasts
<1>4. CASE \E k \in Commands : Acknowledge(k) /\ pid[k] = p /\ expected[k] = birth[p]
  BY <1>2, <1>4, Acknowledged
<1>5. QED
  BY <1>1, <1>3, <1>4, ActiveSince

\* A command that is about to stop a session that runs knows it is leased.
LEMMA StopStep ==
  ASSUME CacheInv, [Next]_vars, ~raced', NEW k \in Commands, pc'[k] = "stop",
         Runs(<<pid[k], expected[k]>>)'
  PROVE  Leased(pid[k])'
<1>0. /\ ServedIsCovered /\ LocalsFit /\ CommandsAreOld
      /\ birth \in [Pids -> Births]
      /\ alive \in [Pids -> BOOLEAN]
      /\ pc \in [Commands -> PC]
      /\ pid \in [Commands -> Pids \union {None}]
      /\ expected \in [Commands -> Births \union {0}]
  BY RaceLasts DEF CacheInv, TypeOK, BirthsGrow, CommandsAreOld
<1>1. alive'[pid'[k]] /\ birth'[pid'[k]] = expected'[k]
  BY DEF Runs
<1>2. ASSUME NEW p \in Pids, pid'[k] = p, pid[k] = p, expected'[k] = expected[k],
             pc[k] \in {"stop", "acknowledge"}
      PROVE  alive[p] /\ birth[p] = expected[k]
  <2>1. expected[k] <= birth[p]
    BY <1>0, <1>2 DEF CommandsAreOld
  <2>2. alive'[p] /\ birth'[p] = expected[k]
    BY <1>1, <1>2
  <2>3. QED
    BY <1>0, <2>1, <2>2, AliveSince
<1>3. CASE pc[k] = "stop" /\ pid'[k] = pid[k] /\ expected'[k] = expected[k]
  <2>1. pid[k] \in Pids
    BY <1>0, <1>3 DEF LocalsFit, At
  <2>2. alive[pid[k]] /\ birth[pid[k]] = expected[k]
    BY <1>2, <1>3, <2>1
  <2>3. Leased(pid[k])
    BY <1>0, <1>3, <2>2 DEF ServedIsCovered, At, Runs
  <2>4. QED
    BY <1>1, <1>3, <2>1, <2>2, <2>3, LeaseLasts DEF Leased
<1>4. CASE Acknowledge(k) /\ pid'[k] = pid[k] /\ expected'[k] = expected[k]
  <2>1. pid[k] \in Pids /\ pc[k] = "acknowledge"
    BY <1>0, <1>4 DEF LocalsFit, At, Acknowledge
  <2>2. alive[pid[k]] /\ birth[pid[k]] = expected[k]
    BY <1>2, <1>4, <2>1
  <2>3. Leased(pid[k])'
    BY <1>4, <2>1, <2>2, Acknowledged DEF Leased
  <2>4. QED
    BY <2>3
<1>5. CASE \E p \in Pids : /\ StopBegin(k, p) /\ pid'[k] = p
                           /\ expected'[k] = manifest[p].birth
                           /\ control[p] = "active" /\ UNCHANGED control
  <2>1. PICK p \in Pids : /\ StopBegin(k, p) /\ pid'[k] = p
                          /\ expected'[k] = manifest[p].birth
                          /\ control[p] = "active" /\ UNCHANGED control
    BY <1>5
  <2>2. /\ HasManifest(p) /\ UNCHANGED <<birth, alive, loaded, leases, manifest>>
    BY <2>1 DEF StopBegin, target
  <2>3. HasManifest(p)' /\ Runs(<<p, manifest[p].birth>>)'
    BY <1>1, <2>1, <2>2 DEF HasManifest, Runs
  <2>4. Leased(p)'
    BY <2>1, <2>3, ActiveStep
  <2>5. QED
    BY <2>1, <2>4 DEF Leased
<1>6. QED
  BY <1>3, <1>4, <1>5, StopSince

\* Every step leaves leased what processes are monitored from.
LEMMA CoveredStep ==
  ASSUME CacheInv, [Next]_vars, ~raced'
  PROVE  ServedIsCovered'
<1>1. ASSUME NEW p \in Pids
      PROVE  alive'[p] /\ served'[p] => Leased(p)' \/ Starting(p)'
  BY ServedStep
<1>2. ASSUME NEW p \in Pids
      PROVE  HasManifest(p)' /\ control'[p] = "active" /\ Runs(<<p, manifest[p].birth>>)'
               => Leased(p)'
  BY ActiveStep
<1>3. ASSUME NEW k \in Commands
      PROVE  pc'[k] = "stop" /\ Runs(<<pid[k], expected[k]>>)' => Leased(pid[k])'
  BY StopStep
<1>4. QED
  BY <1>1, <1>2, <1>3 DEF ServedIsCovered, At

\* An archive goes only because a prune has doomed it.
LEMMA ArchivesSince ==
  ASSUME CacheInv, [Next]_vars
  PROVE  \/ archives \subseteq archives'
         \/ \E k \in Commands : /\ pc[k] = "unlink" /\ UNCHANGED <<target, session>>
                                /\ \E v \in doomed[k] : archives \ {v} \subseteq archives'
<1> DEFINE Goal ==
           \/ archives \subseteq archives'
           \/ \E k \in Commands : /\ pc[k] = "unlink" /\ UNCHANGED <<target, session>>
                                  /\ \E v \in doomed[k] : archives \ {v} \subseteq archives'
<1>0. raced \in BOOLEAN
  BY DEF CacheInv, TypeOK
<1> USE <1>0 DEF At, Goto, Goes, Ends, Handles, Forgets, KeepsRun, PrunesOnly, KeepsPrune,
        Prune, SetControl, RemoveSession, SetStatus, target, session, locals
<1>1. CASE UNCHANGED vars
  BY <1>1 DEF vars
<1>2. ASSUME NEW k \in Commands, NEW p \in Pids, ReadManifest(k, p) PROVE Goal
  BY <1>2 DEF ReadManifest
<1>3. ASSUME NEW k \in Commands, AllManifestsRead(k) PROVE Goal
  BY <1>3 DEF AllManifestsRead
<1>4. ASSUME NEW k \in Commands, NEW q \in Processes, ReadLease(k, q)
      PROVE  Goal
  BY <1>4 DEF ReadLease, Held
<1>5. ASSUME NEW k \in Commands, AllLeasesRead(k) PROVE Goal
  BY <1>5 DEF AllLeasesRead
<1>6. ASSUME NEW k \in Commands, ListArchives(k) PROVE Goal
  BY <1>6 DEF ListArchives
<1>7. ASSUME NEW k \in Commands, Unlink(k) PROVE Goal
  BY <1>7 DEF Unlink
<1>8. ASSUME NEW k \in Commands, UnlinkFails(k) PROVE Goal
  BY <1>8, SMTT(30) DEF UnlinkFails
<1>9. ASSUME NEW k \in Commands, Pruned(k) PROVE Goal
  BY <1>9 DEF Pruned
<1>10. ASSUME NEW k \in Commands, NEW p \in Pids, NEW v \in Versions,
             AttachBegin(k, p, v)
      PROVE  Goal
  BY <1>10 DEF AttachBegin
<1>11. ASSUME NEW k \in Commands, Reserve(k) PROVE Goal
  BY <1>11 DEF Reserve
<1>12. ASSUME NEW k \in Commands, Stage(k) PROVE Goal
  BY <1>12 DEF Stage
<1>13. ASSUME NEW k \in Commands, WriteManifest(k) PROVE Goal
  BY <1>13 DEF WriteManifest, Uncovered
<1>14. ASSUME NEW k \in Commands, StartExec(k) PROVE Goal
  BY <1>14 DEF StartExec
<1>15. ASSUME NEW k \in Commands, StartExecFails(k) PROVE Goal
  BY <1>15 DEF StartExecFails
<1>16. ASSUME NEW k \in Commands, ObserveStart(k) PROVE Goal
  BY <1>16 DEF ObserveStart
<1>17. ASSUME NEW k \in Commands, Acknowledge(k) PROVE Goal
  BY <1>17 DEF Acknowledge, Lease, OtherSession
<1>18. ASSUME NEW k \in Commands, NEW p \in Pids, StopBegin(k, p) PROVE Goal
  BY <1>18 DEF StopBegin, Terminal
<1>19. ASSUME NEW k \in Commands, NEW p \in Pids, Discard(k, p) PROVE Goal
  BY <1>19 DEF Discard, MayExecute
<1>20. ASSUME NEW k \in Commands, StopExec(k) PROVE Goal
  BY <1>20 DEF StopExec
<1>21. ASSUME NEW k \in Commands, ObserveStop(k) PROVE Goal
  BY <1>21 DEF ObserveStop, Terminal
<1>22. ASSUME NEW k \in Commands, Deliver(k) PROVE Goal
  BY <1>22 DEF Deliver
<1>23. ASSUME NEW k \in Commands, Remove(k) PROVE Goal
  BY <1>23 DEF Remove, Started, MayExecute
<1>24. ASSUME NEW k \in Commands, Raises(k) PROVE Goal
  BY <1>24 DEF Raises, Reserved
<1>25. ASSUME NEW k \in Commands, FindDirectory(k) PROVE Goal
  BY <1>25 DEF FindDirectory
<1>26. ASSUME NEW k \in Commands, FindNoManifest(k) PROVE Goal
  BY <1>26 DEF FindNoManifest
<1>27. ASSUME NEW k \in Commands, RemoveAgain(k) PROVE Goal
  BY <1>27 DEF RemoveAgain, Started, MayExecute
<1>28. ASSUME NEW k \in Commands, GiveUp(k) PROVE Goal
  BY <1>28 DEF GiveUp
<1>29. ASSUME NEW p \in Pids, RunStart(p) PROVE Goal
  BY <1>29 DEF RunStart
<1>30. ASSUME NEW p \in Pids, RunStop(p) PROVE Goal
  BY <1>30 DEF RunStop, Finalize
<1>31. ASSUME NEW p \in Pids, RecoverAtExit(p) PROVE Goal
  BY <1>31 DEF RecoverAtExit, Finalize
<1>32. ASSUME NEW p \in Pids, Exit(p) PROVE Goal
  BY <1>32 DEF Exit
<1>33. ASSUME NEW p \in Pids, Reuse(p) PROVE Goal
  BY <1>33 DEF Reuse
<1> QED
  BY <1>1, <1>2, <1>3, <1>4, <1>5, <1>6, <1>7, <1>8, <1>9, <1>10,
     <1>11, <1>12, <1>13, <1>14, <1>15, <1>16, <1>17, <1>18, <1>19, <1>20,
     <1>21, <1>22, <1>23, <1>24, <1>25, <1>26, <1>27, <1>28, <1>29, <1>30,
     <1>31, <1>32, <1>33
  DEF Next

\* A manifest that a command writes is seen by every prune that goes on.
LEMMA WrittenIsCovered ==
  ASSUME CacheInv, ~raced', NEW k \in Commands, WriteManifest(k)
  PROVE  /\ HasManifest(pid[k])' /\ manifest'[pid[k]].version = version[k]
         /\ version[k] \in archives
         /\ \A j \in Commands :
              /\ pc[j] = "manifests" => pid[k] \in unread[j] \/ version[k] \in referenced[j]
              /\ pc[j] \in {"leases", "archives"} => version[k] \in referenced[j]
              /\ pc[j] = "unlink" => version[k] \notin doomed[j]
<1>0. /\ LocalsFit
      /\ manifest \in [Pids -> Sessions \union {Fresh}]
      /\ raced \in BOOLEAN
  BY DEF CacheInv, TypeOK
<1>1. /\ pc[k] = "manifest" /\ pid[k] \in Pids
      /\ version[k] \in Versions /\ expected[k] \in Births
  BY <1>0 DEF LocalsFit, WriteManifest, At, Pruning, Over
<1>2. /\ manifest' = [manifest EXCEPT ![pid[k]] =
                        [version |-> version[k], birth |-> expected[k]]]
      /\ ~Uncovered(k)
  BY <1>0 DEF WriteManifest
<1>3. manifest'[pid[k]] = [version |-> version[k], birth |-> expected[k]]
  BY <1>0, <1>1, <1>2
<1>4. HasManifest(pid[k])' /\ manifest'[pid[k]].version = version[k]
  <2>1. pid'[k] = pid[k]
    BY DEF WriteManifest, Goes, KeepsRun
  <2>2. manifest'[pid[k]] # Fresh /\ manifest'[pid[k]].version = version[k]
    BY <1>1, <1>3, NewManifest
  <2>3. QED
    BY <2>1, <2>2 DEF HasManifest
<1>5. ASSUME NEW j \in Commands
      PROVE  /\ pc[j] = "manifests" => pid[k] \in unread[j] \/ version[k] \in referenced[j]
             /\ pc[j] \in {"leases", "archives"} => version[k] \in referenced[j]
             /\ pc[j] = "unlink" => version[k] \notin doomed[j]
  BY <1>1, <1>2 DEF Uncovered, At
<1>6. version[k] \in archives
  BY <1>2 DEF Uncovered
<1>7. QED
  BY <1>4, <1>5, <1>6

\* What a prune knows when it reads a manifest, and when it reads a lease.
LEMMA ReadManifestKnows ==
  ASSUME CacheInv, NEW k \in Commands, NEW q \in Pids, ReadManifest(k, q)
  PROVE  /\ UNCHANGED <<birth, alive, loaded, served, slot, manifest, status,
                        control, leases>>
         /\ unread'[k] = unread[k] \ {q}
         /\ referenced[k] \subseteq referenced'[k]
         /\ HasManifest(q) => manifest[q].version \in referenced'[k]
  BY DEF CacheInv, TypeOK, ReadManifest, target, session

LEMMA ReadLeaseKnows ==
  ASSUME CacheInv, NEW k \in Commands, NEW q \in Processes, ReadLease(k, q)
  PROVE  /\ UNCHANGED <<birth, alive, loaded, served, manifest>>
         /\ unread'[k] = unread[k] \ {q}
         /\ referenced[k] \subseteq referenced'[k]
         /\ Runs(q) => leases' = leases /\ Held(q) \subseteq referenced'[k]
  BY DEF CacheInv, TypeOK, ReadLease, target, session

\* A prune goes on sparing what a session needs.
LEMMA ManifestSpared ==
  ASSUME CacheInv, [Next]_vars, ~raced', NEW k \in Commands, NEW p \in Pids
  PROVE  /\ pc'[k] = "manifests" =>
              (HasManifest(p)' => p \in unread'[k] \/ manifest'[p].version \in referenced'[k])
         /\ pc'[k] = "leases" =>
              (HasManifest(p)' => manifest'[p].version \in referenced'[k])
         /\ pc'[k] = "archives" =>
              (HasManifest(p)' => manifest'[p].version \in referenced'[k])
         /\ pc'[k] = "unlink" =>
              (HasManifest(p)' => manifest'[p].version \notin doomed'[k])
<1>0. PruneSpares
  BY RaceLasts DEF CacheInv
<1>1. CASE manifest'[p] = manifest[p] \/ manifest'[p] = Fresh
  <2>1. HasManifest(p)' => HasManifest(p) /\ manifest'[p] = manifest[p]
    BY <1>1 DEF HasManifest
  <2>2. ASSUME pc'[k] = "manifests", HasManifest(p)'
        PROVE  p \in unread'[k] \/ manifest'[p].version \in referenced'[k]
    <3>1. CASE unread'[k] = Pids
      BY <3>1
    <3>2. CASE /\ pc[k] = "manifests" /\ unread'[k] = unread[k]
               /\ referenced'[k] = referenced[k]
      BY <1>0, <2>1, <2>2, <3>2 DEF PruneSpares, At
    <3>3. CASE pc[k] = "manifests" /\ \E q \in Pids : ReadManifest(k, q)
      <4>1. PICK q \in Pids : ReadManifest(k, q)
        BY <3>3
      <4>2. p \in unread[k] \/ manifest[p].version \in referenced[k]
        BY <1>0, <2>1, <2>2, <3>3 DEF PruneSpares, At
      <4>3. QED
        BY <2>1, <2>2, <4>1, <4>2, ReadManifestKnows
    <3>4. QED
      BY <2>2, <3>1, <3>2, <3>3, PrunerSince
  <2>3. ASSUME pc'[k] = "leases", HasManifest(p)'
        PROVE  manifest'[p].version \in referenced'[k]
    <3>1. CASE AllManifestsRead(k)
      BY <1>0, <2>1, <2>3, <3>1 DEF AllManifestsRead, PruneSpares, At
    <3>2. CASE pc[k] = "leases" /\ referenced'[k] = referenced[k]
      BY <1>0, <2>1, <2>3, <3>2 DEF PruneSpares, At
    <3>3. CASE pc[k] = "leases" /\ \E q \in Processes : ReadLease(k, q)
      <4>1. referenced[k] \subseteq referenced'[k]
        BY <3>3, ReadLeaseKnows
      <4>2. QED
        BY <1>0, <2>1, <2>3, <3>3, <4>1 DEF PruneSpares, At
    <3>4. QED
      BY <2>3, <3>1, <3>2, <3>3, PrunerSince
  <2>4. ASSUME pc'[k] = "archives", HasManifest(p)'
        PROVE  manifest'[p].version \in referenced'[k]
    <3>1. CASE AllLeasesRead(k)
      BY <1>0, <2>1, <2>4, <3>1 DEF AllLeasesRead, KeepsPrune, PruneSpares, At
    <3>2. CASE pc[k] = "archives" /\ referenced'[k] = referenced[k]
      BY <1>0, <2>1, <2>4, <3>2 DEF PruneSpares, At
    <3>3. QED
      BY <2>4, <3>1, <3>2, PrunerSince
  <2>5. ASSUME pc'[k] = "unlink", HasManifest(p)'
        PROVE  manifest'[p].version \notin doomed'[k]
    <3>1. CASE ListArchives(k)
      <4>1. doomed'[k] = archives \ referenced[k]
        BY <3>1 DEF ListArchives, CacheInv, TypeOK
      <4>2. QED
        BY <1>0, <2>1, <2>5, <3>1, <4>1 DEF ListArchives, PruneSpares, At
    <3>2. CASE pc[k] = "unlink" /\ doomed'[k] \subseteq doomed[k]
      BY <1>0, <2>1, <2>5, <3>2 DEF PruneSpares, At
    <3>3. QED
      BY <2>5, <3>1, <3>2, PrunerSince
  <2>6. QED
    BY <2>2, <2>3, <2>4, <2>5
<1>2. CASE \E j \in Commands : WriteManifest(j) /\ pid[j] = p
  <2>1. PICK j \in Commands : WriteManifest(j) /\ pid[j] = p
    BY <1>2
  <2>2. /\ pc[j] = "manifest" /\ pc' = [pc EXCEPT ![j] = "exec"]
        /\ UNCHANGED <<unread, referenced, doomed>>
    BY <2>1 DEF WriteManifest, At, Goes, Goto, KeepsPrune
  <2>3. pc[k] # pc'[k] => pc'[k] = "exec"
    BY <2>2 DEF CacheInv, TypeOK
  <2>4. manifest'[p].version = version[j]
    BY <2>1, WrittenIsCovered
  <2>5. QED
    BY <2>1, <2>2, <2>3, <2>4, WrittenIsCovered
<1>3. QED
  BY <1>1, <1>2, ManifestSince

\* What a process is monitored from, as a prune that reads manifests, one that
\* reads leases and one that has read them spares it.
SparedByManifest(k, p) ==
  loaded[p] \in referenced[k] \/ Leased(p) \/ (Starting(p) /\ p \in unread[k])
SparedByLease(k, p) ==
  loaded[p] \in referenced[k] \/ (Leased(p) /\ <<p, birth[p]>> \in unread[k])

\* A process that has just been started imported what its manifest names.
LEMMA JustStarted ==
  ASSUME CacheInv, [Next]_vars, ~raced', NEW p \in Pids, alive'[p], served'[p],
         ~(alive[p] /\ served[p] /\ loaded'[p] = loaded[p])
  PROVE  /\ HasManifest(p)' /\ manifest'[p].version = loaded'[p]
         /\ \A k \in Commands : unread'[k] = unread[k] /\ pc'[k] = pc[k]
<1>1. /\ RunStart(p) /\ HasManifest(p)
      /\ manifest[p] = [version |-> loaded'[p], birth |-> birth[p]]
  BY ServedSince
<1>2. UNCHANGED <<manifest, unread, pc>>
  BY <1>1 DEF RunStart, locals
<1>3. manifest[p].version = loaded'[p]
  BY <1>1
<1>4. QED
  BY <1>1, <1>2, <1>3 DEF HasManifest

\* A prune that reads manifests goes on sparing what a process needs.
LEMMA SparedWhileManifests ==
  ASSUME CacheInv, [Next]_vars, ~raced', NEW k \in Commands, NEW p \in Pids,
         pc'[k] = "manifests", alive'[p], served'[p]
  PROVE  SparedByManifest(k, p)'
<1>0. PruneSpares
  BY RaceLasts DEF CacheInv
<1>1. Leased(p)' \/ Starting(p)'
  BY ServedStep
<1>2. CASE p \in unread'[k]
  BY <1>1, <1>2 DEF SparedByManifest
<1>3. CASE p \notin unread'[k] /\ alive[p] /\ served[p] /\ loaded'[p] = loaded[p]
  <2>1. CASE pc[k] = "manifests" /\ unread'[k] = unread[k] /\ referenced'[k] = referenced[k]
    <3>1. loaded[p] \in referenced[k] \/ Leased(p)
      BY <1>0, <1>3, <2>1 DEF PruneSpares, At
    <3>2. QED
      BY <1>3, <2>1, <3>1, LeaseLasts DEF SparedByManifest
  <2>2. CASE pc[k] = "manifests" /\ \E q \in Pids : ReadManifest(k, q)
    <3>1. PICK q \in Pids : ReadManifest(k, q)
      BY <2>2
    <3>2. CASE loaded[p] \in referenced[k] \/ Leased(p)
      BY <1>3, <3>1, <3>2, LeaseLasts, ReadManifestKnows DEF SparedByManifest
    <3>3. CASE Starting(p) /\ p \in unread[k]
      <4>1. q = p
        BY <1>3, <3>1, <3>3, ReadManifestKnows
      <4>2. HasManifest(p) /\ manifest[p].version = loaded[p]
        <5>1. manifest[p] = [version |-> loaded[p], birth |-> birth[p]]
          BY <3>3 DEF Starting
        <5>2. birth[p] \in Births /\ loaded[p] \in Versions \union {None}
          BY DEF CacheInv, TypeOK
        <5>3. QED
          BY <5>1, <5>2, NewManifest DEF HasManifest
      <4>3. loaded[p] \in referenced'[k]
        BY <3>1, <4>1, <4>2, ReadManifestKnows
      <4>4. QED
        BY <1>3, <4>3 DEF SparedByManifest
    <3>4. QED
      BY <1>0, <1>3, <2>2, <3>2, <3>3 DEF PruneSpares, At
  <2>3. QED
    BY <1>3, <2>1, <2>2, PrunerSince
<1>4. CASE p \notin unread'[k] /\ ~(alive[p] /\ served[p] /\ loaded'[p] = loaded[p])
  BY <1>4, JustStarted, ManifestSpared DEF SparedByManifest
<1>5. QED
  BY <1>2, <1>3, <1>4

\* So does one that reads leases.
LEMMA SparedWhileLeases ==
  ASSUME CacheInv, [Next]_vars, ~raced', NEW k \in Commands, NEW p \in Pids,
         pc'[k] = "leases", alive'[p], served'[p]
  PROVE  SparedByLease(k, p)'
<1>0. /\ PruneSpares
      /\ birth \in [Pids -> Births]
      /\ unread \in [Commands -> SUBSET (Pids \union Processes)]
  BY RaceLasts DEF CacheInv, TypeOK
<1>1. <<p, birth[p]>> \in Processes
  BY <1>0 DEF Processes
<1>2. CASE alive[p] /\ served[p] /\ loaded'[p] = loaded[p]
  <2>0. birth'[p] = birth[p] /\ (Leased(p) => Leased(p)')
    BY <1>2, LeaseLasts
  <2>1. CASE AllManifestsRead(k)
    <3>1. loaded[p] \in referenced[k] \/ Leased(p)
      BY <1>0, <1>2, <2>1 DEF AllManifestsRead, PruneSpares, At
    <3>2. referenced'[k] = referenced[k] /\ unread'[k] = Processes
      BY <1>0, <2>1 DEF AllManifestsRead
    <3>3. QED
      BY <1>1, <1>2, <2>0, <3>1, <3>2 DEF SparedByLease
  <2>2. CASE pc[k] = "leases" /\ unread'[k] = unread[k] /\ referenced'[k] = referenced[k]
    <3>1. loaded[p] \in referenced[k] \/ (Leased(p) /\ <<p, birth[p]>> \in unread[k])
      BY <1>0, <1>2, <2>2 DEF PruneSpares, At
    <3>2. QED
      BY <1>2, <2>0, <2>2, <3>1 DEF SparedByLease
  <2>3. CASE pc[k] = "leases" /\ \E q \in Processes : ReadLease(k, q)
    <3>1. PICK q \in Processes : ReadLease(k, q)
      BY <2>3
    <3>2. CASE loaded[p] \in referenced[k]
      BY <1>2, <3>1, <3>2, ReadLeaseKnows DEF SparedByLease
    <3>3. CASE Leased(p) /\ <<p, birth[p]>> \in unread[k] \ {q}
      BY <1>2, <2>0, <3>1, <3>3, ReadLeaseKnows DEF SparedByLease
    <3>4. CASE Leased(p) /\ q = <<p, birth[p]>>
      <4>1. Runs(q) /\ loaded[p] \in Held(q)
        BY <1>2, <3>4 DEF Runs, Held, Leased
      <4>2. QED
        BY <1>2, <3>1, <4>1, ReadLeaseKnows DEF SparedByLease
    <3>5. QED
      BY <1>0, <1>2, <2>3, <3>2, <3>3, <3>4 DEF PruneSpares, At
  <2>4. QED
    BY <2>1, <2>2, <2>3, PrunerSince
<1>3. CASE ~(alive[p] /\ served[p] /\ loaded'[p] = loaded[p])
  BY <1>3, JustStarted, ManifestSpared DEF SparedByLease
<1>4. QED
  BY <1>2, <1>3

\* So do one that has read them and one that unlinks.
LEMMA SparedAfterwards ==
  ASSUME CacheInv, [Next]_vars, ~raced', NEW k \in Commands, NEW p \in Pids,
         alive'[p], served'[p]
  PROVE  /\ pc'[k] = "archives" => loaded'[p] \in referenced'[k]
         /\ pc'[k] = "unlink" => loaded'[p] \notin doomed'[k]
<1>0. PruneSpares
  BY RaceLasts DEF CacheInv
<1>1. CASE alive[p] /\ served[p] /\ loaded'[p] = loaded[p]
  <2>1. ASSUME pc'[k] = "archives" PROVE loaded'[p] \in referenced'[k]
    <3>1. CASE AllLeasesRead(k)
      BY <1>0, <1>1, <3>1 DEF AllLeasesRead, KeepsPrune, PruneSpares, At
    <3>2. CASE pc[k] = "archives" /\ referenced'[k] = referenced[k]
      BY <1>0, <1>1, <3>2 DEF PruneSpares, At
    <3>3. QED
      BY <2>1, <3>1, <3>2, PrunerSince
  <2>2. ASSUME pc'[k] = "unlink" PROVE loaded'[p] \notin doomed'[k]
    <3>1. CASE ListArchives(k)
      <4>1. doomed'[k] = archives \ referenced[k]
        BY <3>1 DEF ListArchives, CacheInv, TypeOK
      <4>2. QED
        BY <1>0, <1>1, <3>1, <4>1 DEF ListArchives, PruneSpares, At
    <3>2. CASE pc[k] = "unlink" /\ doomed'[k] \subseteq doomed[k]
      BY <1>0, <1>1, <3>2 DEF PruneSpares, At
    <3>3. QED
      BY <2>2, <3>1, <3>2, PrunerSince
  <2>3. QED
    BY <2>1, <2>2
<1>2. CASE ~(alive[p] /\ served[p] /\ loaded'[p] = loaded[p])
  BY <1>2, JustStarted, ManifestSpared
<1>3. QED
  BY <1>1, <1>2

\* A prune goes on sparing what is needed.
LEMMA PruneStep ==
  ASSUME CacheInv, [Next]_vars, ~raced'
  PROVE  PruneSpares'
<1> SUFFICES ASSUME NEW k \in Commands, NEW p \in Pids
             PROVE  /\ pc'[k] = "manifests" =>
                         /\ HasManifest(p)' => p \in unread'[k]
                                              \/ manifest'[p].version \in referenced'[k]
                         /\ alive'[p] /\ served'[p] => SparedByManifest(k, p)'
                    /\ pc'[k] = "leases" =>
                         /\ HasManifest(p)' => manifest'[p].version \in referenced'[k]
                         /\ alive'[p] /\ served'[p] => SparedByLease(k, p)'
                    /\ pc'[k] = "archives" =>
                         /\ HasManifest(p)' => manifest'[p].version \in referenced'[k]
                         /\ alive'[p] /\ served'[p] => loaded'[p] \in referenced'[k]
                    /\ pc'[k] = "unlink" =>
                         /\ HasManifest(p)' => manifest'[p].version \notin doomed'[k]
                         /\ alive'[p] /\ served'[p] => loaded'[p] \notin doomed'[k]
  BY DEF PruneSpares, At, SparedByManifest, SparedByLease
<1>1. QED
  BY ManifestSpared, SparedWhileManifests, SparedWhileLeases, SparedAfterwards

\* Every step leaves the archives that are needed, or is a race.
LEMMA SourceStep ==
  ASSUME CacheInv, [Next]_vars
  PROVE  SourceStays'
<1> SUFFICES ASSUME ~raced', NEW p \in Pids
             PROVE  /\ HasManifest(p)' => manifest'[p].version \in archives'
                    /\ alive'[p] /\ served'[p] => loaded'[p] \in archives'
  BY DEF SourceStays
<1>0. /\ PruneSpares
      /\ HasManifest(p) => manifest[p].version \in archives
      /\ alive[p] /\ served[p] => loaded[p] \in archives
  BY RaceLasts DEF CacheInv, SourceStays
<1>1. CASE archives \subseteq archives'
  <2>1. HasManifest(p)' => manifest'[p].version \in archives'
    <3>1. CASE manifest'[p] = manifest[p] \/ manifest'[p] = Fresh
      BY <1>0, <1>1, <3>1 DEF HasManifest
    <3>2. CASE \E j \in Commands : WriteManifest(j) /\ pid[j] = p
      BY <1>1, <3>2, WrittenIsCovered
    <3>3. QED
      BY <3>1, <3>2, ManifestSince
  <2>2. ASSUME alive'[p], served'[p]
        PROVE  loaded'[p] \in archives'
    <3>1. CASE alive[p] /\ served[p] /\ loaded'[p] = loaded[p]
      BY <1>0, <1>1, <3>1
    <3>2. CASE /\ manifest[p] = [version |-> loaded'[p], birth |-> birth[p]]
               /\ manifest[p].version \in archives
      <4>1. manifest[p].version = loaded'[p]
        BY <3>2
      <4>2. QED
        BY <1>1, <3>2, <4>1
    <3>3. QED
      BY <2>2, <3>1, <3>2, ServedSince
  <2>3. QED
    BY <2>1, <2>2
<1>2. CASE \E k \in Commands : /\ pc[k] = "unlink" /\ UNCHANGED <<target, session>>
                               /\ \E v \in doomed[k] : archives \ {v} \subseteq archives'
  <2>1. PICK k \in Commands : /\ pc[k] = "unlink" /\ UNCHANGED <<target, session>>
                              /\ \E v \in doomed[k] : archives \ {v} \subseteq archives'
    BY <1>2
  <2>2. /\ HasManifest(p) => manifest[p].version \notin doomed[k]
        /\ alive[p] /\ served[p] => loaded[p] \notin doomed[k]
    BY <1>0, <2>1 DEF PruneSpares, At
  <2>3. /\ manifest' = manifest /\ alive' = alive /\ served' = served
        /\ loaded' = loaded
    BY <2>1 DEF target, session
  <2>4. QED
    BY <1>0, <2>1, <2>2, <2>3 DEF HasManifest
<1>3. QED
  BY <1>1, <1>2, ArchivesSince

\* Every step of the archives leaves the invariant.
LEMMA CacheStepKeeps ==
  ASSUME CacheInv, [Next]_vars
  PROVE  CacheInv'
<1>1. TypeOK'
  BY TargetStep, SessionStep, FileStep, CommandStep
  DEF TypeOK, TargetTypes, SessionTypes, FileTypes, LocalTypes
<1>2. BirthsGrow'
  BY ManifestBirthStep, CommandBirthStep
  DEF BirthsGrow, ManifestsAreOld, CommandsAreOld
<1>3. raced' \/ (FilesOfOneSession' /\ StartIsAlone' /\ ServedIsCovered' /\ PruneSpares')
  BY FilesStep, AloneStep, CoveredStep, PruneStep
<1>4. QED
  BY <1>1, <1>2, <1>3, LocalsStep, QuietStep, SourceStep DEF CacheInv

\* The invariant holds when nothing has been attached.
LEMMA CacheInitKeeps ==
  ASSUME Init
  PROVE  CacheInv
<1>1. TypeOK
  BY Values, Places, BirthAssumption DEF Init, TypeOK, PC
<1>2. LocalsFit /\ BirthsGrow /\ DeadIsQuiet /\ SourceStays
  BY NoneAssumption DEF Init, LocalsFit, BirthsGrow, DeadIsQuiet, SourceStays, At,
     HasManifest, Pruning, Over
<1>3. FilesOfOneSession /\ StartIsAlone /\ PruneSpares
  BY NewManifest DEF Init, FilesOfOneSession, StartIsAlone, PruneSpares, At, HasManifest
<1>4. ServedIsCovered
  BY DEF Init, ServedIsCovered, At, HasManifest
<1>5. QED
  BY <1>1, <1>2, <1>3, <1>4 DEF CacheInv

(***************************************************************************)
(* The archives.                                                           *)
(***************************************************************************)
\* PackageCache alone has the invariant that carries SourceStays.
THEOREM CacheInvariant == Spec => []CacheInv
<1>1. Init => CacheInv
  BY CacheInitKeeps
<1>2. CacheInv /\ [Next]_vars => CacheInv'
  BY CacheStepKeeps
<1>3. QED
  BY <1>1, <1>2, PTL DEF Spec

\* A step of the model is one of the archives, one of the start-up file or
\* none.
LEMMA StepOfOne ==
  ASSUME [MCNext]_<<vars, siteVars, part>>
  PROVE  [Next]_vars /\ [Site!Next]_(Site!vars)
  BY DEF MCNext, CacheStep, SiteStep, siteVars, Site!vars

\* No order of commands takes the archive away from a session or from a
\* process that was ever monitored from it, but for the races
\* (_prune_package_cache, write_process_lease).
THEOREM ArchivesStayAlways == MCSpec => []ArchivesStay
<1>1. MCInit => CacheInv
  BY CacheInitKeeps DEF MCInit
<1>2. CacheInv /\ [MCNext]_<<vars, siteVars, part>> => CacheInv'
  BY CacheStepKeeps, StepOfOne
<1>3. CacheInv => ArchivesStay
  BY DEF ArchivesStay, CacheInv
<1>4. QED
  BY <1>1, <1>2, <1>3, PTL DEF MCSpec

(***************************************************************************)
(* The start-up file.  What is proved of SiteBootstrap holds of it here.   *)
(***************************************************************************)
SiteProofs == INSTANCE SiteBootstrapProofs WITH pc <- step

\* The instance of the proofs says the same as that of the module.
LEMMA SameInv == Site!BootstrapInv <=> SiteProofs!BootstrapInv
  BY DEF Site!BootstrapInv, SiteProofs!BootstrapInv, Site!TypeOK,
         SiteProofs!TypeOK, Site!GoesByWhatItSaw, SiteProofs!GoesByWhatItSaw,
         Site!MadeBy, SiteProofs!MadeBy, Site!SaysWhatIsSo,
         SiteProofs!SaysWhatIsSo, Site!StuckWasGivenUp,
         SiteProofs!StuckWasGivenUp, Site!Undisturbed,
         SiteProofs!Undisturbed, Site!At, SiteProofs!At, Site!Refused,
         SiteProofs!Refused, Site!Files, SiteProofs!Files, Site!Kinds,
         SiteProofs!Kinds, Site!Results, SiteProofs!Results

\* Both start alike.
LEMMA SameInit == Site!Init <=> SiteProofs!Init
  BY DEF Site!Init, SiteProofs!Init, Site!Nothing, SiteProofs!Nothing

\* Both have the same steps.
LEMMA SameNext == Site!Next <=> SiteProofs!Next
  BY DEF Site!Next, SiteProofs!Next, Site!Inspect, SiteProofs!Inspect,
         Site!NothingToDo, SiteProofs!NothingToDo, Site!Refuse,
         SiteProofs!Refuse, Site!Proceed, SiteProofs!Proceed, Site!Unlink,
         SiteProofs!Unlink, Site!UnlinkFails, SiteProofs!UnlinkFails,
         Site!Create, SiteProofs!Create, Site!CreateFails,
         SiteProofs!CreateFails, Site!Write, SiteProofs!Write,
         Site!WriteFails, SiteProofs!WriteFails, Site!Undo, SiteProofs!Undo,
         Site!UndoFails, SiteProofs!UndoFails, Site!Interrupt,
         SiteProofs!Interrupt, Site!GivesUp, SiteProofs!GivesUp,
         Site!Crash, SiteProofs!Crash, Site!WriteForeign,
         SiteProofs!WriteForeign, Site!Edit, SiteProofs!Edit, Site!At,
         SiteProofs!At, Site!Goto, SiteProofs!Goto, Site!Ends,
         SiteProofs!Ends, Site!Put, SiteProofs!Put, Site!Nothing,
         SiteProofs!Nothing, Site!Partial, SiteProofs!Partial, Site!Refused,
         SiteProofs!Refused, Site!Free, SiteProofs!Free, Site!Writes,
         SiteProofs!Writes

\* Both assume the same of the constants.
LEMMA SameAssumption == SiteProofs!ConstantsAssumption
  BY SiteAssumption DEF Site!ConstantsAssumption, SiteProofs!ConstantsAssumption

\* A step of the model is one that SiteBootstrapProofs speaks of.
LEMMA SiteStepOfOne ==
  [MCNext]_<<vars, siteVars, part>> => [SiteProofs!Next]_(SiteProofs!vars)
  BY StepOfOne, SameNext DEF Site!vars, SiteProofs!vars

\* The invariant of the start-up file holds at first.
LEMMA SiteInit == Site!Init => Site!BootstrapInv
  BY SameInv, SameInit, SameAssumption, SiteProofs!InitInv

\* Every step of the model leaves the invariant of the start-up file.
LEMMA SiteStepKeeps ==
  Site!BootstrapInv /\ [MCNext]_<<vars, siteVars, part>> => Site!BootstrapInv'
<1>1. [MCNext]_<<vars, siteVars, part>> => [SiteProofs!Next]_(SiteProofs!vars)
  BY SiteStepOfOne
<1>2. SiteProofs!BootstrapInv /\ [SiteProofs!Next]_(SiteProofs!vars)
        => SiteProofs!BootstrapInv'
  BY SameAssumption, SiteProofs!InvStep
<1>3. Site!BootstrapInv' <=> SiteProofs!BootstrapInv'
  BY SameInv, PTL
<1>4. QED
  BY <1>1, <1>2, <1>3, SameInv

\* What the commands of the start-up file say they did is so, if nobody else
\* changed the path meanwhile (install and remove of site_bootstrap.py).
THEOREM SaysWhatIsSoAlways == MCSpec => []SaysWhatIsSo
<1>1. MCInit => Site!BootstrapInv
  BY SiteInit DEF MCInit
<1>2. Site!BootstrapInv => SaysWhatIsSo
  BY DEF SaysWhatIsSo, Site!BootstrapInv
<1>3. QED
  BY <1>1, <1>2, SiteStepKeeps, PTL DEF MCSpec

\* A file that neither install nor remove will touch, though no other tool
\* wrote it, is left only by a command that crashed, was interrupted or could
\* not undo what it wrote (install, "except BaseException").
THEOREM StuckWasGivenUpAlways == MCSpec => []StuckWasGivenUp
<1>1. MCInit => Site!BootstrapInv
  BY SiteInit DEF MCInit
<1>2. Site!BootstrapInv => StuckWasGivenUp
  BY DEF StuckWasGivenUp, Site!BootstrapInv
<1>3. QED
  BY <1>1, <1>2, SiteStepKeeps, PTL DEF MCSpec

\* A command makes away with another tool's file only if that came after it
\* had inspected the path (install and remove of site_bootstrap.py).
THEOREM ForeignFileStaysAlways == MCSpec => ForeignFileStays
<1> DEFINE Stays == \A k \in Commands :
             file.kind = "foreign" /\ step'[k] # step[k] /\ file' # file
               => disturbed[k]
<1>1. MCInit => Site!BootstrapInv
  BY SiteInit DEF MCInit
<1>2. Site!BootstrapInv /\ [MCNext]_<<vars, siteVars, part>> => [Stays]_(Site!vars)
  <2>1. [MCNext]_<<vars, siteVars, part>> => [SiteProofs!Next]_(SiteProofs!vars)
    BY SiteStepOfOne
  <2>2. ASSUME SiteProofs!BootstrapInv, [SiteProofs!Next]_(SiteProofs!vars)
        PROVE  Stays
    BY <2>2, SameAssumption, SiteProofs!ForeignStep
  <2>3. QED
    BY <2>1, <2>2, SameInv
<1>3. QED
  BY <1>1, <1>2, SiteStepKeeps, PTL DEF MCSpec, ForeignFileStays, Site!ForeignFileStays
=============================================================================
