--------------------------- MODULE AttachmentProofs ---------------------------
(***************************************************************************)
(* Proofs about Attachment, for any number of commands, of processes with  *)
(* the id and of sessions.  AttachmentInv is inductive.  Its types hold    *)
(* always, the rest until a stop has begun while another command was at    *)
(* work (raced; the README names what fails then), and of that SessionFits *)
(* and OwnReport only until a start script has gone to a later process of  *)
(* the id (stray).                                                         *)
(***************************************************************************)
EXTENDS Attachment, TLAPS

\* What the named values are.
LEMMA Values ==
  /\ None = 0 /\ NoStatus.state = "none" /\ NoControl.state = "none"
  /\ NoControl.delivered = FALSE
  /\ Sessions \subseteq Nat \ {0} /\ None \notin Sessions
  /\ Births \subseteq Nat \ {0} /\ 1 \in Births
  BY BoundAssumption DEF None, NoStatus, NoControl, NoFile, Sessions, Births

\* The two kinds of status file.
Statuses == [state : {NoFile, "active", "complete", "failed"},
             birth : Births \union {None}]
Controls == [state : Unfinished \union {NoFile, "terminal"}, delivered : BOOLEAN]

\* Every status that is written is one of them.
LEMMA RecordTypes ==
  /\ NoStatus \in Statuses /\ NoControl \in Controls
  /\ \A s \in {"active", "complete", "failed"}, b \in Births :
       [state |-> s, birth |-> b] \in Statuses
  /\ \A s \in Unfinished \union {"terminal"}, d \in BOOLEAN :
       [state |-> s, delivered |-> d] \in Controls
  BY DEF Statuses, Controls, NoStatus, NoControl

\* The places a command goes to are places.
LEMMA Places ==
  /\ {"idle", "reserve", "prepare", "scripts", "pending", "startExec",
      "waitStart", "acknowledge", "startFailed", "decide"} \subseteq PC
  /\ {"stopWrite", "stopExec", "waitStop", "terminal", "deliver", "note",
      "finish", "remove", "discard", "cleanUp", "handler", "unclaimed",
      "removeAgain"} \subseteq PC
  BY DEF PC

\* The types, by what they are types of.
TargetTypes ==
  /\ birth \in Births /\ alive \in BOOLEAN
  /\ slot \in {NoFile, "start", "stop"}
  /\ agent \in Sessions \union {None} /\ monitoring \in BOOLEAN
FileTypes ==
  /\ directory \in BOOLEAN /\ scripts \in BOOLEAN
  /\ manifest \in Sessions \union {None}
  /\ status \in Statuses /\ control \in Controls
  /\ artifact \in Sessions \union {None}
LocalTypes ==
  /\ pc \in [Controllers -> PC]
  /\ expected \in [Controllers -> Births \union {None}]
  /\ stopping \in [Controllers -> BOOLEAN]
  /\ seen \in [Controllers -> Sessions \union {None}]
HistoryTypes ==
  /\ sessions \in 0..MaxSessions
  /\ bound \in [Sessions -> Births \union {None}]
  /\ stops \in [Sessions -> Nat]
  /\ received \subseteq Sessions \X Sessions
  /\ stray \in BOOLEAN /\ raced \in BOOLEAN /\ broken \in BOOLEAN

\* Every step leaves the types of the target.
LEMMA TargetStep ==
  ASSUME AttachmentInv, [Next]_vars
  PROVE  TargetTypes'
<1>0. birth \in Births
      /\ alive \in BOOLEAN
      /\ slot \in {NoFile, "start", "stop"}
      /\ agent \in Sessions \union {None}
      /\ monitoring \in BOOLEAN
      /\ manifest \in Sessions \union {None}
  BY Values, BoundAssumption
  DEF AttachmentInv, TypeOK, Statuses, Controls
<1> USE <1>0 DEF TargetTypes, Births, NoFile, None, At, Enter, Forget, Goto, Raised, Move,
        WriteControl, WriteStatus, target, files, locals, history
<1>1. CASE UNCHANGED vars
  BY <1>1 DEF vars
<1>2. CASE RunStart
  BY <1>2 DEF RunStart, MayInstall, WriteNothing
<1>3. CASE RunStop
  BY <1>3 DEF RunStop, Finalize, WriteNothing
<1>4. CASE Application
  BY <1>4 DEF Application
<1>5. CASE RecoverAtExit
  BY <1>5 DEF RecoverAtExit, Finalize, WriteNothing
<1>6. CASE Die
  BY <1>6 DEF Die
<1>7. CASE Reuse
  BY <1>7, BoundAssumption DEF Reuse
<1>8. ASSUME NEW k \in Controllers, AttachBegin(k) PROVE TargetTypes'
  BY <1>8 DEF AttachBegin
<1>9. ASSUME NEW k \in Controllers, StopBegin(k) PROVE TargetTypes'
  BY <1>9 DEF StopBegin, Readable
<1>10. ASSUME NEW k \in Controllers, DiscardBegin(k) PROVE TargetTypes'
  BY <1>10 DEF DiscardBegin, Readable, MayDiscard
<1>11. ASSUME NEW k \in Controllers, Reserve(k) PROVE TargetTypes'
  BY <1>11 DEF Reserve
<1>12. ASSUME NEW k \in Controllers, PrepareFails(k) PROVE TargetTypes'
  BY <1>12 DEF PrepareFails, RemoveFiles
<1>13. ASSUME NEW k \in Controllers, WriteManifest(k) PROVE TargetTypes'
  BY <1>13 DEF WriteManifest
<1>14. ASSUME NEW k \in Controllers, WriteScripts(k) PROVE TargetTypes'
  BY <1>14 DEF WriteScripts
<1>15. ASSUME NEW k \in Controllers, WritePending(k) PROVE TargetTypes'
  BY <1>15 DEF WritePending
<1>16. ASSUME NEW k \in Controllers, StartExec(k) PROVE TargetTypes'
  BY <1>16 DEF StartExec
<1>17. ASSUME NEW k \in Controllers, StartExecFails(k) PROVE TargetTypes'
  BY <1>17 DEF StartExecFails
<1>18. ASSUME NEW k \in Controllers, ObserveStart(k) PROVE TargetTypes'
  BY <1>18 DEF ObserveStart
<1>19. ASSUME NEW k \in Controllers, Acknowledge(k) PROVE TargetTypes'
  BY <1>19 DEF Acknowledge
<1>20. ASSUME NEW k \in Controllers, StartEnded(k) PROVE TargetTypes'
  BY <1>20 DEF StartEnded
<1>21. ASSUME NEW k \in Controllers, Timeout(k) PROVE TargetTypes'
  BY <1>21 DEF Timeout
<1>22. ASSUME NEW k \in Controllers, Decide(k) PROVE TargetTypes'
  BY <1>22 DEF Decide, Here
<1>23. ASSUME NEW k \in Controllers, StopWrite(k) PROVE TargetTypes'
  BY <1>23 DEF StopWrite
<1>24. ASSUME NEW k \in Controllers, StopExec(k) PROVE TargetTypes'
  BY <1>24 DEF StopExec
<1>25. ASSUME NEW k \in Controllers, StopExecFails(k) PROVE TargetTypes'
  BY <1>25 DEF StopExecFails
<1>26. ASSUME NEW k \in Controllers, ObserveStop(k) PROVE TargetTypes'
  BY <1>26 DEF ObserveStop, Here
<1>27. ASSUME NEW k \in Controllers, WriteTerminal(k) PROVE TargetTypes'
  BY <1>27 DEF WriteTerminal
<1>28. ASSUME NEW k \in Controllers, Deliver(k) PROVE TargetTypes'
  BY <1>28 DEF Deliver
<1>29. ASSUME NEW k \in Controllers, DeliverFails(k) PROVE TargetTypes'
  BY <1>29 DEF DeliverFails
<1>30. ASSUME NEW k \in Controllers, NoteDelivered(k) PROVE TargetTypes'
  BY <1>30 DEF NoteDelivered
<1>31. ASSUME NEW k \in Controllers, Finish(k) PROVE TargetTypes'
  BY <1>31 DEF Finish
<1>32. ASSUME NEW k \in Controllers, Remove(k) PROVE TargetTypes'
  BY <1>32 DEF Remove, RemoveFiles
<1>33. ASSUME NEW k \in Controllers, Crash(k) PROVE TargetTypes'
  BY <1>33 DEF Crash
<1>34. ASSUME NEW k \in Controllers, FindDirectory(k) PROVE TargetTypes'
  BY <1>34 DEF FindDirectory
<1>35. ASSUME NEW k \in Controllers, FindNoManifest(k) PROVE TargetTypes'
  BY <1>35 DEF FindNoManifest
<1>36. ASSUME NEW k \in Controllers, RemoveAgain(k) PROVE TargetTypes'
  BY <1>36 DEF RemoveAgain, RemoveFiles
<1> QED
  BY <1>1, <1>2, <1>3, <1>4, <1>5, <1>6, <1>7, <1>8, <1>9, <1>10,
     <1>11, <1>12, <1>13, <1>14, <1>15, <1>16, <1>17, <1>18, <1>19, <1>20,
     <1>21, <1>22, <1>23, <1>24, <1>25, <1>26, <1>27, <1>28, <1>29, <1>30,
     <1>31, <1>32, <1>33, <1>34, <1>35, <1>36
  DEF Next, Target, Continue

\* Every step leaves the types of the files.
LEMMA FileTypesStep ==
  ASSUME AttachmentInv, [Next]_vars
  PROVE  FileTypes'
<1>0. control.delivered \in BOOLEAN
      /\ birth \in Births
      /\ agent \in Sessions \union {None}
      /\ directory \in BOOLEAN
      /\ scripts \in BOOLEAN
      /\ manifest \in Sessions \union {None}
      /\ status \in Statuses
      /\ control \in Controls
      /\ artifact \in Sessions \union {None}
      /\ sessions \in 0..MaxSessions
  BY Values, BoundAssumption
  DEF AttachmentInv, TypeOK, Statuses, Controls
<1> USE <1>0 DEF FileTypes, NoFile, Unfinished, None, At, Enter, Forget, Goto, Raised, Move,
        WriteControl, WriteStatus, target, files, locals, history
<1>1. CASE UNCHANGED vars
  BY <1>1 DEF vars
<1>2. CASE RunStart
  <2>1. UNCHANGED <<scripts, manifest, control>>
    BY <1>2 DEF RunStart, MayInstall, WriteNothing
  <2>2. CASE UNCHANGED <<directory, status>>
    BY <1>2, <2>1, <2>2 DEF RunStart, MayInstall, WriteNothing
  <2>3. ASSUME NEW s \in {"active", "complete", "failed"}, WriteStatus(s)
        PROVE  directory' \in BOOLEAN /\ status' \in Statuses
    BY <2>3, RecordTypes
  <2>4. artifact' \in Sessions \union {None}
    BY <1>2 DEF RunStart, MayInstall, WriteNothing
  <2>5. QED
    BY <1>2, <2>1, <2>2, <2>3, <2>4 DEF RunStart, MayInstall, WriteNothing, Statuses
<1>3. CASE RunStop
  <2>1. UNCHANGED <<scripts, manifest, control>>
    BY <1>3 DEF RunStop, Finalize, WriteNothing
  <2>2. CASE UNCHANGED <<directory, status>>
    BY <1>3, <2>1, <2>2 DEF RunStop, Finalize, WriteNothing
  <2>3. ASSUME NEW s \in {"active", "complete", "failed"}, WriteStatus(s)
        PROVE  directory' \in BOOLEAN /\ status' \in Statuses
    BY <2>3, RecordTypes
  <2>4. artifact' \in Sessions \union {None}
    BY <1>3 DEF RunStop, Finalize, WriteNothing
  <2>5. QED
    BY <1>3, <2>1, <2>2, <2>3, <2>4 DEF RunStop, Finalize, WriteNothing, Statuses
<1>4. CASE Application
  BY <1>4, RecordTypes DEF Application
<1>5. CASE RecoverAtExit
  <2>1. UNCHANGED <<scripts, manifest, control>>
    BY <1>5 DEF RecoverAtExit, Finalize, WriteNothing
  <2>2. CASE UNCHANGED <<directory, status>>
    BY <1>5, <2>1, <2>2 DEF RecoverAtExit, Finalize, WriteNothing
  <2>3. ASSUME NEW s \in {"active", "complete", "failed"}, WriteStatus(s)
        PROVE  directory' \in BOOLEAN /\ status' \in Statuses
    BY <2>3, RecordTypes
  <2>4. artifact' \in Sessions \union {None}
    BY <1>5 DEF RecoverAtExit, Finalize, WriteNothing
  <2>5. QED
    BY <1>5, <2>1, <2>2, <2>3, <2>4 DEF RecoverAtExit, Finalize, WriteNothing, Statuses
<1>6. CASE Die
  BY <1>6, RecordTypes DEF Die
<1>7. CASE Reuse
  BY <1>7, RecordTypes DEF Reuse
<1>8. ASSUME NEW k \in Controllers, AttachBegin(k) PROVE FileTypes'
  BY <1>8, RecordTypes DEF AttachBegin
<1>9. ASSUME NEW k \in Controllers, StopBegin(k) PROVE FileTypes'
  BY <1>9, RecordTypes DEF StopBegin, Readable
<1>10. ASSUME NEW k \in Controllers, DiscardBegin(k) PROVE FileTypes'
  BY <1>10, RecordTypes DEF DiscardBegin, Readable, MayDiscard
<1>11. ASSUME NEW k \in Controllers, Reserve(k) PROVE FileTypes'
  BY <1>11, RecordTypes DEF Reserve
<1>12. ASSUME NEW k \in Controllers, PrepareFails(k) PROVE FileTypes'
  BY <1>12, RecordTypes DEF PrepareFails, RemoveFiles
<1>13. ASSUME NEW k \in Controllers, WriteManifest(k) PROVE FileTypes'
  <2>1. CASE manifest = None
    <3>1. manifest' = sessions + 1 /\ directory' = TRUE /\ sessions < MaxSessions
      BY <1>13, <2>1 DEF WriteManifest
    <3>2. manifest' \in Sessions
      BY <3>1, BoundAssumption DEF Sessions
    <3>3. QED
      BY <1>13, <3>1, <3>2 DEF WriteManifest
  <2>2. CASE manifest # None
    BY <1>13, <2>2 DEF WriteManifest
  <2>3. QED
    BY <2>1, <2>2
<1>14. ASSUME NEW k \in Controllers, WriteScripts(k) PROVE FileTypes'
  BY <1>14, RecordTypes DEF WriteScripts
<1>15. ASSUME NEW k \in Controllers, WritePending(k) PROVE FileTypes'
  BY <1>15, RecordTypes DEF WritePending
<1>16. ASSUME NEW k \in Controllers, StartExec(k) PROVE FileTypes'
  BY <1>16, RecordTypes DEF StartExec
<1>17. ASSUME NEW k \in Controllers, StartExecFails(k) PROVE FileTypes'
  BY <1>17, RecordTypes DEF StartExecFails
<1>18. ASSUME NEW k \in Controllers, ObserveStart(k) PROVE FileTypes'
  BY <1>18, RecordTypes DEF ObserveStart
<1>19. ASSUME NEW k \in Controllers, Acknowledge(k) PROVE FileTypes'
  BY <1>19, RecordTypes DEF Acknowledge
<1>20. ASSUME NEW k \in Controllers, StartEnded(k) PROVE FileTypes'
  BY <1>20, RecordTypes DEF StartEnded
<1>21. ASSUME NEW k \in Controllers, Timeout(k) PROVE FileTypes'
  BY <1>21, RecordTypes DEF Timeout
<1>22. ASSUME NEW k \in Controllers, Decide(k) PROVE FileTypes'
  BY <1>22, RecordTypes DEF Decide, Here
<1>23. ASSUME NEW k \in Controllers, StopWrite(k) PROVE FileTypes'
  BY <1>23, RecordTypes DEF StopWrite
<1>24. ASSUME NEW k \in Controllers, StopExec(k) PROVE FileTypes'
  BY <1>24, RecordTypes DEF StopExec
<1>25. ASSUME NEW k \in Controllers, StopExecFails(k) PROVE FileTypes'
  BY <1>25, RecordTypes DEF StopExecFails
<1>26. ASSUME NEW k \in Controllers, ObserveStop(k) PROVE FileTypes'
  BY <1>26, RecordTypes DEF ObserveStop, Here
<1>27. ASSUME NEW k \in Controllers, WriteTerminal(k) PROVE FileTypes'
  BY <1>27, RecordTypes DEF WriteTerminal
<1>28. ASSUME NEW k \in Controllers, Deliver(k) PROVE FileTypes'
  BY <1>28, RecordTypes DEF Deliver
<1>29. ASSUME NEW k \in Controllers, DeliverFails(k) PROVE FileTypes'
  BY <1>29, RecordTypes DEF DeliverFails
<1>30. ASSUME NEW k \in Controllers, NoteDelivered(k) PROVE FileTypes'
  BY <1>30, RecordTypes DEF NoteDelivered
<1>31. ASSUME NEW k \in Controllers, Finish(k) PROVE FileTypes'
  BY <1>31, RecordTypes DEF Finish
<1>32. ASSUME NEW k \in Controllers, Remove(k) PROVE FileTypes'
  BY <1>32, RecordTypes DEF Remove, RemoveFiles
<1>33. ASSUME NEW k \in Controllers, Crash(k) PROVE FileTypes'
  BY <1>33, RecordTypes DEF Crash
<1>34. ASSUME NEW k \in Controllers, FindDirectory(k) PROVE FileTypes'
  BY <1>34, RecordTypes DEF FindDirectory
<1>35. ASSUME NEW k \in Controllers, FindNoManifest(k) PROVE FileTypes'
  BY <1>35, RecordTypes DEF FindNoManifest
<1>36. ASSUME NEW k \in Controllers, RemoveAgain(k) PROVE FileTypes'
  BY <1>36, RecordTypes DEF RemoveAgain, RemoveFiles
<1> QED
  BY <1>1, <1>2, <1>3, <1>4, <1>5, <1>6, <1>7, <1>8, <1>9, <1>10,
     <1>11, <1>12, <1>13, <1>14, <1>15, <1>16, <1>17, <1>18, <1>19, <1>20,
     <1>21, <1>22, <1>23, <1>24, <1>25, <1>26, <1>27, <1>28, <1>29, <1>30,
     <1>31, <1>32, <1>33, <1>34, <1>35, <1>36
  DEF Next, Target, Continue

\* Every step leaves the types of the locals.
LEMMA LocalTypesStep ==
  ASSUME AttachmentInv, [Next]_vars
  PROVE  LocalTypes'
<1>0. birth \in Births
      /\ manifest \in Sessions \union {None}
      /\ pc \in [Controllers -> PC]
      /\ expected \in [Controllers -> Births \union {None}]
      /\ stopping \in [Controllers -> BOOLEAN]
      /\ seen \in [Controllers -> Sessions \union {None}]
      /\ sessions \in 0..MaxSessions
      /\ bound \in [Sessions -> Births \union {None}]
  BY Values, BoundAssumption
  DEF AttachmentInv, TypeOK, Statuses, Controls
<1> USE <1>0 DEF LocalTypes, None, At, Enter, Forget, Goto, Raised, Move, WriteControl, WriteStatus,
        target, files, locals, history
<1>1. CASE UNCHANGED vars
  BY <1>1 DEF vars
<1>2. CASE RunStart
  BY <1>2, Places DEF RunStart, MayInstall, WriteNothing
<1>3. CASE RunStop
  BY <1>3, Places DEF RunStop, Finalize, WriteNothing
<1>4. CASE Application
  BY <1>4, Places DEF Application
<1>5. CASE RecoverAtExit
  BY <1>5, Places DEF RecoverAtExit, Finalize, WriteNothing
<1>6. CASE Die
  BY <1>6, Places DEF Die
<1>7. CASE Reuse
  BY <1>7, Places DEF Reuse
<1>8. ASSUME NEW k \in Controllers, AttachBegin(k) PROVE LocalTypes'
  BY <1>8, Places DEF AttachBegin
<1>9. ASSUME NEW k \in Controllers, StopBegin(k) PROVE LocalTypes'
  <2>1. manifest \in Sessions /\ bound[manifest] \in Births \union {None}
    BY <1>9 DEF StopBegin, Readable
  <2>2. QED
    BY <1>9, <2>1, Places DEF StopBegin
<1>10. ASSUME NEW k \in Controllers, DiscardBegin(k) PROVE LocalTypes'
  BY <1>10, Places DEF DiscardBegin, Readable, MayDiscard
<1>11. ASSUME NEW k \in Controllers, Reserve(k) PROVE LocalTypes'
  BY <1>11, Places DEF Reserve
<1>12. ASSUME NEW k \in Controllers, PrepareFails(k) PROVE LocalTypes'
  BY <1>12, Places DEF PrepareFails, RemoveFiles
<1>13. ASSUME NEW k \in Controllers, WriteManifest(k) PROVE LocalTypes'
  <2>1. CASE manifest = None
    <3>1. seen' = [seen EXCEPT ![k] = sessions + 1] /\ sessions < MaxSessions
      BY <1>13, <2>1 DEF WriteManifest
    <3>2. sessions + 1 \in Sessions
      BY <3>1, BoundAssumption DEF Sessions
    <3>3. pc' = [pc EXCEPT ![k] = "scripts"] /\ UNCHANGED <<expected, stopping>>
      BY <1>13, <2>1 DEF WriteManifest
    <3>4. QED
      BY <3>1, <3>2, <3>3, Places
  <2>2. CASE manifest # None
    BY <1>13, <2>2, Places DEF WriteManifest
  <2>3. QED
    BY <2>1, <2>2
<1>14. ASSUME NEW k \in Controllers, WriteScripts(k) PROVE LocalTypes'
  BY <1>14, Places DEF WriteScripts
<1>15. ASSUME NEW k \in Controllers, WritePending(k) PROVE LocalTypes'
  BY <1>15, Places DEF WritePending
<1>16. ASSUME NEW k \in Controllers, StartExec(k) PROVE LocalTypes'
  BY <1>16, Places DEF StartExec
<1>17. ASSUME NEW k \in Controllers, StartExecFails(k) PROVE LocalTypes'
  BY <1>17, Places DEF StartExecFails
<1>18. ASSUME NEW k \in Controllers, ObserveStart(k) PROVE LocalTypes'
  BY <1>18, Places DEF ObserveStart
<1>19. ASSUME NEW k \in Controllers, Acknowledge(k) PROVE LocalTypes'
  BY <1>19, Places DEF Acknowledge
<1>20. ASSUME NEW k \in Controllers, StartEnded(k) PROVE LocalTypes'
  BY <1>20, Places DEF StartEnded
<1>21. ASSUME NEW k \in Controllers, Timeout(k) PROVE LocalTypes'
  BY <1>21, Places DEF Timeout
<1>22. ASSUME NEW k \in Controllers, Decide(k) PROVE LocalTypes'
  BY <1>22, Places DEF Decide, Here
<1>23. ASSUME NEW k \in Controllers, StopWrite(k) PROVE LocalTypes'
  BY <1>23, Places DEF StopWrite
<1>24. ASSUME NEW k \in Controllers, StopExec(k) PROVE LocalTypes'
  BY <1>24, Places DEF StopExec
<1>25. ASSUME NEW k \in Controllers, StopExecFails(k) PROVE LocalTypes'
  BY <1>25, Places DEF StopExecFails
<1>26. ASSUME NEW k \in Controllers, ObserveStop(k) PROVE LocalTypes'
  BY <1>26, Places DEF ObserveStop, Here
<1>27. ASSUME NEW k \in Controllers, WriteTerminal(k) PROVE LocalTypes'
  BY <1>27, Places DEF WriteTerminal
<1>28. ASSUME NEW k \in Controllers, Deliver(k) PROVE LocalTypes'
  BY <1>28, Places DEF Deliver
<1>29. ASSUME NEW k \in Controllers, DeliverFails(k) PROVE LocalTypes'
  BY <1>29, Places DEF DeliverFails
<1>30. ASSUME NEW k \in Controllers, NoteDelivered(k) PROVE LocalTypes'
  BY <1>30, Places DEF NoteDelivered
<1>31. ASSUME NEW k \in Controllers, Finish(k) PROVE LocalTypes'
  BY <1>31, Places DEF Finish
<1>32. ASSUME NEW k \in Controllers, Remove(k) PROVE LocalTypes'
  BY <1>32, Places DEF Remove, RemoveFiles
<1>33. ASSUME NEW k \in Controllers, Crash(k) PROVE LocalTypes'
  BY <1>33, Places DEF Crash
<1>34. ASSUME NEW k \in Controllers, FindDirectory(k) PROVE LocalTypes'
  BY <1>34, Places DEF FindDirectory
<1>35. ASSUME NEW k \in Controllers, FindNoManifest(k) PROVE LocalTypes'
  BY <1>35, Places DEF FindNoManifest
<1>36. ASSUME NEW k \in Controllers, RemoveAgain(k) PROVE LocalTypes'
  BY <1>36, Places DEF RemoveAgain, RemoveFiles
<1> QED
  BY <1>1, <1>2, <1>3, <1>4, <1>5, <1>6, <1>7, <1>8, <1>9, <1>10,
     <1>11, <1>12, <1>13, <1>14, <1>15, <1>16, <1>17, <1>18, <1>19, <1>20,
     <1>21, <1>22, <1>23, <1>24, <1>25, <1>26, <1>27, <1>28, <1>29, <1>30,
     <1>31, <1>32, <1>33, <1>34, <1>35, <1>36
  DEF Next, Target, Continue

\* Every step leaves the types of the history.
LEMMA HistoryTypesStep ==
  ASSUME AttachmentInv, [Next]_vars
  PROVE  HistoryTypes'
<1>0. HasSession
      /\ birth \in Births
      /\ manifest \in Sessions \union {None}
      /\ pc \in [Controllers -> PC]
      /\ expected \in [Controllers -> Births \union {None}]
      /\ seen \in [Controllers -> Sessions \union {None}]
      /\ artifact \in Sessions \union {None}
      /\ sessions \in 0..MaxSessions
      /\ bound \in [Sessions -> Births \union {None}]
      /\ stops \in [Sessions -> Nat]
      /\ received \subseteq Sessions \X Sessions
      /\ stray \in BOOLEAN
      /\ raced \in BOOLEAN
      /\ broken \in BOOLEAN
  BY Values, BoundAssumption
  DEF AttachmentInv, TypeOK, HasSession, Statuses, Controls
<1> USE <1>0 DEF HistoryTypes, HasSession, Race, None, At, Enter, Forget, Goto, Raised, Move,
        WriteControl, WriteStatus, target, files, locals, history
<1>1. CASE UNCHANGED vars
  BY <1>1 DEF vars
<1>2. CASE RunStart
  BY <1>2 DEF RunStart, MayInstall, WriteNothing
<1>3. CASE RunStop
  BY <1>3 DEF RunStop, Finalize, WriteNothing
<1>4. CASE Application
  BY <1>4 DEF Application
<1>5. CASE RecoverAtExit
  BY <1>5 DEF RecoverAtExit, Finalize, WriteNothing
<1>6. CASE Die
  BY <1>6 DEF Die
<1>7. CASE Reuse
  BY <1>7 DEF Reuse
<1>8. ASSUME NEW k \in Controllers, AttachBegin(k) PROVE HistoryTypes'
  BY <1>8 DEF AttachBegin
<1>9. ASSUME NEW k \in Controllers, StopBegin(k) PROVE HistoryTypes'
  BY <1>9 DEF StopBegin, Readable
<1>10. ASSUME NEW k \in Controllers, DiscardBegin(k) PROVE HistoryTypes'
  BY <1>10 DEF DiscardBegin, Readable, MayDiscard
<1>11. ASSUME NEW k \in Controllers, Reserve(k) PROVE HistoryTypes'
  BY <1>11 DEF Reserve
<1>12. ASSUME NEW k \in Controllers, PrepareFails(k) PROVE HistoryTypes'
  BY <1>12 DEF PrepareFails, RemoveFiles
<1>13. ASSUME NEW k \in Controllers, WriteManifest(k) PROVE HistoryTypes'
  <2>1. CASE manifest = None
    <3>1. /\ sessions' = sessions + 1 /\ sessions < MaxSessions
          /\ bound' = [bound EXCEPT ![sessions + 1] = expected[k]]
          /\ UNCHANGED <<stops, received, stray, raced, broken>>
      BY <1>13, <2>1 DEF WriteManifest
    <3>2. sessions' \in 0 .. MaxSessions
      BY <3>1, BoundAssumption
    <3>3. QED
      BY <3>1, <3>2
  <2>2. CASE manifest # None
    BY <1>13, <2>2 DEF WriteManifest
  <2>3. QED
    BY <2>1, <2>2
<1>14. ASSUME NEW k \in Controllers, WriteScripts(k) PROVE HistoryTypes'
  BY <1>14 DEF WriteScripts
<1>15. ASSUME NEW k \in Controllers, WritePending(k) PROVE HistoryTypes'
  BY <1>15 DEF WritePending
<1>16. ASSUME NEW k \in Controllers, StartExec(k) PROVE HistoryTypes'
  BY <1>16 DEF StartExec
<1>17. ASSUME NEW k \in Controllers, StartExecFails(k) PROVE HistoryTypes'
  BY <1>17 DEF StartExecFails
<1>18. ASSUME NEW k \in Controllers, ObserveStart(k) PROVE HistoryTypes'
  BY <1>18 DEF ObserveStart
<1>19. ASSUME NEW k \in Controllers, Acknowledge(k) PROVE HistoryTypes'
  BY <1>19 DEF Acknowledge
<1>20. ASSUME NEW k \in Controllers, StartEnded(k) PROVE HistoryTypes'
  BY <1>20 DEF StartEnded
<1>21. ASSUME NEW k \in Controllers, Timeout(k) PROVE HistoryTypes'
  BY <1>21 DEF Timeout
<1>22. ASSUME NEW k \in Controllers, Decide(k) PROVE HistoryTypes'
  BY <1>22 DEF Decide, Here
<1>23. ASSUME NEW k \in Controllers, StopWrite(k) PROVE HistoryTypes'
  BY <1>23 DEF StopWrite
<1>24. ASSUME NEW k \in Controllers, StopExec(k) PROVE HistoryTypes'
  <2>1. stops' \in [Sessions -> Nat]
    <3>1. stops' = [stops EXCEPT ![seen[k]] = @ + 1]
      BY <1>24 DEF StopExec
    <3>2. CASE seen[k] \in Sessions
      BY <3>1, <3>2
    <3>3. CASE seen[k] \notin Sessions
      BY <3>1, <3>3
    <3>4. QED
      BY <3>2, <3>3
  <2>2. QED
    BY <1>24, <2>1 DEF StopExec
<1>25. ASSUME NEW k \in Controllers, StopExecFails(k) PROVE HistoryTypes'
  BY <1>25 DEF StopExecFails
<1>26. ASSUME NEW k \in Controllers, ObserveStop(k) PROVE HistoryTypes'
  BY <1>26 DEF ObserveStop, Here
<1>27. ASSUME NEW k \in Controllers, WriteTerminal(k) PROVE HistoryTypes'
  BY <1>27 DEF WriteTerminal
<1>28. ASSUME NEW k \in Controllers, Deliver(k) PROVE HistoryTypes'
  BY <1>28 DEF Deliver
<1>29. ASSUME NEW k \in Controllers, DeliverFails(k) PROVE HistoryTypes'
  BY <1>29 DEF DeliverFails
<1>30. ASSUME NEW k \in Controllers, NoteDelivered(k) PROVE HistoryTypes'
  BY <1>30 DEF NoteDelivered
<1>31. ASSUME NEW k \in Controllers, Finish(k) PROVE HistoryTypes'
  BY <1>31 DEF Finish
<1>32. ASSUME NEW k \in Controllers, Remove(k) PROVE HistoryTypes'
  BY <1>32 DEF Remove, RemoveFiles
<1>33. ASSUME NEW k \in Controllers, Crash(k) PROVE HistoryTypes'
  BY <1>33 DEF Crash
<1>34. ASSUME NEW k \in Controllers, FindDirectory(k) PROVE HistoryTypes'
  BY <1>34 DEF FindDirectory
<1>35. ASSUME NEW k \in Controllers, FindNoManifest(k) PROVE HistoryTypes'
  BY <1>35 DEF FindNoManifest
<1>36. ASSUME NEW k \in Controllers, RemoveAgain(k) PROVE HistoryTypes'
  BY <1>36 DEF RemoveAgain, RemoveFiles
<1> QED
  BY <1>1, <1>2, <1>3, <1>4, <1>5, <1>6, <1>7, <1>8, <1>9, <1>10,
     <1>11, <1>12, <1>13, <1>14, <1>15, <1>16, <1>17, <1>18, <1>19, <1>20,
     <1>21, <1>22, <1>23, <1>24, <1>25, <1>26, <1>27, <1>28, <1>29, <1>30,
     <1>31, <1>32, <1>33, <1>34, <1>35, <1>36
  DEF Next, Target, Continue

\* A stray start script is not forgotten.
LEMMA StrayLasts ==
  ASSUME AttachmentInv, [Next]_vars, stray
  PROVE  stray'
<1>0. stray /\ stray \in BOOLEAN
  BY DEF AttachmentInv, TypeOK
<1> USE <1>0 DEF At, Enter, Forget, Goto, Raised, Move, WriteControl, WriteStatus, target, files,
        locals, history
<1>1. CASE UNCHANGED vars
  BY <1>1 DEF vars
<1>2. CASE RunStart
  BY <1>2 DEF RunStart, MayInstall, WriteNothing
<1>3. CASE RunStop
  BY <1>3 DEF RunStop, Finalize, WriteNothing
<1>4. CASE Application
  BY <1>4 DEF Application
<1>5. CASE RecoverAtExit
  BY <1>5 DEF RecoverAtExit, Finalize, WriteNothing
<1>6. CASE Die
  BY <1>6 DEF Die
<1>7. CASE Reuse
  BY <1>7 DEF Reuse
<1>8. ASSUME NEW k \in Controllers, AttachBegin(k) PROVE stray'
  BY <1>8 DEF AttachBegin
<1>9. ASSUME NEW k \in Controllers, StopBegin(k) PROVE stray'
  BY <1>9 DEF StopBegin, Readable
<1>10. ASSUME NEW k \in Controllers, DiscardBegin(k) PROVE stray'
  BY <1>10 DEF DiscardBegin, Readable, MayDiscard
<1>11. ASSUME NEW k \in Controllers, Reserve(k) PROVE stray'
  BY <1>11 DEF Reserve
<1>12. ASSUME NEW k \in Controllers, PrepareFails(k) PROVE stray'
  BY <1>12 DEF PrepareFails, RemoveFiles
<1>13. ASSUME NEW k \in Controllers, WriteManifest(k) PROVE stray'
  BY <1>13 DEF WriteManifest
<1>14. ASSUME NEW k \in Controllers, WriteScripts(k) PROVE stray'
  BY <1>14 DEF WriteScripts
<1>15. ASSUME NEW k \in Controllers, WritePending(k) PROVE stray'
  BY <1>15 DEF WritePending
<1>16. ASSUME NEW k \in Controllers, StartExec(k) PROVE stray'
  BY <1>16 DEF StartExec
<1>17. ASSUME NEW k \in Controllers, StartExecFails(k) PROVE stray'
  BY <1>17 DEF StartExecFails
<1>18. ASSUME NEW k \in Controllers, ObserveStart(k) PROVE stray'
  BY <1>18 DEF ObserveStart
<1>19. ASSUME NEW k \in Controllers, Acknowledge(k) PROVE stray'
  BY <1>19 DEF Acknowledge
<1>20. ASSUME NEW k \in Controllers, StartEnded(k) PROVE stray'
  BY <1>20 DEF StartEnded
<1>21. ASSUME NEW k \in Controllers, Timeout(k) PROVE stray'
  BY <1>21 DEF Timeout
<1>22. ASSUME NEW k \in Controllers, Decide(k) PROVE stray'
  BY <1>22 DEF Decide, Here
<1>23. ASSUME NEW k \in Controllers, StopWrite(k) PROVE stray'
  BY <1>23 DEF StopWrite
<1>24. ASSUME NEW k \in Controllers, StopExec(k) PROVE stray'
  BY <1>24 DEF StopExec
<1>25. ASSUME NEW k \in Controllers, StopExecFails(k) PROVE stray'
  BY <1>25 DEF StopExecFails
<1>26. ASSUME NEW k \in Controllers, ObserveStop(k) PROVE stray'
  BY <1>26 DEF ObserveStop, Here
<1>27. ASSUME NEW k \in Controllers, WriteTerminal(k) PROVE stray'
  BY <1>27 DEF WriteTerminal
<1>28. ASSUME NEW k \in Controllers, Deliver(k) PROVE stray'
  BY <1>28 DEF Deliver
<1>29. ASSUME NEW k \in Controllers, DeliverFails(k) PROVE stray'
  BY <1>29 DEF DeliverFails
<1>30. ASSUME NEW k \in Controllers, NoteDelivered(k) PROVE stray'
  BY <1>30 DEF NoteDelivered
<1>31. ASSUME NEW k \in Controllers, Finish(k) PROVE stray'
  BY <1>31 DEF Finish
<1>32. ASSUME NEW k \in Controllers, Remove(k) PROVE stray'
  BY <1>32 DEF Remove, RemoveFiles
<1>33. ASSUME NEW k \in Controllers, Crash(k) PROVE stray'
  BY <1>33 DEF Crash
<1>34. ASSUME NEW k \in Controllers, FindDirectory(k) PROVE stray'
  BY <1>34 DEF FindDirectory
<1>35. ASSUME NEW k \in Controllers, FindNoManifest(k) PROVE stray'
  BY <1>35 DEF FindNoManifest
<1>36. ASSUME NEW k \in Controllers, RemoveAgain(k) PROVE stray'
  BY <1>36 DEF RemoveAgain, RemoveFiles
<1> QED
  BY <1>1, <1>2, <1>3, <1>4, <1>5, <1>6, <1>7, <1>8, <1>9, <1>10,
     <1>11, <1>12, <1>13, <1>14, <1>15, <1>16, <1>17, <1>18, <1>19, <1>20,
     <1>21, <1>22, <1>23, <1>24, <1>25, <1>26, <1>27, <1>28, <1>29, <1>30,
     <1>31, <1>32, <1>33, <1>34, <1>35, <1>36
  DEF Next, Target, Continue

\* A race is not forgotten.
LEMMA RacedLasts ==
  ASSUME AttachmentInv, [Next]_vars, raced
  PROVE  raced'
<1>0. raced /\ raced \in BOOLEAN
  BY DEF AttachmentInv, TypeOK
<1> USE <1>0 DEF Race, At, Enter, Forget, Goto, Raised, Move, WriteControl, WriteStatus, target, files,
        locals, history
<1>1. CASE UNCHANGED vars
  BY <1>1 DEF vars
<1>2. CASE RunStart
  BY <1>2 DEF RunStart, MayInstall, WriteNothing
<1>3. CASE RunStop
  BY <1>3 DEF RunStop, Finalize, WriteNothing
<1>4. CASE Application
  BY <1>4 DEF Application
<1>5. CASE RecoverAtExit
  BY <1>5 DEF RecoverAtExit, Finalize, WriteNothing
<1>6. CASE Die
  BY <1>6 DEF Die
<1>7. CASE Reuse
  BY <1>7 DEF Reuse
<1>8. ASSUME NEW k \in Controllers, AttachBegin(k) PROVE raced'
  BY <1>8 DEF AttachBegin
<1>9. ASSUME NEW k \in Controllers, StopBegin(k) PROVE raced'
  BY <1>9 DEF StopBegin, Readable
<1>10. ASSUME NEW k \in Controllers, DiscardBegin(k) PROVE raced'
  BY <1>10 DEF DiscardBegin, Readable, MayDiscard
<1>11. ASSUME NEW k \in Controllers, Reserve(k) PROVE raced'
  BY <1>11 DEF Reserve
<1>12. ASSUME NEW k \in Controllers, PrepareFails(k) PROVE raced'
  BY <1>12 DEF PrepareFails, RemoveFiles
<1>13. ASSUME NEW k \in Controllers, WriteManifest(k) PROVE raced'
  BY <1>13 DEF WriteManifest
<1>14. ASSUME NEW k \in Controllers, WriteScripts(k) PROVE raced'
  BY <1>14 DEF WriteScripts
<1>15. ASSUME NEW k \in Controllers, WritePending(k) PROVE raced'
  BY <1>15 DEF WritePending
<1>16. ASSUME NEW k \in Controllers, StartExec(k) PROVE raced'
  BY <1>16 DEF StartExec
<1>17. ASSUME NEW k \in Controllers, StartExecFails(k) PROVE raced'
  BY <1>17 DEF StartExecFails
<1>18. ASSUME NEW k \in Controllers, ObserveStart(k) PROVE raced'
  BY <1>18 DEF ObserveStart
<1>19. ASSUME NEW k \in Controllers, Acknowledge(k) PROVE raced'
  BY <1>19 DEF Acknowledge
<1>20. ASSUME NEW k \in Controllers, StartEnded(k) PROVE raced'
  BY <1>20 DEF StartEnded
<1>21. ASSUME NEW k \in Controllers, Timeout(k) PROVE raced'
  BY <1>21 DEF Timeout
<1>22. ASSUME NEW k \in Controllers, Decide(k) PROVE raced'
  BY <1>22 DEF Decide, Here
<1>23. ASSUME NEW k \in Controllers, StopWrite(k) PROVE raced'
  BY <1>23 DEF StopWrite
<1>24. ASSUME NEW k \in Controllers, StopExec(k) PROVE raced'
  BY <1>24 DEF StopExec
<1>25. ASSUME NEW k \in Controllers, StopExecFails(k) PROVE raced'
  BY <1>25 DEF StopExecFails
<1>26. ASSUME NEW k \in Controllers, ObserveStop(k) PROVE raced'
  BY <1>26 DEF ObserveStop, Here
<1>27. ASSUME NEW k \in Controllers, WriteTerminal(k) PROVE raced'
  BY <1>27 DEF WriteTerminal
<1>28. ASSUME NEW k \in Controllers, Deliver(k) PROVE raced'
  BY <1>28 DEF Deliver
<1>29. ASSUME NEW k \in Controllers, DeliverFails(k) PROVE raced'
  BY <1>29 DEF DeliverFails
<1>30. ASSUME NEW k \in Controllers, NoteDelivered(k) PROVE raced'
  BY <1>30 DEF NoteDelivered
<1>31. ASSUME NEW k \in Controllers, Finish(k) PROVE raced'
  BY <1>31 DEF Finish
<1>32. ASSUME NEW k \in Controllers, Remove(k) PROVE raced'
  BY <1>32 DEF Remove, RemoveFiles
<1>33. ASSUME NEW k \in Controllers, Crash(k) PROVE raced'
  BY <1>33 DEF Crash
<1>34. ASSUME NEW k \in Controllers, FindDirectory(k) PROVE raced'
  BY <1>34 DEF FindDirectory
<1>35. ASSUME NEW k \in Controllers, FindNoManifest(k) PROVE raced'
  BY <1>35 DEF FindNoManifest
<1>36. ASSUME NEW k \in Controllers, RemoveAgain(k) PROVE raced'
  BY <1>36 DEF RemoveAgain, RemoveFiles
<1> QED
  BY <1>1, <1>2, <1>3, <1>4, <1>5, <1>6, <1>7, <1>8, <1>9, <1>10,
     <1>11, <1>12, <1>13, <1>14, <1>15, <1>16, <1>17, <1>18, <1>19, <1>20,
     <1>21, <1>22, <1>23, <1>24, <1>25, <1>26, <1>27, <1>28, <1>29, <1>30,
     <1>31, <1>32, <1>33, <1>34, <1>35, <1>36
  DEF Next, Target, Continue

\* A command delivers for a session it has read.
LEMMA HasStep ==
  ASSUME AttachmentInv, [Next]_vars
  PROVE  HasSession'
<1>0. HasSession /\ pc \in [Controllers -> PC]
      /\ seen \in [Controllers -> Sessions \union {None}]
  BY DEF AttachmentInv, TypeOK
<1> USE <1>0 DEF HasSession, At, Enter, Forget, Goto, Raised, Move, WriteControl, WriteStatus, target, files,
        locals, history
<1>1. CASE UNCHANGED vars
  BY <1>1 DEF vars
<1>2. CASE RunStart
  BY <1>2 DEF RunStart, MayInstall, WriteNothing
<1>3. CASE RunStop
  BY <1>3 DEF RunStop, Finalize, WriteNothing
<1>4. CASE Application
  BY <1>4 DEF Application
<1>5. CASE RecoverAtExit
  BY <1>5 DEF RecoverAtExit, Finalize, WriteNothing
<1>6. CASE Die
  BY <1>6 DEF Die
<1>7. CASE Reuse
  BY <1>7 DEF Reuse
<1>8. ASSUME NEW k \in Controllers, AttachBegin(k) PROVE HasSession'
  BY <1>8 DEF AttachBegin
<1>9. ASSUME NEW k \in Controllers, StopBegin(k) PROVE HasSession'
  BY <1>9 DEF StopBegin, Readable
<1>10. ASSUME NEW k \in Controllers, DiscardBegin(k) PROVE HasSession'
  BY <1>10 DEF DiscardBegin, Readable, MayDiscard
<1>11. ASSUME NEW k \in Controllers, Reserve(k) PROVE HasSession'
  BY <1>11 DEF Reserve
<1>12. ASSUME NEW k \in Controllers, PrepareFails(k) PROVE HasSession'
  BY <1>12 DEF PrepareFails, RemoveFiles
<1>13. ASSUME NEW k \in Controllers, WriteManifest(k) PROVE HasSession'
  BY <1>13 DEF WriteManifest
<1>14. ASSUME NEW k \in Controllers, WriteScripts(k) PROVE HasSession'
  BY <1>14 DEF WriteScripts
<1>15. ASSUME NEW k \in Controllers, WritePending(k) PROVE HasSession'
  BY <1>15 DEF WritePending
<1>16. ASSUME NEW k \in Controllers, StartExec(k) PROVE HasSession'
  BY <1>16 DEF StartExec
<1>17. ASSUME NEW k \in Controllers, StartExecFails(k) PROVE HasSession'
  BY <1>17 DEF StartExecFails
<1>18. ASSUME NEW k \in Controllers, ObserveStart(k) PROVE HasSession'
  BY <1>18 DEF ObserveStart
<1>19. ASSUME NEW k \in Controllers, Acknowledge(k) PROVE HasSession'
  BY <1>19 DEF Acknowledge
<1>20. ASSUME NEW k \in Controllers, StartEnded(k) PROVE HasSession'
  BY <1>20 DEF StartEnded
<1>21. ASSUME NEW k \in Controllers, Timeout(k) PROVE HasSession'
  BY <1>21 DEF Timeout
<1>22. ASSUME NEW k \in Controllers, Decide(k) PROVE HasSession'
  BY <1>22 DEF Decide, Here
<1>23. ASSUME NEW k \in Controllers, StopWrite(k) PROVE HasSession'
  BY <1>23 DEF StopWrite
<1>24. ASSUME NEW k \in Controllers, StopExec(k) PROVE HasSession'
  BY <1>24 DEF StopExec
<1>25. ASSUME NEW k \in Controllers, StopExecFails(k) PROVE HasSession'
  BY <1>25 DEF StopExecFails
<1>26. ASSUME NEW k \in Controllers, ObserveStop(k) PROVE HasSession'
  BY <1>26 DEF ObserveStop, Here
<1>27. ASSUME NEW k \in Controllers, WriteTerminal(k) PROVE HasSession'
  BY <1>27 DEF WriteTerminal
<1>28. ASSUME NEW k \in Controllers, Deliver(k) PROVE HasSession'
  BY <1>28 DEF Deliver
<1>29. ASSUME NEW k \in Controllers, DeliverFails(k) PROVE HasSession'
  BY <1>29 DEF DeliverFails
<1>30. ASSUME NEW k \in Controllers, NoteDelivered(k) PROVE HasSession'
  BY <1>30 DEF NoteDelivered
<1>31. ASSUME NEW k \in Controllers, Finish(k) PROVE HasSession'
  BY <1>31 DEF Finish
<1>32. ASSUME NEW k \in Controllers, Remove(k) PROVE HasSession'
  BY <1>32 DEF Remove, RemoveFiles
<1>33. ASSUME NEW k \in Controllers, Crash(k) PROVE HasSession'
  BY <1>33 DEF Crash
<1>34. ASSUME NEW k \in Controllers, FindDirectory(k) PROVE HasSession'
  BY <1>34 DEF FindDirectory
<1>35. ASSUME NEW k \in Controllers, FindNoManifest(k) PROVE HasSession'
  BY <1>35 DEF FindNoManifest
<1>36. ASSUME NEW k \in Controllers, RemoveAgain(k) PROVE HasSession'
  BY <1>36 DEF RemoveAgain, RemoveFiles
<1> QED
  BY <1>1, <1>2, <1>3, <1>4, <1>5, <1>6, <1>7, <1>8, <1>9, <1>10,
     <1>11, <1>12, <1>13, <1>14, <1>15, <1>16, <1>17, <1>18, <1>19, <1>20,
     <1>21, <1>22, <1>23, <1>24, <1>25, <1>26, <1>27, <1>28, <1>29, <1>30,
     <1>31, <1>32, <1>33, <1>34, <1>35, <1>36
  DEF Next, Target, Continue

\* While no stop begins beside another command, one command works at a time:
\* mkdir lets one attach command go on (Reserve).
LEMMA WorkStep ==
  ASSUME AttachmentInv, [Next]_vars, ~raced'
  PROVE  OneAtWork'
<1>0. OneAtWork /\ FilesFit /\ pc \in [Controllers -> PC]
  BY RacedLasts DEF AttachmentInv, TypeOK
<1> USE <1>0 DEF OneAtWork, AtWork, FilesFit, Race, At, Enter, Forget, Goto, Raised, Move, WriteControl, WriteStatus, target, files,
        locals, history
<1>1. CASE UNCHANGED vars
  BY <1>1 DEF vars
<1>2. CASE RunStart
  BY <1>2 DEF RunStart, MayInstall, WriteNothing
<1>3. CASE RunStop
  BY <1>3 DEF RunStop, Finalize, WriteNothing
<1>4. CASE Application
  BY <1>4 DEF Application
<1>5. CASE RecoverAtExit
  BY <1>5 DEF RecoverAtExit, Finalize, WriteNothing
<1>6. CASE Die
  BY <1>6 DEF Die
<1>7. CASE Reuse
  BY <1>7 DEF Reuse
<1>8. ASSUME NEW k \in Controllers, AttachBegin(k) PROVE OneAtWork'
  BY <1>8 DEF AttachBegin
<1>9. ASSUME NEW k \in Controllers, StopBegin(k) PROVE OneAtWork'
  BY <1>9 DEF StopBegin, Readable
<1>10. ASSUME NEW k \in Controllers, DiscardBegin(k) PROVE OneAtWork'
  BY <1>10 DEF DiscardBegin, Readable, MayDiscard
<1>11. ASSUME NEW k \in Controllers, Reserve(k) PROVE OneAtWork'
  BY <1>11 DEF Reserve
<1>12. ASSUME NEW k \in Controllers, PrepareFails(k) PROVE OneAtWork'
  BY <1>12 DEF PrepareFails, RemoveFiles
<1>13. ASSUME NEW k \in Controllers, WriteManifest(k) PROVE OneAtWork'
  BY <1>13 DEF WriteManifest
<1>14. ASSUME NEW k \in Controllers, WriteScripts(k) PROVE OneAtWork'
  BY <1>14 DEF WriteScripts
<1>15. ASSUME NEW k \in Controllers, WritePending(k) PROVE OneAtWork'
  BY <1>15 DEF WritePending
<1>16. ASSUME NEW k \in Controllers, StartExec(k) PROVE OneAtWork'
  BY <1>16 DEF StartExec
<1>17. ASSUME NEW k \in Controllers, StartExecFails(k) PROVE OneAtWork'
  BY <1>17 DEF StartExecFails
<1>18. ASSUME NEW k \in Controllers, ObserveStart(k) PROVE OneAtWork'
  BY <1>18 DEF ObserveStart
<1>19. ASSUME NEW k \in Controllers, Acknowledge(k) PROVE OneAtWork'
  BY <1>19 DEF Acknowledge
<1>20. ASSUME NEW k \in Controllers, StartEnded(k) PROVE OneAtWork'
  BY <1>20 DEF StartEnded
<1>21. ASSUME NEW k \in Controllers, Timeout(k) PROVE OneAtWork'
  BY <1>21 DEF Timeout
<1>22. ASSUME NEW k \in Controllers, Decide(k) PROVE OneAtWork'
  BY <1>22 DEF Decide, Here
<1>23. ASSUME NEW k \in Controllers, StopWrite(k) PROVE OneAtWork'
  BY <1>23 DEF StopWrite
<1>24. ASSUME NEW k \in Controllers, StopExec(k) PROVE OneAtWork'
  BY <1>24 DEF StopExec
<1>25. ASSUME NEW k \in Controllers, StopExecFails(k) PROVE OneAtWork'
  BY <1>25 DEF StopExecFails
<1>26. ASSUME NEW k \in Controllers, ObserveStop(k) PROVE OneAtWork'
  BY <1>26 DEF ObserveStop, Here
<1>27. ASSUME NEW k \in Controllers, WriteTerminal(k) PROVE OneAtWork'
  BY <1>27 DEF WriteTerminal
<1>28. ASSUME NEW k \in Controllers, Deliver(k) PROVE OneAtWork'
  BY <1>28 DEF Deliver
<1>29. ASSUME NEW k \in Controllers, DeliverFails(k) PROVE OneAtWork'
  BY <1>29 DEF DeliverFails
<1>30. ASSUME NEW k \in Controllers, NoteDelivered(k) PROVE OneAtWork'
  BY <1>30 DEF NoteDelivered
<1>31. ASSUME NEW k \in Controllers, Finish(k) PROVE OneAtWork'
  BY <1>31 DEF Finish
<1>32. ASSUME NEW k \in Controllers, Remove(k) PROVE OneAtWork'
  BY <1>32 DEF Remove, RemoveFiles
<1>33. ASSUME NEW k \in Controllers, Crash(k) PROVE OneAtWork'
  BY <1>33 DEF Crash
<1>34. ASSUME NEW k \in Controllers, FindDirectory(k) PROVE OneAtWork'
  BY <1>34 DEF FindDirectory
<1>35. ASSUME NEW k \in Controllers, FindNoManifest(k) PROVE OneAtWork'
  BY <1>35 DEF FindNoManifest
<1>36. ASSUME NEW k \in Controllers, RemoveAgain(k) PROVE OneAtWork'
  BY <1>36 DEF RemoveAgain, RemoveFiles
<1> QED
  BY <1>1, <1>2, <1>3, <1>4, <1>5, <1>6, <1>7, <1>8, <1>9, <1>10,
     <1>11, <1>12, <1>13, <1>14, <1>15, <1>16, <1>17, <1>18, <1>19, <1>20,
     <1>21, <1>22, <1>23, <1>24, <1>25, <1>26, <1>27, <1>28, <1>29, <1>30,
     <1>31, <1>32, <1>33, <1>34, <1>35, <1>36
  DEF Next, Target, Continue

\* Every step leaves what a command has read true.
LEMMA CommandStep ==
  ASSUME AttachmentInv, [Next]_vars, ~raced'
  PROVE  CommandFits'
<1>0. CommandFits /\ FilesFit /\ OneAtWork
      /\ status \in Statuses
      /\ control \in Controls
      /\ pc \in [Controllers -> PC]
      /\ expected \in [Controllers -> Births \union {None}]
      /\ seen \in [Controllers -> Sessions \union {None}]
      /\ manifest \in Sessions \union {None}
      /\ sessions \in 0..MaxSessions
      /\ bound \in [Sessions -> Births \union {None}]
      /\ scripts \in BOOLEAN
  BY RacedLasts, Values, BoundAssumption
  DEF AttachmentInv, TypeOK, Statuses, Controls
<1> USE <1>0 DEF OneAtWork, AtWork, Race, CommandFits, FilesFit, Sessionless, Starting,
        NoFile, NoControl, None, Terminal, Unfinished, At, Enter, Forget, Goto, Raised, Move,
        WriteControl, WriteStatus, target, files, locals, history
<1>1. CASE UNCHANGED vars
  BY <1>1 DEF vars
<1>2. CASE RunStart
  BY <1>2 DEF RunStart, MayInstall, WriteNothing
<1>3. CASE RunStop
  BY <1>3 DEF RunStop, Finalize, WriteNothing
<1>4. CASE Application
  BY <1>4 DEF Application
<1>5. CASE RecoverAtExit
  BY <1>5 DEF RecoverAtExit, Finalize, WriteNothing
<1>6. CASE Die
  BY <1>6 DEF Die
<1>7. CASE Reuse
  BY <1>7 DEF Reuse
<1>8. ASSUME NEW k \in Controllers, AttachBegin(k) PROVE CommandFits'
  BY <1>8 DEF AttachBegin
<1>9. ASSUME NEW k \in Controllers, StopBegin(k) PROVE CommandFits'
  BY <1>9 DEF StopBegin, Readable
<1>10. ASSUME NEW k \in Controllers, DiscardBegin(k) PROVE CommandFits'
  BY <1>10 DEF DiscardBegin, Readable, MayDiscard
<1>11. ASSUME NEW k \in Controllers, Reserve(k) PROVE CommandFits'
  BY <1>11 DEF Reserve
<1>12. ASSUME NEW k \in Controllers, PrepareFails(k) PROVE CommandFits'
  BY <1>12 DEF PrepareFails, RemoveFiles
<1>13. ASSUME NEW k \in Controllers, WriteManifest(k) PROVE CommandFits'
  <2>1. CASE manifest # None
    BY <1>13, <2>1 DEF WriteManifest
  <2>2. CASE manifest = None
    <3>1. /\ sessions' = sessions + 1 /\ sessions < MaxSessions
          /\ manifest' = sessions + 1 /\ directory' = TRUE
          /\ bound' = [bound EXCEPT ![sessions + 1] = expected[k]]
          /\ seen' = [seen EXCEPT ![k] = sessions + 1]
          /\ pc' = [pc EXCEPT ![k] = "scripts"]
          /\ UNCHANGED <<scripts, status, control, expected, stops>>
      BY <1>13, <2>2 DEF WriteManifest
    <3>2. sessions + 1 \in Sessions /\ sessions + 1 # None
      BY <3>1, BoundAssumption DEF Sessions, None
    <3>3. \A j \in Controllers : AtWork(j) => j = k
      BY <1>13 DEF WriteManifest
    <3>4. /\ seen'[k] = manifest' /\ bound'[manifest'] = expected'[k]
         /\ pc'[k] = "scripts"
      BY <3>1, <3>2
    <3>5. control = NoControl /\ manifest' # None
      BY <2>2, <3>1, <3>2
    <3>6. QED
      BY <3>1, <3>3, <3>4, <3>5
  <2>3. QED
    BY <2>1, <2>2
<1>14. ASSUME NEW k \in Controllers, WriteScripts(k) PROVE CommandFits'
  BY <1>14 DEF WriteScripts
<1>15. ASSUME NEW k \in Controllers, WritePending(k) PROVE CommandFits'
  BY <1>15 DEF WritePending
<1>16. ASSUME NEW k \in Controllers, StartExec(k) PROVE CommandFits'
  BY <1>16 DEF StartExec
<1>17. ASSUME NEW k \in Controllers, StartExecFails(k) PROVE CommandFits'
  BY <1>17 DEF StartExecFails
<1>18. ASSUME NEW k \in Controllers, ObserveStart(k) PROVE CommandFits'
  BY <1>18 DEF ObserveStart
<1>19. ASSUME NEW k \in Controllers, Acknowledge(k) PROVE CommandFits'
  BY <1>19 DEF Acknowledge
<1>20. ASSUME NEW k \in Controllers, StartEnded(k) PROVE CommandFits'
  BY <1>20 DEF StartEnded
<1>21. ASSUME NEW k \in Controllers, Timeout(k) PROVE CommandFits'
  BY <1>21 DEF Timeout
<1>22. ASSUME NEW k \in Controllers, Decide(k) PROVE CommandFits'
  BY <1>22 DEF Decide, Here
<1>23. ASSUME NEW k \in Controllers, StopWrite(k) PROVE CommandFits'
  BY <1>23 DEF StopWrite
<1>24. ASSUME NEW k \in Controllers, StopExec(k) PROVE CommandFits'
  BY <1>24 DEF StopExec
<1>25. ASSUME NEW k \in Controllers, StopExecFails(k) PROVE CommandFits'
  BY <1>25 DEF StopExecFails
<1>26. ASSUME NEW k \in Controllers, ObserveStop(k) PROVE CommandFits'
  BY <1>26 DEF ObserveStop, Here
<1>27. ASSUME NEW k \in Controllers, WriteTerminal(k) PROVE CommandFits'
  BY <1>27 DEF WriteTerminal
<1>28. ASSUME NEW k \in Controllers, Deliver(k) PROVE CommandFits'
  BY <1>28 DEF Deliver
<1>29. ASSUME NEW k \in Controllers, DeliverFails(k) PROVE CommandFits'
  BY <1>29 DEF DeliverFails
<1>30. ASSUME NEW k \in Controllers, NoteDelivered(k) PROVE CommandFits'
  BY <1>30 DEF NoteDelivered
<1>31. ASSUME NEW k \in Controllers, Finish(k) PROVE CommandFits'
  BY <1>31 DEF Finish
<1>32. ASSUME NEW k \in Controllers, Remove(k) PROVE CommandFits'
  BY <1>32 DEF Remove, RemoveFiles
<1>33. ASSUME NEW k \in Controllers, Crash(k) PROVE CommandFits'
  BY <1>33 DEF Crash
<1>34. ASSUME NEW k \in Controllers, FindDirectory(k) PROVE CommandFits'
  BY <1>34 DEF FindDirectory
<1>35. ASSUME NEW k \in Controllers, FindNoManifest(k) PROVE CommandFits'
  BY <1>35 DEF FindNoManifest
<1>36. ASSUME NEW k \in Controllers, RemoveAgain(k) PROVE CommandFits'
  BY <1>36 DEF RemoveAgain, RemoveFiles
<1> QED
  BY <1>1, <1>2, <1>3, <1>4, <1>5, <1>6, <1>7, <1>8, <1>9, <1>10,
     <1>11, <1>12, <1>13, <1>14, <1>15, <1>16, <1>17, <1>18, <1>19, <1>20,
     <1>21, <1>22, <1>23, <1>24, <1>25, <1>26, <1>27, <1>28, <1>29, <1>30,
     <1>31, <1>32, <1>33, <1>34, <1>35, <1>36
  DEF Next, Target, Continue

\* Every step leaves the files in their order.
LEMMA FilesStep ==
  ASSUME AttachmentInv, [Next]_vars, ~raced'
  PROVE  FilesFit'
<1>0. CommandFits /\ FilesFit /\ OneAtWork
      /\ status \in Statuses
      /\ control \in Controls
      /\ pc \in [Controllers -> PC]
      /\ manifest \in Sessions \union {None}
      /\ sessions \in 0..MaxSessions
      /\ scripts \in BOOLEAN
      /\ directory \in BOOLEAN
  BY RacedLasts, Values, BoundAssumption
  DEF AttachmentInv, TypeOK, Statuses, Controls
<1> USE <1>0 DEF OneAtWork, AtWork, Race, CommandFits, FilesFit, Sessionless, Starting,
        NoFile, NoControl, None, Sessions, At, Enter, Forget, Goto, Raised, Move, WriteControl,
        WriteStatus, target, files, locals, history
<1>1. CASE UNCHANGED vars
  BY <1>1 DEF vars
<1>2. CASE RunStart
  BY <1>2 DEF RunStart, MayInstall, WriteNothing
<1>3. CASE RunStop
  BY <1>3 DEF RunStop, Finalize, WriteNothing
<1>4. CASE Application
  BY <1>4 DEF Application
<1>5. CASE RecoverAtExit
  BY <1>5 DEF RecoverAtExit, Finalize, WriteNothing
<1>6. CASE Die
  BY <1>6 DEF Die
<1>7. CASE Reuse
  BY <1>7 DEF Reuse
<1>8. ASSUME NEW k \in Controllers, AttachBegin(k) PROVE FilesFit'
  BY <1>8 DEF AttachBegin
<1>9. ASSUME NEW k \in Controllers, StopBegin(k) PROVE FilesFit'
  BY <1>9 DEF StopBegin, Readable
<1>10. ASSUME NEW k \in Controllers, DiscardBegin(k) PROVE FilesFit'
  BY <1>10 DEF DiscardBegin, Readable, MayDiscard
<1>11. ASSUME NEW k \in Controllers, Reserve(k) PROVE FilesFit'
  BY <1>11 DEF Reserve
<1>12. ASSUME NEW k \in Controllers, PrepareFails(k) PROVE FilesFit'
  BY <1>12 DEF PrepareFails, RemoveFiles
<1>13. ASSUME NEW k \in Controllers, WriteManifest(k) PROVE FilesFit'
  BY <1>13 DEF WriteManifest
<1>14. ASSUME NEW k \in Controllers, WriteScripts(k) PROVE FilesFit'
  BY <1>14 DEF WriteScripts
<1>15. ASSUME NEW k \in Controllers, WritePending(k) PROVE FilesFit'
  BY <1>15 DEF WritePending
<1>16. ASSUME NEW k \in Controllers, StartExec(k) PROVE FilesFit'
  BY <1>16 DEF StartExec
<1>17. ASSUME NEW k \in Controllers, StartExecFails(k) PROVE FilesFit'
  BY <1>17 DEF StartExecFails
<1>18. ASSUME NEW k \in Controllers, ObserveStart(k) PROVE FilesFit'
  BY <1>18 DEF ObserveStart
<1>19. ASSUME NEW k \in Controllers, Acknowledge(k) PROVE FilesFit'
  BY <1>19 DEF Acknowledge
<1>20. ASSUME NEW k \in Controllers, StartEnded(k) PROVE FilesFit'
  BY <1>20 DEF StartEnded
<1>21. ASSUME NEW k \in Controllers, Timeout(k) PROVE FilesFit'
  BY <1>21 DEF Timeout
<1>22. ASSUME NEW k \in Controllers, Decide(k) PROVE FilesFit'
  BY <1>22 DEF Decide, Here
<1>23. ASSUME NEW k \in Controllers, StopWrite(k) PROVE FilesFit'
  BY <1>23 DEF StopWrite
<1>24. ASSUME NEW k \in Controllers, StopExec(k) PROVE FilesFit'
  BY <1>24 DEF StopExec
<1>25. ASSUME NEW k \in Controllers, StopExecFails(k) PROVE FilesFit'
  BY <1>25 DEF StopExecFails
<1>26. ASSUME NEW k \in Controllers, ObserveStop(k) PROVE FilesFit'
  BY <1>26 DEF ObserveStop, Here
<1>27. ASSUME NEW k \in Controllers, WriteTerminal(k) PROVE FilesFit'
  BY <1>27 DEF WriteTerminal
<1>28. ASSUME NEW k \in Controllers, Deliver(k) PROVE FilesFit'
  BY <1>28 DEF Deliver
<1>29. ASSUME NEW k \in Controllers, DeliverFails(k) PROVE FilesFit'
  BY <1>29 DEF DeliverFails
<1>30. ASSUME NEW k \in Controllers, NoteDelivered(k) PROVE FilesFit'
  BY <1>30 DEF NoteDelivered
<1>31. ASSUME NEW k \in Controllers, Finish(k) PROVE FilesFit'
  BY <1>31 DEF Finish
<1>32. ASSUME NEW k \in Controllers, Remove(k) PROVE FilesFit'
  BY <1>32 DEF Remove, RemoveFiles
<1>33. ASSUME NEW k \in Controllers, Crash(k) PROVE FilesFit'
  BY <1>33 DEF Crash
<1>34. ASSUME NEW k \in Controllers, FindDirectory(k) PROVE FilesFit'
  BY <1>34 DEF FindDirectory
<1>35. ASSUME NEW k \in Controllers, FindNoManifest(k) PROVE FilesFit'
  BY <1>35 DEF FindNoManifest
<1>36. ASSUME NEW k \in Controllers, RemoveAgain(k) PROVE FilesFit'
  BY <1>36 DEF RemoveAgain, RemoveFiles
<1> QED
  BY <1>1, <1>2, <1>3, <1>4, <1>5, <1>6, <1>7, <1>8, <1>9, <1>10,
     <1>11, <1>12, <1>13, <1>14, <1>15, <1>16, <1>17, <1>18, <1>19, <1>20,
     <1>21, <1>22, <1>23, <1>24, <1>25, <1>26, <1>27, <1>28, <1>29, <1>30,
     <1>31, <1>32, <1>33, <1>34, <1>35, <1>36
  DEF Next, Target, Continue

\* Every step leaves the target status true.
LEMMA StatusStep ==
  ASSUME AttachmentInv, [Next]_vars, ~raced'
  PROVE  StatusFits'
<1>0. CommandFits /\ FilesFit /\ StatusFits /\ OneAtWork
      /\ birth \in Births
      /\ alive \in BOOLEAN
      /\ slot \in {NoFile, "start", "stop"}
      /\ agent \in Sessions \union {None}
      /\ status \in Statuses
      /\ control \in Controls
      /\ pc \in [Controllers -> PC]
      /\ manifest \in Sessions \union {None}
      /\ sessions \in 0..MaxSessions
      /\ scripts \in BOOLEAN
      /\ bound \in [Sessions -> Births \union {None}]
      /\ broken \in BOOLEAN
  BY RacedLasts, Values, BoundAssumption
  DEF AttachmentInv, TypeOK, Statuses, Controls
<1> USE <1>0 DEF OneAtWork, AtWork, Race, CommandFits, FilesFit, StatusFits, Sessionless,
        Starting, NoFile, NoControl, NoStatus, None, Births, Sessions, At,
        Enter, Forget, Goto, Raised, Move, WriteControl, WriteStatus, target, files, locals, history
<1>1. CASE UNCHANGED vars
  BY <1>1 DEF vars
<1>2. CASE RunStart
  BY <1>2 DEF RunStart, MayInstall, WriteNothing
<1>3. CASE RunStop
  BY <1>3 DEF RunStop, Finalize, WriteNothing
<1>4. CASE Application
  BY <1>4 DEF Application
<1>5. CASE RecoverAtExit
  BY <1>5 DEF RecoverAtExit, Finalize, WriteNothing
<1>6. CASE Die
  BY <1>6 DEF Die
<1>7. CASE Reuse
  BY <1>7 DEF Reuse
<1>8. ASSUME NEW k \in Controllers, AttachBegin(k) PROVE StatusFits'
  BY <1>8 DEF AttachBegin
<1>9. ASSUME NEW k \in Controllers, StopBegin(k) PROVE StatusFits'
  BY <1>9 DEF StopBegin, Readable
<1>10. ASSUME NEW k \in Controllers, DiscardBegin(k) PROVE StatusFits'
  BY <1>10 DEF DiscardBegin, Readable, MayDiscard
<1>11. ASSUME NEW k \in Controllers, Reserve(k) PROVE StatusFits'
  BY <1>11 DEF Reserve
<1>12. ASSUME NEW k \in Controllers, PrepareFails(k) PROVE StatusFits'
  BY <1>12 DEF PrepareFails, RemoveFiles
<1>13. ASSUME NEW k \in Controllers, WriteManifest(k) PROVE StatusFits'
  BY <1>13 DEF WriteManifest
<1>14. ASSUME NEW k \in Controllers, WriteScripts(k) PROVE StatusFits'
  BY <1>14 DEF WriteScripts
<1>15. ASSUME NEW k \in Controllers, WritePending(k) PROVE StatusFits'
  BY <1>15 DEF WritePending
<1>16. ASSUME NEW k \in Controllers, StartExec(k) PROVE StatusFits'
  BY <1>16 DEF StartExec
<1>17. ASSUME NEW k \in Controllers, StartExecFails(k) PROVE StatusFits'
  BY <1>17 DEF StartExecFails
<1>18. ASSUME NEW k \in Controllers, ObserveStart(k) PROVE StatusFits'
  BY <1>18 DEF ObserveStart
<1>19. ASSUME NEW k \in Controllers, Acknowledge(k) PROVE StatusFits'
  BY <1>19 DEF Acknowledge
<1>20. ASSUME NEW k \in Controllers, StartEnded(k) PROVE StatusFits'
  BY <1>20 DEF StartEnded
<1>21. ASSUME NEW k \in Controllers, Timeout(k) PROVE StatusFits'
  BY <1>21 DEF Timeout
<1>22. ASSUME NEW k \in Controllers, Decide(k) PROVE StatusFits'
  BY <1>22 DEF Decide, Here
<1>23. ASSUME NEW k \in Controllers, StopWrite(k) PROVE StatusFits'
  BY <1>23 DEF StopWrite
<1>24. ASSUME NEW k \in Controllers, StopExec(k) PROVE StatusFits'
  BY <1>24 DEF StopExec
<1>25. ASSUME NEW k \in Controllers, StopExecFails(k) PROVE StatusFits'
  BY <1>25 DEF StopExecFails
<1>26. ASSUME NEW k \in Controllers, ObserveStop(k) PROVE StatusFits'
  BY <1>26 DEF ObserveStop, Here
<1>27. ASSUME NEW k \in Controllers, WriteTerminal(k) PROVE StatusFits'
  BY <1>27 DEF WriteTerminal
<1>28. ASSUME NEW k \in Controllers, Deliver(k) PROVE StatusFits'
  BY <1>28 DEF Deliver
<1>29. ASSUME NEW k \in Controllers, DeliverFails(k) PROVE StatusFits'
  BY <1>29 DEF DeliverFails
<1>30. ASSUME NEW k \in Controllers, NoteDelivered(k) PROVE StatusFits'
  BY <1>30 DEF NoteDelivered
<1>31. ASSUME NEW k \in Controllers, Finish(k) PROVE StatusFits'
  BY <1>31 DEF Finish
<1>32. ASSUME NEW k \in Controllers, Remove(k) PROVE StatusFits'
  BY <1>32 DEF Remove, RemoveFiles
<1>33. ASSUME NEW k \in Controllers, Crash(k) PROVE StatusFits'
  BY <1>33 DEF Crash
<1>34. ASSUME NEW k \in Controllers, FindDirectory(k) PROVE StatusFits'
  BY <1>34 DEF FindDirectory
<1>35. ASSUME NEW k \in Controllers, FindNoManifest(k) PROVE StatusFits'
  BY <1>35 DEF FindNoManifest
<1>36. ASSUME NEW k \in Controllers, RemoveAgain(k) PROVE StatusFits'
  BY <1>36 DEF RemoveAgain, RemoveFiles
<1> QED
  BY <1>1, <1>2, <1>3, <1>4, <1>5, <1>6, <1>7, <1>8, <1>9, <1>10,
     <1>11, <1>12, <1>13, <1>14, <1>15, <1>16, <1>17, <1>18, <1>19, <1>20,
     <1>21, <1>22, <1>23, <1>24, <1>25, <1>26, <1>27, <1>28, <1>29, <1>30,
     <1>31, <1>32, <1>33, <1>34, <1>35, <1>36
  DEF Next, Target, Continue

\* Every step leaves the sessions that may yet be stopped as they are.
LEMMA StopsStep ==
  ASSUME AttachmentInv, [Next]_vars, ~raced'
  PROVE  StopsFit'
<1>0. CommandFits /\ FilesFit /\ StopsFit /\ OneAtWork
      /\ status \in Statuses
      /\ control \in Controls
      /\ pc \in [Controllers -> PC]
      /\ seen \in [Controllers -> Sessions \union {None}]
      /\ manifest \in Sessions \union {None}
      /\ sessions \in 0..MaxSessions
      /\ stops \in [Sessions -> Nat]
  BY RacedLasts, Values, BoundAssumption
  DEF AttachmentInv, TypeOK, Statuses, Controls
<1> USE <1>0 DEF OneAtWork, AtWork, Race, CommandFits, FilesFit, StopsFit, Sessionless,
        Starting, NoFile, NoControl, None, Sessions, Unfinished, At, Enter, Forget, Goto, Raised,
        Move, WriteControl, WriteStatus, target, files, locals, history
<1>1. CASE UNCHANGED vars
  BY <1>1 DEF vars
<1>2. CASE RunStart
  BY <1>2 DEF RunStart, MayInstall, WriteNothing
<1>3. CASE RunStop
  BY <1>3 DEF RunStop, Finalize, WriteNothing
<1>4. CASE Application
  BY <1>4 DEF Application
<1>5. CASE RecoverAtExit
  BY <1>5 DEF RecoverAtExit, Finalize, WriteNothing
<1>6. CASE Die
  BY <1>6 DEF Die
<1>7. CASE Reuse
  BY <1>7 DEF Reuse
<1>8. ASSUME NEW k \in Controllers, AttachBegin(k) PROVE StopsFit'
  BY <1>8 DEF AttachBegin
<1>9. ASSUME NEW k \in Controllers, StopBegin(k) PROVE StopsFit'
  BY <1>9 DEF StopBegin, Readable
<1>10. ASSUME NEW k \in Controllers, DiscardBegin(k) PROVE StopsFit'
  BY <1>10 DEF DiscardBegin, Readable, MayDiscard
<1>11. ASSUME NEW k \in Controllers, Reserve(k) PROVE StopsFit'
  BY <1>11 DEF Reserve
<1>12. ASSUME NEW k \in Controllers, PrepareFails(k) PROVE StopsFit'
  BY <1>12 DEF PrepareFails, RemoveFiles
<1>13. ASSUME NEW k \in Controllers, WriteManifest(k) PROVE StopsFit'
  <2>1. CASE manifest # None
    BY <1>13, <2>1 DEF WriteManifest
  <2>2. CASE manifest = None
    <3>1. /\ sessions' = sessions + 1 /\ sessions < MaxSessions
          /\ manifest' = sessions + 1 /\ directory' = TRUE
          /\ bound' = [bound EXCEPT ![sessions + 1] = expected[k]]
          /\ seen' = [seen EXCEPT ![k] = sessions + 1]
          /\ pc' = [pc EXCEPT ![k] = "scripts"]
          /\ UNCHANGED <<scripts, status, control, expected, stops>>
      BY <1>13, <2>2 DEF WriteManifest
    <3>2. sessions + 1 \in Sessions /\ sessions + 1 # None
      BY <3>1, BoundAssumption DEF Sessions, None
    <3>3. \A j \in Controllers : AtWork(j) => j = k
      BY <1>13 DEF WriteManifest
    <3>4. QED
      BY <3>1, <3>2
  <2>3. QED
    BY <2>1, <2>2
<1>14. ASSUME NEW k \in Controllers, WriteScripts(k) PROVE StopsFit'
  BY <1>14 DEF WriteScripts
<1>15. ASSUME NEW k \in Controllers, WritePending(k) PROVE StopsFit'
  BY <1>15 DEF WritePending
<1>16. ASSUME NEW k \in Controllers, StartExec(k) PROVE StopsFit'
  BY <1>16 DEF StartExec
<1>17. ASSUME NEW k \in Controllers, StartExecFails(k) PROVE StopsFit'
  BY <1>17 DEF StartExecFails
<1>18. ASSUME NEW k \in Controllers, ObserveStart(k) PROVE StopsFit'
  BY <1>18 DEF ObserveStart
<1>19. ASSUME NEW k \in Controllers, Acknowledge(k) PROVE StopsFit'
  BY <1>19 DEF Acknowledge
<1>20. ASSUME NEW k \in Controllers, StartEnded(k) PROVE StopsFit'
  BY <1>20 DEF StartEnded
<1>21. ASSUME NEW k \in Controllers, Timeout(k) PROVE StopsFit'
  BY <1>21 DEF Timeout
<1>22. ASSUME NEW k \in Controllers, Decide(k) PROVE StopsFit'
  BY <1>22 DEF Decide, Here
<1>23. ASSUME NEW k \in Controllers, StopWrite(k) PROVE StopsFit'
  BY <1>23 DEF StopWrite
<1>24. ASSUME NEW k \in Controllers, StopExec(k) PROVE StopsFit'
  BY <1>24 DEF StopExec
<1>25. ASSUME NEW k \in Controllers, StopExecFails(k) PROVE StopsFit'
  BY <1>25 DEF StopExecFails
<1>26. ASSUME NEW k \in Controllers, ObserveStop(k) PROVE StopsFit'
  BY <1>26 DEF ObserveStop, Here
<1>27. ASSUME NEW k \in Controllers, WriteTerminal(k) PROVE StopsFit'
  BY <1>27 DEF WriteTerminal
<1>28. ASSUME NEW k \in Controllers, Deliver(k) PROVE StopsFit'
  BY <1>28 DEF Deliver
<1>29. ASSUME NEW k \in Controllers, DeliverFails(k) PROVE StopsFit'
  BY <1>29 DEF DeliverFails
<1>30. ASSUME NEW k \in Controllers, NoteDelivered(k) PROVE StopsFit'
  BY <1>30 DEF NoteDelivered
<1>31. ASSUME NEW k \in Controllers, Finish(k) PROVE StopsFit'
  BY <1>31 DEF Finish
<1>32. ASSUME NEW k \in Controllers, Remove(k) PROVE StopsFit'
  BY <1>32 DEF Remove, RemoveFiles
<1>33. ASSUME NEW k \in Controllers, Crash(k) PROVE StopsFit'
  BY <1>33 DEF Crash
<1>34. ASSUME NEW k \in Controllers, FindDirectory(k) PROVE StopsFit'
  BY <1>34 DEF FindDirectory
<1>35. ASSUME NEW k \in Controllers, FindNoManifest(k) PROVE StopsFit'
  BY <1>35 DEF FindNoManifest
<1>36. ASSUME NEW k \in Controllers, RemoveAgain(k) PROVE StopsFit'
  BY <1>36 DEF RemoveAgain, RemoveFiles
<1> QED
  BY <1>1, <1>2, <1>3, <1>4, <1>5, <1>6, <1>7, <1>8, <1>9, <1>10,
     <1>11, <1>12, <1>13, <1>14, <1>15, <1>16, <1>17, <1>18, <1>19, <1>20,
     <1>21, <1>22, <1>23, <1>24, <1>25, <1>26, <1>27, <1>28, <1>29, <1>30,
     <1>31, <1>32, <1>33, <1>34, <1>35, <1>36
  DEF Next, Target, Continue

\* Every step leaves each session with one stop at most.
LEMMA SecondStep ==
  ASSUME AttachmentInv, [Next]_vars, ~raced'
  PROVE  NoSecondStop'
<1>0. CommandFits /\ StopsFit /\ NoSecondStop /\ OneAtWork
      /\ pc \in [Controllers -> PC]
      /\ seen \in [Controllers -> Sessions \union {None}]
      /\ manifest \in Sessions \union {None}
      /\ stops \in [Sessions -> Nat]
  BY RacedLasts, Values, BoundAssumption
  DEF AttachmentInv, TypeOK, Statuses, Controls
<1> USE <1>0 DEF OneAtWork, AtWork, Race, CommandFits, StopsFit, NoSecondStop, Sessionless,
        At, Enter, Forget, Goto, Raised, Move, WriteControl, WriteStatus, target, files, locals,
        history
<1>1. CASE UNCHANGED vars
  BY <1>1 DEF vars
<1>2. CASE RunStart
  BY <1>2 DEF RunStart, MayInstall, WriteNothing
<1>3. CASE RunStop
  BY <1>3 DEF RunStop, Finalize, WriteNothing
<1>4. CASE Application
  BY <1>4 DEF Application
<1>5. CASE RecoverAtExit
  BY <1>5 DEF RecoverAtExit, Finalize, WriteNothing
<1>6. CASE Die
  BY <1>6 DEF Die
<1>7. CASE Reuse
  BY <1>7 DEF Reuse
<1>8. ASSUME NEW k \in Controllers, AttachBegin(k) PROVE NoSecondStop'
  BY <1>8 DEF AttachBegin
<1>9. ASSUME NEW k \in Controllers, StopBegin(k) PROVE NoSecondStop'
  BY <1>9 DEF StopBegin, Readable
<1>10. ASSUME NEW k \in Controllers, DiscardBegin(k) PROVE NoSecondStop'
  BY <1>10 DEF DiscardBegin, Readable, MayDiscard
<1>11. ASSUME NEW k \in Controllers, Reserve(k) PROVE NoSecondStop'
  BY <1>11 DEF Reserve
<1>12. ASSUME NEW k \in Controllers, PrepareFails(k) PROVE NoSecondStop'
  BY <1>12 DEF PrepareFails, RemoveFiles
<1>13. ASSUME NEW k \in Controllers, WriteManifest(k) PROVE NoSecondStop'
  BY <1>13 DEF WriteManifest
<1>14. ASSUME NEW k \in Controllers, WriteScripts(k) PROVE NoSecondStop'
  BY <1>14 DEF WriteScripts
<1>15. ASSUME NEW k \in Controllers, WritePending(k) PROVE NoSecondStop'
  BY <1>15 DEF WritePending
<1>16. ASSUME NEW k \in Controllers, StartExec(k) PROVE NoSecondStop'
  BY <1>16 DEF StartExec
<1>17. ASSUME NEW k \in Controllers, StartExecFails(k) PROVE NoSecondStop'
  BY <1>17 DEF StartExecFails
<1>18. ASSUME NEW k \in Controllers, ObserveStart(k) PROVE NoSecondStop'
  BY <1>18 DEF ObserveStart
<1>19. ASSUME NEW k \in Controllers, Acknowledge(k) PROVE NoSecondStop'
  BY <1>19 DEF Acknowledge
<1>20. ASSUME NEW k \in Controllers, StartEnded(k) PROVE NoSecondStop'
  BY <1>20 DEF StartEnded
<1>21. ASSUME NEW k \in Controllers, Timeout(k) PROVE NoSecondStop'
  BY <1>21 DEF Timeout
<1>22. ASSUME NEW k \in Controllers, Decide(k) PROVE NoSecondStop'
  BY <1>22 DEF Decide, Here
<1>23. ASSUME NEW k \in Controllers, StopWrite(k) PROVE NoSecondStop'
  BY <1>23 DEF StopWrite
<1>24. ASSUME NEW k \in Controllers, StopExec(k) PROVE NoSecondStop'
  BY <1>24 DEF StopExec
<1>25. ASSUME NEW k \in Controllers, StopExecFails(k) PROVE NoSecondStop'
  BY <1>25 DEF StopExecFails
<1>26. ASSUME NEW k \in Controllers, ObserveStop(k) PROVE NoSecondStop'
  BY <1>26 DEF ObserveStop, Here
<1>27. ASSUME NEW k \in Controllers, WriteTerminal(k) PROVE NoSecondStop'
  BY <1>27 DEF WriteTerminal
<1>28. ASSUME NEW k \in Controllers, Deliver(k) PROVE NoSecondStop'
  BY <1>28 DEF Deliver
<1>29. ASSUME NEW k \in Controllers, DeliverFails(k) PROVE NoSecondStop'
  BY <1>29 DEF DeliverFails
<1>30. ASSUME NEW k \in Controllers, NoteDelivered(k) PROVE NoSecondStop'
  BY <1>30 DEF NoteDelivered
<1>31. ASSUME NEW k \in Controllers, Finish(k) PROVE NoSecondStop'
  BY <1>31 DEF Finish
<1>32. ASSUME NEW k \in Controllers, Remove(k) PROVE NoSecondStop'
  BY <1>32 DEF Remove, RemoveFiles
<1>33. ASSUME NEW k \in Controllers, Crash(k) PROVE NoSecondStop'
  BY <1>33 DEF Crash
<1>34. ASSUME NEW k \in Controllers, FindDirectory(k) PROVE NoSecondStop'
  BY <1>34 DEF FindDirectory
<1>35. ASSUME NEW k \in Controllers, FindNoManifest(k) PROVE NoSecondStop'
  BY <1>35 DEF FindNoManifest
<1>36. ASSUME NEW k \in Controllers, RemoveAgain(k) PROVE NoSecondStop'
  BY <1>36 DEF RemoveAgain, RemoveFiles
<1> QED
  BY <1>1, <1>2, <1>3, <1>4, <1>5, <1>6, <1>7, <1>8, <1>9, <1>10,
     <1>11, <1>12, <1>13, <1>14, <1>15, <1>16, <1>17, <1>18, <1>19, <1>20,
     <1>21, <1>22, <1>23, <1>24, <1>25, <1>26, <1>27, <1>28, <1>29, <1>30,
     <1>31, <1>32, <1>33, <1>34, <1>35, <1>36
  DEF Next, Target, Continue

\* Without a stray start script every step leaves the target to the session whose
\* files are there.
LEMMA SessionStep ==
  ASSUME AttachmentInv, [Next]_vars, ~raced', ~stray'
  PROVE  SessionFits'
<1>0. CommandFits /\ FilesFit /\ StatusFits /\ SessionFits /\ OneAtWork /\ ~stray
      /\ status.state \in {NoFile, "active", "complete", "failed"}
      /\ birth \in Births
      /\ alive \in BOOLEAN
      /\ slot \in {NoFile, "start", "stop"}
      /\ agent \in Sessions \union {None}
      /\ status \in Statuses
      /\ control \in Controls
      /\ artifact \in Sessions \union {None}
      /\ pc \in [Controllers -> PC]
      /\ seen \in [Controllers -> Sessions \union {None}]
      /\ manifest \in Sessions \union {None}
      /\ sessions \in 0..MaxSessions
      /\ scripts \in BOOLEAN
      /\ bound \in [Sessions -> Births \union {None}]
      /\ received \subseteq Sessions \X Sessions
      /\ expected \in [Controllers -> Births \union {None}]
  BY RacedLasts, StrayLasts, Values, BoundAssumption
  DEF AttachmentInv, TypeOK, Statuses, Controls
<1> USE <1>0 DEF OneAtWork, AtWork, Race, CommandFits, FilesFit, SessionFits, StatusFits,
        Sessionless, Preparing, Starting, Ending, NoFile, NoControl, NoStatus,
        None, Sessions, Unfinished, Untouched, Received, Terminal, At, Enter, Forget, Goto, Raised,
        Move, WriteControl, WriteStatus, target, files, locals, history
<1>1. CASE UNCHANGED vars
  BY <1>1 DEF vars
<1>2. CASE RunStart
  BY <1>2 DEF RunStart, MayInstall, WriteNothing
<1>3. CASE RunStop
  BY <1>3 DEF RunStop, Finalize, WriteNothing
<1>4. CASE Application
  BY <1>4 DEF Application
<1>5. CASE RecoverAtExit
  BY <1>5 DEF RecoverAtExit, Finalize, WriteNothing
<1>6. CASE Die
  BY <1>6 DEF Die
<1>7. CASE Reuse
  BY <1>7 DEF Reuse
<1>8. ASSUME NEW k \in Controllers, AttachBegin(k) PROVE SessionFits'
  BY <1>8 DEF AttachBegin
<1>9. ASSUME NEW k \in Controllers, StopBegin(k) PROVE SessionFits'
  BY <1>9 DEF StopBegin, Readable
<1>10. ASSUME NEW k \in Controllers, DiscardBegin(k) PROVE SessionFits'
  BY <1>10 DEF DiscardBegin, Readable, MayDiscard
<1>11. ASSUME NEW k \in Controllers, Reserve(k) PROVE SessionFits'
  BY <1>11 DEF Reserve
<1>12. ASSUME NEW k \in Controllers, PrepareFails(k) PROVE SessionFits'
  BY <1>12 DEF PrepareFails, RemoveFiles
<1>13. ASSUME NEW k \in Controllers, WriteManifest(k) PROVE SessionFits'
  BY <1>13 DEF WriteManifest
<1>14. ASSUME NEW k \in Controllers, WriteScripts(k) PROVE SessionFits'
  BY <1>14 DEF WriteScripts
<1>15. ASSUME NEW k \in Controllers, WritePending(k) PROVE SessionFits'
  BY <1>15 DEF WritePending
<1>16. ASSUME NEW k \in Controllers, StartExec(k) PROVE SessionFits'
  BY <1>16 DEF StartExec
<1>17. ASSUME NEW k \in Controllers, StartExecFails(k) PROVE SessionFits'
  BY <1>17 DEF StartExecFails
<1>18. ASSUME NEW k \in Controllers, ObserveStart(k) PROVE SessionFits'
  BY <1>18 DEF ObserveStart
<1>19. ASSUME NEW k \in Controllers, Acknowledge(k) PROVE SessionFits'
  BY <1>19 DEF Acknowledge
<1>20. ASSUME NEW k \in Controllers, StartEnded(k) PROVE SessionFits'
  BY <1>20 DEF StartEnded
<1>21. ASSUME NEW k \in Controllers, Timeout(k) PROVE SessionFits'
  BY <1>21 DEF Timeout
<1>22. ASSUME NEW k \in Controllers, Decide(k) PROVE SessionFits'
  BY <1>22 DEF Decide, Here
<1>23. ASSUME NEW k \in Controllers, StopWrite(k) PROVE SessionFits'
  BY <1>23 DEF StopWrite
<1>24. ASSUME NEW k \in Controllers, StopExec(k) PROVE SessionFits'
  BY <1>24 DEF StopExec
<1>25. ASSUME NEW k \in Controllers, StopExecFails(k) PROVE SessionFits'
  BY <1>25 DEF StopExecFails
<1>26. ASSUME NEW k \in Controllers, ObserveStop(k) PROVE SessionFits'
  BY <1>26 DEF ObserveStop, Here
<1>27. ASSUME NEW k \in Controllers, WriteTerminal(k) PROVE SessionFits'
  BY SMTT(30), <1>27 DEF WriteTerminal
<1>28. ASSUME NEW k \in Controllers, Deliver(k) PROVE SessionFits'
  BY <1>28 DEF Deliver
<1>29. ASSUME NEW k \in Controllers, DeliverFails(k) PROVE SessionFits'
  BY <1>29 DEF DeliverFails
<1>30. ASSUME NEW k \in Controllers, NoteDelivered(k) PROVE SessionFits'
  BY <1>30 DEF NoteDelivered
<1>31. ASSUME NEW k \in Controllers, Finish(k) PROVE SessionFits'
  BY <1>31 DEF Finish
<1>32. ASSUME NEW k \in Controllers, Remove(k) PROVE SessionFits'
  BY <1>32 DEF Remove, RemoveFiles
<1>33. ASSUME NEW k \in Controllers, Crash(k) PROVE SessionFits'
  BY <1>33 DEF Crash
<1>34. ASSUME NEW k \in Controllers, FindDirectory(k) PROVE SessionFits'
  BY <1>34 DEF FindDirectory
<1>35. ASSUME NEW k \in Controllers, FindNoManifest(k) PROVE SessionFits'
  BY <1>35 DEF FindNoManifest
<1>36. ASSUME NEW k \in Controllers, RemoveAgain(k) PROVE SessionFits'
  BY <1>36 DEF RemoveAgain, RemoveFiles
<1> QED
  BY <1>1, <1>2, <1>3, <1>4, <1>5, <1>6, <1>7, <1>8, <1>9, <1>10,
     <1>11, <1>12, <1>13, <1>14, <1>15, <1>16, <1>17, <1>18, <1>19, <1>20,
     <1>21, <1>22, <1>23, <1>24, <1>25, <1>26, <1>27, <1>28, <1>29, <1>30,
     <1>31, <1>32, <1>33, <1>34, <1>35, <1>36
  DEF Next, Target, Continue

\* Without a stray start script every step leaves each session with its own report.
LEMMA OwnStep ==
  ASSUME AttachmentInv, [Next]_vars, ~raced', ~stray'
  PROVE  OwnReport'
<1>0. CommandFits /\ SessionFits /\ OwnReport /\ OneAtWork /\ ~stray
      /\ artifact \in Sessions \union {None}
      /\ pc \in [Controllers -> PC]
      /\ seen \in [Controllers -> Sessions \union {None}]
      /\ manifest \in Sessions \union {None}
      /\ received \subseteq Sessions \X Sessions
  BY RacedLasts, StrayLasts, Values, BoundAssumption
  DEF AttachmentInv, TypeOK, Statuses, Controls
<1> USE <1>0 DEF OneAtWork, AtWork, Race, CommandFits, SessionFits, OwnReport, Sessionless,
        At, Enter, Forget, Goto, Raised, Move, WriteControl, WriteStatus, target, files, locals,
        history
<1>1. CASE UNCHANGED vars
  BY <1>1 DEF vars
<1>2. CASE RunStart
  BY <1>2 DEF RunStart, MayInstall, WriteNothing
<1>3. CASE RunStop
  BY <1>3 DEF RunStop, Finalize, WriteNothing
<1>4. CASE Application
  BY <1>4 DEF Application
<1>5. CASE RecoverAtExit
  BY <1>5 DEF RecoverAtExit, Finalize, WriteNothing
<1>6. CASE Die
  BY <1>6 DEF Die
<1>7. CASE Reuse
  BY <1>7 DEF Reuse
<1>8. ASSUME NEW k \in Controllers, AttachBegin(k) PROVE OwnReport'
  BY <1>8 DEF AttachBegin
<1>9. ASSUME NEW k \in Controllers, StopBegin(k) PROVE OwnReport'
  BY <1>9 DEF StopBegin, Readable
<1>10. ASSUME NEW k \in Controllers, DiscardBegin(k) PROVE OwnReport'
  BY <1>10 DEF DiscardBegin, Readable, MayDiscard
<1>11. ASSUME NEW k \in Controllers, Reserve(k) PROVE OwnReport'
  BY <1>11 DEF Reserve
<1>12. ASSUME NEW k \in Controllers, PrepareFails(k) PROVE OwnReport'
  BY <1>12 DEF PrepareFails, RemoveFiles
<1>13. ASSUME NEW k \in Controllers, WriteManifest(k) PROVE OwnReport'
  BY <1>13 DEF WriteManifest
<1>14. ASSUME NEW k \in Controllers, WriteScripts(k) PROVE OwnReport'
  BY <1>14 DEF WriteScripts
<1>15. ASSUME NEW k \in Controllers, WritePending(k) PROVE OwnReport'
  BY <1>15 DEF WritePending
<1>16. ASSUME NEW k \in Controllers, StartExec(k) PROVE OwnReport'
  BY <1>16 DEF StartExec
<1>17. ASSUME NEW k \in Controllers, StartExecFails(k) PROVE OwnReport'
  BY <1>17 DEF StartExecFails
<1>18. ASSUME NEW k \in Controllers, ObserveStart(k) PROVE OwnReport'
  BY <1>18 DEF ObserveStart
<1>19. ASSUME NEW k \in Controllers, Acknowledge(k) PROVE OwnReport'
  BY <1>19 DEF Acknowledge
<1>20. ASSUME NEW k \in Controllers, StartEnded(k) PROVE OwnReport'
  BY <1>20 DEF StartEnded
<1>21. ASSUME NEW k \in Controllers, Timeout(k) PROVE OwnReport'
  BY <1>21 DEF Timeout
<1>22. ASSUME NEW k \in Controllers, Decide(k) PROVE OwnReport'
  BY <1>22 DEF Decide, Here
<1>23. ASSUME NEW k \in Controllers, StopWrite(k) PROVE OwnReport'
  BY <1>23 DEF StopWrite
<1>24. ASSUME NEW k \in Controllers, StopExec(k) PROVE OwnReport'
  BY <1>24 DEF StopExec
<1>25. ASSUME NEW k \in Controllers, StopExecFails(k) PROVE OwnReport'
  BY <1>25 DEF StopExecFails
<1>26. ASSUME NEW k \in Controllers, ObserveStop(k) PROVE OwnReport'
  BY <1>26 DEF ObserveStop, Here
<1>27. ASSUME NEW k \in Controllers, WriteTerminal(k) PROVE OwnReport'
  BY <1>27 DEF WriteTerminal
<1>28. ASSUME NEW k \in Controllers, Deliver(k) PROVE OwnReport'
  BY <1>28 DEF Deliver
<1>29. ASSUME NEW k \in Controllers, DeliverFails(k) PROVE OwnReport'
  BY <1>29 DEF DeliverFails
<1>30. ASSUME NEW k \in Controllers, NoteDelivered(k) PROVE OwnReport'
  BY <1>30 DEF NoteDelivered
<1>31. ASSUME NEW k \in Controllers, Finish(k) PROVE OwnReport'
  BY <1>31 DEF Finish
<1>32. ASSUME NEW k \in Controllers, Remove(k) PROVE OwnReport'
  BY <1>32 DEF Remove, RemoveFiles
<1>33. ASSUME NEW k \in Controllers, Crash(k) PROVE OwnReport'
  BY <1>33 DEF Crash
<1>34. ASSUME NEW k \in Controllers, FindDirectory(k) PROVE OwnReport'
  BY <1>34 DEF FindDirectory
<1>35. ASSUME NEW k \in Controllers, FindNoManifest(k) PROVE OwnReport'
  BY <1>35 DEF FindNoManifest
<1>36. ASSUME NEW k \in Controllers, RemoveAgain(k) PROVE OwnReport'
  BY <1>36 DEF RemoveAgain, RemoveFiles
<1> QED
  BY <1>1, <1>2, <1>3, <1>4, <1>5, <1>6, <1>7, <1>8, <1>9, <1>10,
     <1>11, <1>12, <1>13, <1>14, <1>15, <1>16, <1>17, <1>18, <1>19, <1>20,
     <1>21, <1>22, <1>23, <1>24, <1>25, <1>26, <1>27, <1>28, <1>29, <1>30,
     <1>31, <1>32, <1>33, <1>34, <1>35, <1>36
  DEF Next, Target, Continue

\* Every step leaves the invariant.
LEMMA InvStep ==
  ASSUME AttachmentInv, [Next]_vars
  PROVE  AttachmentInv'
<1>1. TypeOK' /\ HasSession'
  BY TargetStep, FileTypesStep, LocalTypesStep, HistoryTypesStep, HasStep
  DEF TypeOK, TargetTypes, FileTypes, LocalTypes, HistoryTypes, Statuses, Controls
<1>2. ASSUME ~raced'
      PROVE  /\ OneAtWork' /\ CommandFits' /\ FilesFit' /\ StatusFits'
             /\ StopsFit' /\ NoSecondStop'
  BY <1>2, WorkStep, CommandStep, FilesStep, StatusStep, StopsStep, SecondStep
<1>3. ASSUME ~raced', ~stray' PROVE SessionFits' /\ OwnReport'
  BY <1>3, SessionStep, OwnStep
<1>4. QED
  BY <1>1, <1>2, <1>3 DEF AttachmentInv

\* The invariant holds before anybody has attached.
LEMMA InitInv == Init => AttachmentInv
<1> SUFFICES ASSUME Init PROVE AttachmentInv
  OBVIOUS
<1>1. TypeOK
  <2>1. TargetTypes /\ FileTypes
    BY Values, RecordTypes DEF Init, TargetTypes, FileTypes
  <2>2. LocalTypes
    BY Places DEF Init, LocalTypes
  <2>3. HistoryTypes
    <3>1. sessions \in 0 .. MaxSessions
      BY BoundAssumption DEF Init
    <3>2. /\ bound \in [Sessions -> Births \union {None}]
          /\ stops \in [Sessions -> Nat]
      BY DEF Init
    <3>3. /\ received \subseteq Sessions \X Sessions
          /\ stray \in BOOLEAN /\ raced \in BOOLEAN /\ broken \in BOOLEAN
      BY DEF Init
    <3>4. QED
      BY <3>1, <3>2, <3>3 DEF HistoryTypes
  <2>4. QED
    BY <2>1, <2>2, <2>3
    DEF TypeOK, TargetTypes, FileTypes, LocalTypes, HistoryTypes, Statuses, Controls
<1>2. /\ HasSession /\ OneAtWork /\ CommandFits /\ FilesFit /\ StatusFits
      /\ StopsFit /\ NoSecondStop
  BY Values, BoundAssumption DEF Init, HasSession, OneAtWork, AtWork, CommandFits, FilesFit, StatusFits, StopsFit,
     NoSecondStop, At, Sessionless, Starting
<1>3. SessionFits /\ OwnReport
  BY Values
  DEF Init, SessionFits, OwnReport, At, Preparing, Ending, Untouched, NoFile
<1>4. QED
  BY <1>1, <1>2, <1>3 DEF AttachmentInv

\* For commands that follow one another, AttachmentInv is an invariant.
THEOREM AttachmentInvariant == Spec => []AttachmentInv
<1>1. AttachmentInv /\ [Next]_vars => AttachmentInv'
  BY InvStep
<1>2. QED
  BY <1>1, InitInv, PTL DEF Spec

\* A monitor that attach installed can be stopped at any time, whatever commands
\* died or timed out and whichever processes the id has named.
THEOREM ActiveIsReachableAlways == Spec => []ActiveIsReachable
<1>1. AttachmentInv => ActiveIsReachable
  BY DEF AttachmentInv, ActiveIsReachable, SessionFits
<1>2. QED
  BY <1>1, AttachmentInvariant, PTL

\* While the process of a session lives, a session recorded as acknowledged and
\* not over is the target's active one (_wait_for_start, _stop).
THEOREM FilesAreTrue == Spec => []ActiveMeansMonitored
<1>1. AttachmentInv => ActiveMeansMonitored
  <2>1. SUFFICES ASSUME AttachmentInv, control.state \in {"active", "stop_pending"},
                        ~Terminal(status), alive, birth = bound[manifest], ~broken, ~raced
                 PROVE  agent = manifest
    BY DEF ActiveMeansMonitored
  <2>2. status.state \in {NoFile, "active", "complete", "failed"} /\ StatusFits
    BY <2>1 DEF AttachmentInv, TypeOK
  <2>3. status.state = "active"
    BY <2>1, <2>2 DEF Terminal, StatusFits
  <2>4. QED
    BY <2>1, <2>2, <2>3 DEF StatusFits
<1>2. QED
  BY <1>1, AttachmentInvariant, PTL

\* The report that reaches the destinations of a session is that of the session
\* (_deliver), but for a stray start script.
THEOREM ReportsAreOwn == Spec => []OwnReport
<1>1. AttachmentInv => OwnReport
  BY DEF AttachmentInv, OwnReport
<1>2. QED
  BY <1>1, AttachmentInvariant, PTL

\* No session has a second stop scheduled, however often stop is repeated.
THEOREM OneStopPerSession == Spec => []NoSecondStop
<1>1. AttachmentInv => NoSecondStop
  BY DEF AttachmentInv, NoSecondStop
<1>2. QED
  BY <1>1, AttachmentInvariant, PTL

\* A complete session is removed only when its report has been received (_deliver,
\* _remove_session), but for a discard and a stray start script.
THEOREM DeliveryFirst == Spec => DeliveredBeforeRemoved
<1> DEFINE Delivered(k) ==
             /\ ~At(k, "discard") /\ (Remove(k) \/ RemoveAgain(k))
             /\ status.state = "complete" /\ ~stray /\ ~raced'
             => <<manifest, manifest>> \in received
<1>1. ASSUME AttachmentInv, [Next]_vars, NEW k \in Controllers PROVE Delivered(k)
  <2> SUFFICES ASSUME ~At(k, "discard"), Remove(k) \/ RemoveAgain(k),
                      status.state = "complete", ~stray, ~raced'
               PROVE  Received
    BY DEF Received
  <2>1. ~raced /\ SessionFits
    BY <1>1, RacedLasts DEF AttachmentInv
  <2>2. status # NoStatus
    BY DEF NoStatus, NoFile
  <2>3. CASE Remove(k)
    <3>1. At(k, "remove") \/ At(k, "cleanUp")
      BY <2>3 DEF Remove, At
    <3>2. QED
      BY <2>1, <2>2, <3>1 DEF SessionFits, At, Preparing, Untouched
  <2>4. CASE RemoveAgain(k)
    BY <2>1, <2>2, <2>4 DEF RemoveAgain, SessionFits, Untouched
  <2>5. QED
    BY <2>3, <2>4
<1>2. AttachmentInv /\ [Next]_vars => [\A k \in Controllers : Delivered(k)]_vars
  BY <1>1
<1>3. QED
  BY <1>2, AttachmentInvariant, PTL DEF Spec, DeliveredBeforeRemoved

=============================================================================
