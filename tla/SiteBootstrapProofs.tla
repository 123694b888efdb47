------------------------- MODULE SiteBootstrapProofs -------------------------
(***************************************************************************)
(* Proofs about SiteBootstrap, for any number of commands and of files     *)
(* that others write.  BootstrapInv is inductive; the three properties of  *)
(* the start-up file's commands follow from it.                            *)
(***************************************************************************)
EXTENDS SiteBootstrap, TLAPS

\* Putting a file at the path disturbs the other commands if it is another.
LEMMA PutFits ==
  ASSUME TypeOK, NEW k, NEW f \in Files, Put(k, f)
  PROVE  /\ file' = f
         /\ disturbed' \in [Commands -> BOOLEAN]
         /\ \A j \in Commands :
              disturbed'[j] <=> (disturbed[j] \/ (j # k /\ f # file))
<1>1. file' = f /\ disturbed' = [j \in Commands |-> disturbed[j] \/ (j # k /\ f # file)]
  BY DEF Put
<1>2. \A j \in Commands : disturbed'[j] = (disturbed[j] \/ (j # k /\ f # file))
  BY <1>1
<1>3. disturbed' \in [Commands -> BOOLEAN]
  <2>1. \A j \in Commands : (disturbed[j] \/ (j # k /\ f # file)) \in BOOLEAN
    BY Zenon
  <2>2. QED
    BY <1>1, <2>1, Zenon
<1>4. QED
  BY <1>1, <1>2, <1>3

\* The files that are put there are files.
LEMMA FilesFit ==
  ASSUME ConstantsAssumption, file \in Files
  PROVE  /\ Nothing \in Files /\ Nothing.kind = "absent"
         /\ \A k \in Commands : [kind |-> "cut", by |-> k] \in Files
         /\ [kind |-> "foreign", by |-> Others] \in Files
         /\ \A kind \in Partial \union {"damaged"} :
              /\ [file EXCEPT !.kind = kind] \in Files
              /\ [file EXCEPT !.kind = kind].kind = kind
              /\ [file EXCEPT !.kind = kind].by = file.by
         /\ file.kind \in Kinds /\ file.by \in Commands \union {Others}
  BY DEF ConstantsAssumption, Files, Kinds, Nothing, Partial

\* What writing to the opened file does to the path.
LEMMA Written ==
  ASSUME ConstantsAssumption, TypeOK,
         NEW k \in Commands, NEW kind \in Partial, Writes(k, kind)
  PROVE  /\ file' \in Files
         /\ disturbed' \in [Commands -> BOOLEAN]
         /\ file.by = k => file'.kind = kind /\ file'.by = k
         /\ file.by # k => file' = file
         /\ \A j \in Commands :
              disturbed'[j] <=> (disturbed[j] \/ (j # k /\ file' # file))
<1>1. file \in Files /\ disturbed \in [Commands -> BOOLEAN]
  BY DEF TypeOK
<1>2. CASE file.by = k
  <2> DEFINE f == [file EXCEPT !.kind = kind]
  <2>1. Put(k, f)
    BY <1>2 DEF Writes
  <2>2. f \in Files /\ f.kind = kind /\ f.by = file.by
    BY <1>1, FilesFit
  <2> HIDE DEF f
  <2>3. /\ file' = f
        /\ disturbed' \in [Commands -> BOOLEAN]
        /\ \A j \in Commands :
             disturbed'[j] <=> (disturbed[j] \/ (j # k /\ f # file))
    BY <2>1, <2>2, PutFits
  <2>4. QED
    BY <1>2, <2>2, <2>3
<1>3. CASE file.by # k
  BY <1>1, <1>3 DEF Writes
<1>4. QED
  BY <1>2, <1>3

\* What the others do: no file of theirs is unfinished or installed, and all
\* commands are disturbed if it is another file.
LEMMA OthersWrite ==
  ASSUME ConstantsAssumption, TypeOK, WriteForeign \/ Edit
  PROVE  /\ file' \in Files /\ disturbed' \in [Commands -> BOOLEAN]
         /\ foreign' \in 0 .. MaxForeign
         /\ file'.kind \in {"absent", "damaged", "foreign"}
         /\ file'.kind = "foreign" => file'.by = Others
         /\ \A j \in Commands :
              disturbed'[j] <=> (disturbed[j] \/ file' # file)
         /\ UNCHANGED <<pc, wants, seen, result, gaveUp>>
<1>1. /\ file \in Files /\ foreign \in 0 .. MaxForeign /\ MaxForeign \in Nat
      /\ Others \notin Commands
  BY DEF TypeOK, ConstantsAssumption
<1>2. PICK f \in Files :
        /\ Put(Others, f) /\ f.kind \in {"absent", "damaged", "foreign"}
        /\ f.kind = "foreign" => f.by = Others
  <2>1. CASE WriteForeign
    BY <2>1, FilesFit, <1>1 DEF WriteForeign
  <2>2. CASE Edit
    <3>1. [file EXCEPT !.kind = "damaged"] \in Files /\ Nothing \in Files
      BY <1>1, FilesFit
    <3>2. [file EXCEPT !.kind = "damaged"].kind = "damaged" /\ Nothing.kind = "absent"
      BY <1>1, FilesFit
    <3>3. QED
      BY <2>2, <3>1, <3>2 DEF Edit
  <2>3. QED
    BY <2>1, <2>2
<1>3. /\ file' = f /\ disturbed' \in [Commands -> BOOLEAN]
      /\ \A j \in Commands :
           disturbed'[j] <=> (disturbed[j] \/ (j # Others /\ f # file))
  BY <1>2, PutFits
<1>4. foreign' \in 0 .. MaxForeign /\ UNCHANGED <<pc, wants, seen, result, gaveUp>>
  BY <1>1 DEF WriteForeign, Edit
<1>5. QED
  BY <1>1, <1>2, <1>3, <1>4

\* Every step keeps the types.
LEMMA TypeStep ==
  ConstantsAssumption /\ BootstrapInv /\ [Next]_vars => TypeOK'
<1> SUFFICES ASSUME ConstantsAssumption, BootstrapInv, [Next]_vars PROVE TypeOK'
  OBVIOUS
<1>0. /\ TypeOK /\ GoesByWhatItSaw /\ MadeBy /\ SaysWhatIsSo /\ StuckWasGivenUp
      /\ Others \notin Commands
  BY DEF BootstrapInv, ConstantsAssumption
<1> USE <1>0 DEF TypeOK, Results, At, Goto, Ends
<1>1. CASE UNCHANGED vars
  BY <1>1 DEF vars
<1>2. ASSUME NEW k \in Commands, NEW what \in {"install", "remove"}, Inspect(k, what)
      PROVE  TypeOK'
  BY <1>2, FilesFit DEF Inspect
<1>3. ASSUME NEW k \in Commands, NothingToDo(k) \/ Refuse(k) \/ Proceed(k)
      PROVE  TypeOK'
  BY <1>3 DEF NothingToDo, Refuse, Proceed, Kinds
<1>4. ASSUME NEW k \in Commands, Unlink(k) PROVE TypeOK'
  BY <1>4, FilesFit, PutFits DEF Unlink
<1>5. ASSUME NEW k \in Commands, UnlinkFails(k) \/ CreateFails(k)
      PROVE  TypeOK'
  BY <1>5 DEF UnlinkFails, CreateFails
<1>6. ASSUME NEW k \in Commands, Create(k) PROVE TypeOK'
  BY <1>6, FilesFit, PutFits DEF Create, Free
<1>7. ASSUME NEW k \in Commands, Write(k) PROVE TypeOK'
  BY <1>7, FilesFit, Written DEF Write, Partial
<1>8. ASSUME NEW k \in Commands, WriteFails(k) PROVE TypeOK'
  BY <1>8, FilesFit, Written DEF WriteFails, Partial
<1>9. ASSUME NEW k \in Commands, Undo(k) PROVE TypeOK'
  BY <1>9, FilesFit, PutFits DEF Undo
<1>10. ASSUME NEW k \in Commands, UndoFails(k) \/ Interrupt(k)
       PROVE  TypeOK'
  BY <1>10 DEF UndoFails, Interrupt, GivesUp
<1>11. ASSUME NEW k \in Commands, Crash(k) PROVE TypeOK'
  BY <1>11, FilesFit, Written DEF Crash, GivesUp, Partial
<1>12. CASE WriteForeign \/ Edit
  BY <1>12, OthersWrite
<1>13. QED
  BY <1>1, <1>2, <1>3, <1>4, <1>5, <1>6, <1>7, <1>8, <1>9, <1>10, <1>11, <1>12
     DEF Next

\* Every step leaves the commands going by what they saw.
LEMMA SeenStep ==
  ConstantsAssumption /\ BootstrapInv /\ [Next]_vars => GoesByWhatItSaw'
<1> SUFFICES ASSUME ConstantsAssumption, BootstrapInv, [Next]_vars PROVE GoesByWhatItSaw'
  OBVIOUS
<1>0. /\ TypeOK /\ GoesByWhatItSaw /\ MadeBy /\ SaysWhatIsSo /\ StuckWasGivenUp
      /\ Others \notin Commands
  BY DEF BootstrapInv, ConstantsAssumption
<1> USE <1>0 DEF TypeOK, GoesByWhatItSaw, MadeBy, At, Goto, Ends
<1>1. CASE UNCHANGED vars
  BY <1>1 DEF vars
<1>2. ASSUME NEW k \in Commands, NEW what \in {"install", "remove"}, Inspect(k, what)
      PROVE  GoesByWhatItSaw'
  BY <1>2 DEF Inspect
<1>3. ASSUME NEW k \in Commands, NothingToDo(k) \/ Refuse(k) \/ Proceed(k)
      PROVE  GoesByWhatItSaw'
  BY <1>3 DEF NothingToDo, Refuse, Proceed
<1>4. ASSUME NEW k \in Commands, Unlink(k) PROVE GoesByWhatItSaw'
  BY <1>4, FilesFit, PutFits DEF Unlink
<1>5. ASSUME NEW k \in Commands, UnlinkFails(k) \/ CreateFails(k)
      PROVE  GoesByWhatItSaw'
  BY <1>5 DEF UnlinkFails, CreateFails
<1>6. ASSUME NEW k \in Commands, Create(k) PROVE GoesByWhatItSaw'
  BY <1>6, FilesFit, PutFits DEF Create, Free
<1>7. ASSUME NEW k \in Commands, Write(k) PROVE GoesByWhatItSaw'
  BY <1>7, FilesFit, Written DEF Write, Partial
<1>8. ASSUME NEW k \in Commands, WriteFails(k) PROVE GoesByWhatItSaw'
  BY <1>8, FilesFit, Written DEF WriteFails, Partial
<1>9. ASSUME NEW k \in Commands, Undo(k) PROVE GoesByWhatItSaw'
  BY <1>9, FilesFit, PutFits DEF Undo
<1>10. ASSUME NEW k \in Commands, UndoFails(k) \/ Interrupt(k)
       PROVE  GoesByWhatItSaw'
  BY <1>10 DEF UndoFails, Interrupt, GivesUp
<1>11. ASSUME NEW k \in Commands, Crash(k) PROVE GoesByWhatItSaw'
  BY <1>11, FilesFit, Written DEF Crash, GivesUp, Partial
<1>12. CASE WriteForeign \/ Edit
  BY <1>12, OthersWrite
<1>13. QED
  BY <1>1, <1>2, <1>3, <1>4, <1>5, <1>6, <1>7, <1>8, <1>9, <1>10, <1>11, <1>12
     DEF Next

\* Every step leaves the file with its maker.
LEMMA MadeByStep ==
  ConstantsAssumption /\ BootstrapInv /\ [Next]_vars => MadeBy'
<1> SUFFICES ASSUME ConstantsAssumption, BootstrapInv, [Next]_vars PROVE MadeBy'
  OBVIOUS
<1>0. /\ TypeOK /\ GoesByWhatItSaw /\ MadeBy /\ SaysWhatIsSo /\ StuckWasGivenUp
      /\ Others \notin Commands
  BY DEF BootstrapInv, ConstantsAssumption
<1> USE <1>0 DEF TypeOK, MadeBy, At, Goto, Ends
<1>1. CASE UNCHANGED vars
  BY <1>1 DEF vars
<1>2. ASSUME NEW k \in Commands, NEW what \in {"install", "remove"}, Inspect(k, what)
      PROVE  MadeBy'
  BY <1>2 DEF Inspect
<1>3. ASSUME NEW k \in Commands, NothingToDo(k) \/ Refuse(k) \/ Proceed(k)
      PROVE  MadeBy'
  BY <1>3 DEF NothingToDo, Refuse, Proceed
<1>4. ASSUME NEW k \in Commands, Unlink(k) PROVE MadeBy'
  BY <1>4, FilesFit, PutFits DEF Unlink
<1>5. ASSUME NEW k \in Commands, UnlinkFails(k) \/ CreateFails(k)
      PROVE  MadeBy'
  BY <1>5 DEF UnlinkFails, CreateFails
<1>6. ASSUME NEW k \in Commands, Create(k) PROVE MadeBy'
  BY <1>6, FilesFit, PutFits DEF Create, Free
<1>7. ASSUME NEW k \in Commands, Write(k) PROVE MadeBy'
  BY <1>7, FilesFit, Written DEF Write, Partial
<1>8. ASSUME NEW k \in Commands, WriteFails(k) PROVE MadeBy'
  BY <1>8, FilesFit, Written DEF WriteFails, Partial
<1>9. ASSUME NEW k \in Commands, Undo(k) PROVE MadeBy'
  BY <1>9, FilesFit, PutFits DEF Undo
<1>10. ASSUME NEW k \in Commands, UndoFails(k) \/ Interrupt(k)
       PROVE  MadeBy'
  BY <1>10 DEF UndoFails, Interrupt, GivesUp
<1>11. ASSUME NEW k \in Commands, Crash(k) PROVE MadeBy'
  BY <1>11, FilesFit, Written DEF Crash, GivesUp, Partial
<1>12. CASE WriteForeign \/ Edit
  BY <1>12, OthersWrite
<1>13. QED
  BY <1>1, <1>2, <1>3, <1>4, <1>5, <1>6, <1>7, <1>8, <1>9, <1>10, <1>11, <1>12
     DEF Next

\* Every step leaves the results true.
LEMMA SaysStep ==
  ConstantsAssumption /\ BootstrapInv /\ [Next]_vars => SaysWhatIsSo'
<1> SUFFICES ASSUME ConstantsAssumption, BootstrapInv, [Next]_vars PROVE SaysWhatIsSo'
  OBVIOUS
<1>0. /\ TypeOK /\ GoesByWhatItSaw /\ MadeBy /\ SaysWhatIsSo /\ StuckWasGivenUp
      /\ Others \notin Commands
  BY DEF BootstrapInv, ConstantsAssumption
<1> USE <1>0 DEF TypeOK, GoesByWhatItSaw, SaysWhatIsSo, Undisturbed, At, Goto, Ends
<1>1. CASE UNCHANGED vars
  BY <1>1 DEF vars
<1>2. ASSUME NEW k \in Commands, NEW what \in {"install", "remove"}, Inspect(k, what)
      PROVE  SaysWhatIsSo'
  BY <1>2 DEF Inspect
<1>3. ASSUME NEW k \in Commands, NothingToDo(k) \/ Refuse(k) \/ Proceed(k)
      PROVE  SaysWhatIsSo'
  BY <1>3 DEF NothingToDo, Refuse, Proceed
<1>4. ASSUME NEW k \in Commands, Unlink(k) PROVE SaysWhatIsSo'
  BY <1>4, FilesFit, PutFits DEF Unlink
<1>5. ASSUME NEW k \in Commands, UnlinkFails(k) \/ CreateFails(k)
      PROVE  SaysWhatIsSo'
  BY <1>5 DEF UnlinkFails, CreateFails
<1>6. ASSUME NEW k \in Commands, Create(k) PROVE SaysWhatIsSo'
  BY <1>6, FilesFit, PutFits DEF Create, Free
<1>7. ASSUME NEW k \in Commands, Write(k) PROVE SaysWhatIsSo'
  BY <1>7, FilesFit, Written DEF Write, Partial
<1>8. ASSUME NEW k \in Commands, WriteFails(k) PROVE SaysWhatIsSo'
  BY <1>8, FilesFit, Written DEF WriteFails, Partial
<1>9. ASSUME NEW k \in Commands, Undo(k) PROVE SaysWhatIsSo'
  BY <1>9, FilesFit, PutFits DEF Undo
<1>10. ASSUME NEW k \in Commands, UndoFails(k) \/ Interrupt(k)
       PROVE  SaysWhatIsSo'
  BY <1>10 DEF UndoFails, Interrupt, GivesUp
<1>11. ASSUME NEW k \in Commands, Crash(k) PROVE SaysWhatIsSo'
  BY <1>11, FilesFit, Written DEF Crash, GivesUp, Partial
<1>12. CASE WriteForeign \/ Edit
  BY <1>12, OthersWrite
<1>13. QED
  BY <1>1, <1>2, <1>3, <1>4, <1>5, <1>6, <1>7, <1>8, <1>9, <1>10, <1>11, <1>12
     DEF Next

\* Every step leaves no unfinished file but with its writer or given up.
LEMMA StuckStep ==
  ConstantsAssumption /\ BootstrapInv /\ [Next]_vars => StuckWasGivenUp'
<1> SUFFICES ASSUME ConstantsAssumption, BootstrapInv, [Next]_vars PROVE StuckWasGivenUp'
  OBVIOUS
<1>0. /\ TypeOK /\ GoesByWhatItSaw /\ MadeBy /\ SaysWhatIsSo /\ StuckWasGivenUp
      /\ Others \notin Commands
  BY DEF BootstrapInv, ConstantsAssumption
<1> USE <1>0 DEF TypeOK, MadeBy, StuckWasGivenUp, At, Goto, Ends
<1>1. CASE UNCHANGED vars
  BY <1>1 DEF vars
<1>2. ASSUME NEW k \in Commands, NEW what \in {"install", "remove"}, Inspect(k, what)
      PROVE  StuckWasGivenUp'
  BY <1>2 DEF Inspect
<1>3. ASSUME NEW k \in Commands, NothingToDo(k) \/ Refuse(k) \/ Proceed(k)
      PROVE  StuckWasGivenUp'
  BY <1>3 DEF NothingToDo, Refuse, Proceed
<1>4. ASSUME NEW k \in Commands, Unlink(k) PROVE StuckWasGivenUp'
  BY <1>4, FilesFit, PutFits DEF Unlink
<1>5. ASSUME NEW k \in Commands, UnlinkFails(k) \/ CreateFails(k)
      PROVE  StuckWasGivenUp'
  BY <1>5 DEF UnlinkFails, CreateFails
<1>6. ASSUME NEW k \in Commands, Create(k) PROVE StuckWasGivenUp'
  BY <1>6, FilesFit, PutFits DEF Create, Free
<1>7. ASSUME NEW k \in Commands, Write(k) PROVE StuckWasGivenUp'
  BY <1>7, FilesFit, Written DEF Write, Partial
<1>8. ASSUME NEW k \in Commands, WriteFails(k) PROVE StuckWasGivenUp'
  BY <1>8, FilesFit, Written DEF WriteFails, Partial
<1>9. ASSUME NEW k \in Commands, Undo(k) PROVE StuckWasGivenUp'
  BY <1>9, FilesFit, PutFits DEF Undo
<1>10. ASSUME NEW k \in Commands, UndoFails(k) \/ Interrupt(k)
       PROVE  StuckWasGivenUp'
  BY <1>10 DEF UndoFails, Interrupt, GivesUp
<1>11. ASSUME NEW k \in Commands, Crash(k) PROVE StuckWasGivenUp'
  BY <1>11, FilesFit, Written DEF Crash, GivesUp, Partial
<1>12. CASE WriteForeign \/ Edit
  BY <1>12, OthersWrite
<1>13. QED
  BY <1>1, <1>2, <1>3, <1>4, <1>5, <1>6, <1>7, <1>8, <1>9, <1>10, <1>11, <1>12
     DEF Next

\* Every step keeps the invariant.
LEMMA InvStep ==
  ConstantsAssumption /\ BootstrapInv /\ [Next]_vars => BootstrapInv'
  BY TypeStep, SeenStep, MadeByStep, SaysStep, StuckStep DEF BootstrapInv

\* The invariant holds where nobody has run a command yet.
LEMMA InitInv == ConstantsAssumption /\ Init => BootstrapInv
<1> SUFFICES ASSUME ConstantsAssumption, Init PROVE BootstrapInv
  OBVIOUS
<1> USE DEF ConstantsAssumption, Init, Nothing
<1>1. TypeOK
  <2>1. file \in Files /\ 0 \in 0 .. MaxForeign
    BY DEF Files, Kinds
  <2>2. disturbed \in [Commands -> BOOLEAN]
    OBVIOUS
  <2>3. QED
    BY <2>1, <2>2 DEF TypeOK, Kinds, Results
<1>2. GoesByWhatItSaw /\ MadeBy /\ SaysWhatIsSo /\ StuckWasGivenUp
  BY DEF GoesByWhatItSaw, MadeBy, SaysWhatIsSo, StuckWasGivenUp, Undisturbed, At
<1>3. QED
  BY <1>1, <1>2 DEF BootstrapInv

\* A command that changes the path where another tool's file is has been
\* disturbed since it looked.
LEMMA ForeignStep ==
  ASSUME ConstantsAssumption, BootstrapInv, [Next]_vars, NEW k \in Commands,
         file.kind = "foreign", pc'[k] # pc[k], file' # file
  PROVE  disturbed[k]
<1>0. /\ TypeOK /\ GoesByWhatItSaw /\ file.by \notin Commands
      /\ pc \in [Commands -> {"idle", "inspected", "unlink", "create", "write", "undo"}]
  BY DEF BootstrapInv, TypeOK, MadeBy, ConstantsAssumption
<1> USE <1>0 DEF At, Goto, Ends
<1>1. Next
  BY DEF vars
<1>2. ASSUME NEW j \in Commands, pc' # pc, ~(Unlink(j) \/ Undo(j)),
             \/ \E what \in {"install", "remove"} : Inspect(j, what)
             \/ NothingToDo(j) \/ Refuse(j) \/ Proceed(j)
             \/ Unlink(j) \/ UnlinkFails(j) \/ Create(j) \/ CreateFails(j)
             \/ Write(j) \/ WriteFails(j) \/ Undo(j)
             \/ UndoFails(j) \/ Interrupt(j) \/ Crash(j)
      PROVE  FALSE
  BY <1>2 DEF Inspect, NothingToDo, Refuse, Proceed, UnlinkFails, Create, Free,
     CreateFails, Write, WriteFails, UndoFails, Interrupt, Crash, Writes
<1>3. CASE Unlink(k)
  BY <1>3 DEF Unlink, GoesByWhatItSaw, Refused
<1>4. CASE Undo(k)
  BY <1>4 DEF Undo, GoesByWhatItSaw
<1>5. ASSUME NEW j \in Commands, Unlink(j) \/ Undo(j) PROVE j = k
  BY <1>5 DEF Unlink, Undo
<1>6. ~(WriteForeign \/ Edit)
  BY OthersWrite
<1>7. QED
  BY <1>1, <1>2, <1>3, <1>4, <1>5, <1>6 DEF Next

\* The start-up file's commands go by what they saw, whatever the others do
\* (install, remove and _inspect).
THEOREM BootstrapInvariant == ConstantsAssumption /\ Spec => []BootstrapInv
<1>1. ConstantsAssumption /\ BootstrapInv /\ [Next]_vars => BootstrapInv'
  BY InvStep
<1>2. SUFFICES ASSUME ConstantsAssumption PROVE Spec => []BootstrapInv
  OBVIOUS
<1>3. BootstrapInv /\ [Next]_vars => BootstrapInv'
  BY <1>1, <1>2
<1>4. Init => BootstrapInv
  BY <1>2, InitInv
<1>5. QED
  BY <1>3, <1>4, PTL DEF Spec
=============================================================================
