--------------------------- MODULE SiteBootstrap ---------------------------
(***************************************************************************)
(* The start-up file in site-packages: `install` and `remove` commands     *)
(* inspect what is at the path and then act on the path by name, with no   *)
(* lock between them, next to other writers of the directory.              *)
(*                                                                         *)
(* Code: install, remove and _inspect (site_bootstrap.py).                 *)
(*                                                                         *)
(* A file is what _inspect makes of it and who put it there.  Contents     *)
(* that stop before the end of the header line have no token and count as  *)
(* foreign, an empty file too: kind "cut".  After the header they are      *)
(* "damaged".  A command writes to the file it opened, whatever is at the  *)
(* path by then.                                                           *)
(*                                                                         *)
(* Operators whose name starts with M are faults the checks are measured   *)
(* with: each stands for a plausible mistake in the definition below it.   *)
(***************************************************************************)
EXTENDS Naturals

CONSTANTS
  Commands,     \* that may run at the same time
  Others,       \* whoever else writes the directory
  MaxForeign    \* bound: files the others write

\* Assumed of the constants where the module is instantiated.
ConstantsAssumption == Others \notin Commands /\ MaxForeign \in Nat

Kinds == {"absent", "cut", "damaged", "installed", "foreign"}
Files == [kind : Kinds, by : Commands \union {Others}]
Nothing == [kind |-> "absent", by |-> Others]
Partial == {"cut", "damaged", "installed"}
Results == {"none", "installed", "absent", "error"}

VARIABLES
  file,      \* what is at the path
  pc,        \* "idle", "inspected", "unlink", "create", "write", "undo"
  wants,     \* "install" or "remove"
  seen,      \* current.state, as the command inspected it
  result,    \* of the command's last run
  disturbed, \* history: somebody else changed the path during that run
  gaveUp,    \* history: commands that ended without taking back their file
  foreign    \* bound: files the others wrote

vars == <<file, pc, wants, seen, result, disturbed, gaveUp, foreign>>

TypeOK ==
  /\ file \in Files
  /\ pc \in [Commands ->
               {"idle", "inspected", "unlink", "create", "write", "undo"}]
  /\ wants \in [Commands -> {"install", "remove"}]
  /\ seen \in [Commands -> Kinds]
  /\ result \in [Commands -> Results]
  /\ disturbed \in [Commands -> BOOLEAN]
  /\ gaveUp \subseteq Commands /\ foreign \in 0..MaxForeign

Init ==
  /\ file = Nothing
  /\ pc = [k \in Commands |-> "idle"]
  /\ wants = [k \in Commands |-> "install"]
  /\ seen = [k \in Commands |-> "absent"]
  /\ result = [k \in Commands |-> "none"]
  /\ disturbed = [k \in Commands |-> FALSE]
  /\ gaveUp = {} /\ foreign = 0

At(k, label) == pc[k] = label
Goto(k, label) == pc' = [pc EXCEPT ![k] = label]
Ends(k, r) == Goto(k, "idle") /\ result' = [result EXCEPT ![k] = r]

\* k puts `f` at the path, and the others are disturbed if that changes it.
Put(k, f) ==
  /\ file' = f
  /\ disturbed' = [j \in Commands |-> disturbed[j] \/ (j # k /\ f # file)]

(***************************************************************************)
(* A command inspects, and goes by what it saw from then on.               *)
(***************************************************************************)
Inspect(k, what) ==
  /\ At(k, "idle")
  /\ wants' = [wants EXCEPT ![k] = what]
  /\ seen' = [seen EXCEPT ![k] = file.kind]
  /\ result' = [result EXCEPT ![k] = "none"]
  /\ disturbed' = [disturbed EXCEPT ![k] = FALSE]
  /\ Goto(k, "inspected")
  /\ UNCHANGED <<file, gaveUp, foreign>>

MRefused(state) == FALSE
Refused(state) == state \in {"foreign", "cut"}

NothingToDo(k) ==
  /\ At(k, "inspected")
  /\ seen[k] = (IF wants[k] = "install" THEN "installed" ELSE "absent")
  /\ Ends(k, seen[k])
  /\ UNCHANGED <<file, wants, seen, disturbed, gaveUp, foreign>>

Refuse(k) ==
  /\ At(k, "inspected") /\ Refused(seen[k])
  /\ Ends(k, "error")
  /\ UNCHANGED <<file, wants, seen, disturbed, gaveUp, foreign>>

Proceed(k) ==
  /\ At(k, "inspected") /\ ~Refused(seen[k])
  /\ \/ wants[k] = "install" /\ seen[k] = "absent" /\ Goto(k, "create")
     \/ wants[k] = "install" /\ seen[k] = "damaged" /\ Goto(k, "unlink")
     \/ wants[k] = "remove" /\ seen[k] # "absent" /\ Goto(k, "unlink")
  /\ UNCHANGED <<file, wants, seen, result, disturbed, gaveUp, foreign>>

\* os.unlink(path), whatever is there by now.
Unlink(k) ==
  /\ At(k, "unlink") /\ file.kind # "absent"
  /\ Put(k, Nothing)
  /\ IF wants[k] = "install" THEN Goto(k, "create") /\ UNCHANGED result
                             ELSE Ends(k, "absent")
  /\ UNCHANGED <<wants, seen, gaveUp, foreign>>

MUnlinkFails(k) ==
  /\ At(k, "unlink")
  /\ Ends(k, IF wants[k] = "remove" THEN "absent" ELSE "error")
  /\ UNCHANGED <<file, wants, seen, disturbed, gaveUp, foreign>>
UnlinkFails(k) ==
  /\ At(k, "unlink")
  /\ Ends(k, "error")
  /\ UNCHANGED <<file, wants, seen, disturbed, gaveUp, foreign>>

\* O_CREAT | O_EXCL
Free == file.kind = "absent"

Create(k) ==
  /\ At(k, "create") /\ Free
  /\ Put(k, [kind |-> "cut", by |-> k])
  /\ Goto(k, "write")
  /\ UNCHANGED <<wants, seen, result, gaveUp, foreign>>

CreateFails(k) ==
  /\ At(k, "create")
  /\ Ends(k, "error")
  /\ UNCHANGED <<file, wants, seen, disturbed, gaveUp, foreign>>

\* Contents reach the file k opened, if that is still at the path.
Writes(k, kind) ==
  IF file.by = k THEN Put(k, [file EXCEPT !.kind = kind])
                 ELSE UNCHANGED <<file, disturbed>>

Write(k) ==
  /\ At(k, "write")
  /\ Writes(k, "installed")
  /\ Ends(k, "installed")
  /\ UNCHANGED <<wants, seen, gaveUp, foreign>>

MWriteFails(k) ==
  /\ At(k, "write")
  /\ \E kind \in Partial : Writes(k, kind)
  /\ Ends(k, "error")
  /\ UNCHANGED <<wants, seen, gaveUp, foreign>>
\* A failed write, flush or fsync, or an interrupt.
WriteFails(k) ==
  /\ At(k, "write")
  /\ \E kind \in Partial : Writes(k, kind)
  /\ Goto(k, "undo")
  /\ UNCHANGED <<wants, seen, result, gaveUp, foreign>>

\* except BaseException: unlink the path, and ignore that it is not there.
Undo(k) ==
  /\ At(k, "undo")
  /\ Put(k, Nothing)
  /\ Ends(k, "error")
  /\ UNCHANGED <<wants, seen, gaveUp, foreign>>

GivesUp(k) == gaveUp' = gaveUp \union {k}

\* That unlink fails, which is ignored too, or is interrupted.
UndoFails(k) ==
  /\ At(k, "undo")
  /\ GivesUp(k)
  /\ Ends(k, "error")
  /\ UNCHANGED <<file, wants, seen, disturbed, foreign>>

\* An interrupt after os.open and before the try.
Interrupt(k) ==
  /\ At(k, "write")
  /\ GivesUp(k)
  /\ Ends(k, "error")
  /\ UNCHANGED <<file, wants, seen, disturbed, foreign>>

\* The command or the machine dies; of what was written any part remains.
Crash(k) ==
  /\ ~At(k, "idle")
  /\ IF At(k, "write") THEN \E kind \in Partial : Writes(k, kind)
                       ELSE UNCHANGED <<file, disturbed>>
  /\ IF pc[k] \in {"write", "undo"} THEN GivesUp(k) ELSE UNCHANGED gaveUp
  /\ Goto(k, "idle")
  /\ UNCHANGED <<wants, seen, result, foreign>>

(***************************************************************************)
(* Others.                                                                 *)
(***************************************************************************)
\* Another tool replaces the file.
WriteForeign ==
  /\ foreign < MaxForeign
  /\ foreign' = foreign + 1
  /\ Put(Others, [kind |-> "foreign", by |-> Others])
  /\ UNCHANGED <<pc, wants, seen, result, gaveUp>>

\* The environment is moved or the file edited below its header, or the file
\* is deleted.
Edit ==
  /\ \/ file.kind = "installed" /\ Put(Others, [file EXCEPT !.kind = "damaged"])
     \/ file.kind # "absent" /\ Put(Others, Nothing)
  /\ UNCHANGED <<pc, wants, seen, result, gaveUp, foreign>>

Next ==
  \/ \E k \in Commands :
       \/ \E what \in {"install", "remove"} : Inspect(k, what)
       \/ NothingToDo(k) \/ Refuse(k) \/ Proceed(k)
       \/ Unlink(k) \/ UnlinkFails(k) \/ Create(k) \/ CreateFails(k)
       \/ Write(k) \/ WriteFails(k) \/ Undo(k) \/ UndoFails(k)
       \/ Interrupt(k) \/ Crash(k)
  \/ WriteForeign \/ Edit

Spec == Init /\ [][Next]_vars

(***************************************************************************)
(* Properties.                                                             *)
(***************************************************************************)
Undisturbed(k) == At(k, "idle") /\ ~disturbed[k]

\* What a command says it did ("Returns: The installed bootstrap status",
\* "An absent status after successful cleanup", site_bootstrap.py:50,93) is
\* so as long as nobody else changed the path since it inspected it.
SaysWhatIsSo ==
  \A k \in Commands :
    Undisturbed(k) /\ result[k] \in {"installed", "absent"} =>
      file.kind = result[k]

\* A file cut short, which neither install nor remove will touch though no
\* other tool wrote it, is still being written or taken back by its maker, or
\* its maker is one that gave up: it died, was interrupted between creating the
\* file and the try, or failed to unlink it (install, "except BaseException").
\* Every other way a command fails takes the file back.
StuckWasGivenUp ==
  file.kind = "cut" =>
    pc[file.by] \in {"write", "undo"} \/ file.by \in gaveUp

\* A command has no result before it ends; while nobody else changes the path,
\* what it inspected is what is there until it acts, and it acts on no file
\* that it refuses; and then the file there is the one it created.
GoesByWhatItSaw ==
  \A k \in Commands :
    /\ ~At(k, "idle") => result[k] = "none"
    /\ At(k, "unlink") => ~Refused(seen[k])
    /\ pc[k] \in {"inspected", "unlink"} /\ ~disturbed[k] => seen[k] = file.kind
    /\ pc[k] \in {"write", "undo"} /\ ~disturbed[k] => file.by = k

\* A file has the maker its kind says.
MadeBy ==
  /\ file.kind = "foreign" => file.by = Others
  /\ file.kind = "cut" => file.by \in Commands

\* What carries these properties from step to step.
BootstrapInv ==
  TypeOK /\ GoesByWhatItSaw /\ MadeBy /\ SaysWhatIsSo /\ StuckWasGivenUp

\* "Install or repair the generated bootstrap without overwriting foreign
\* files" (site_bootstrap.py:43), and remove() raises for one: a command makes
\* away with another tool's file only if that came after it had inspected the
\* path.
ForeignFileStays ==
  [][\A k \in Commands :
       file.kind = "foreign" /\ pc'[k] # pc[k] /\ file' # file =>
         disturbed[k]]_vars
=============================================================================
