----------------------------- MODULE Attachment -----------------------------
(***************************************************************************)
(* Remote attachment to one process id: controllers (the attach and stop   *)
(* commands) and the agent inside the target share a session directory and *)
(* nothing else.  Either side may die at any moment, the commands time out *)
(* and are repeated, and the process id may come to name another process.  *)
(*                                                                         *)
(* Code: attach, stop, _wait_for_start, _wait_for_stop and _deliver        *)
(* (_attachment.py), the files (_attachment_protocol.py), start, _stop and *)
(* _recover_at_exit in the target (_attachment_agent.py).                  *)
(*                                                                         *)
(* Operators whose name starts with M are faults the checks are measured   *)
(* with: each stands for a plausible mistake in the definition below it.   *)
(*                                                                         *)
(* Grain of atomicity.  Files are replaced atomically, and a step of a     *)
(* command writes at most one of them; what it reads before that it reads  *)
(* in the same step, except where the code waits in between.  A script     *)
(* runs in the target without interruption but for the death of the        *)
(* process, and the last thing it writes is the target status, so it is    *)
(* one step.  One output is requested; the package archive and its leases  *)
(* are left out.                                                           *)
(***************************************************************************)
EXTENDS Naturals

CONSTANTS
  Controllers,   \* attach and stop commands that may run at the same time
  MaxBirths,     \* bound: processes that get the process id, one by one
  MaxSessions    \* bound: sessions that get as far as a manifest

ASSUME BoundAssumption == MaxBirths \in Nat \ {0} /\ MaxSessions \in Nat

Births   == 1..MaxBirths
Sessions == 1..MaxSessions
None     == 0             \* no session, no report, no birth
NoFile   == "none"
Unfinished == {"start_pending", "active", "stop_pending"}
PC == {"idle", "reserve", "prepare", "scripts", "pending", "startExec",
       "waitStart", "acknowledge", "startFailed", "decide", "stopWrite",
       "stopExec", "waitStop", "terminal", "deliver", "note", "finish",
       "remove", "discard", "cleanUp", "handler", "unclaimed", "removeAgain"}

VARIABLES
  birth,      \* the process that has the process id, or had it last
  alive,      \* it still runs
  slot,       \* the script remote_exec has left with it: one at most
  agent,      \* its _REMOTE_ACTIVE session, or None
  monitoring, \* its monitor is enabled
  directory,  \* the session directory exists
  manifest,   \* session of manifest.json, or None
  scripts,    \* start.py and stop.py exist
  status,     \* target-status.json: its state and process_identity
  control,    \* controller-status.json: its state, and is the output delivered
  artifact,   \* session of the rendered report, or None
  pc, expected, stopping,  \* locals of a controller: the process it wants
  seen,       \* and the session whose manifest it has read
  sessions,   \* bound: manifests written so far
  bound,      \* history: the process_identity of each manifest
  stops,      \* history: times a stop was scheduled, for each session
  received,   \* history: sessions whose report got to its destination
  stray,      \* history: a start script went to a later process of the id
  raced,      \* history: a stop began while another command was at work, or
              \* a failed attach removed what was not its own
  broken      \* history: a command was killed, or the target could not write

target  == <<birth, alive, slot, agent, monitoring>>
files   == <<directory, manifest, scripts, status, control, artifact>>
locals  == <<pc, expected, stopping, seen>>
history == <<sessions, bound, stops, received, stray, raced, broken>>
vars == <<target, files, locals, history>>

NoStatus  == [state |-> NoFile, birth |-> None]
NoControl == [state |-> NoFile, delivered |-> FALSE]
Terminal(s) == s.state \in {"complete", "failed"}

\* The locals of a command go with it.
Enter(k, label) == pc' = [pc EXCEPT ![k] = label]
Forget(k) ==
  /\ expected' = [expected EXCEPT ![k] = None]
  /\ stopping' = [stopping EXCEPT ![k] = FALSE]
  /\ seen' = [seen EXCEPT ![k] = None]
Goto(k, label) ==
  /\ Enter(k, label)
  /\ IF label \in {"idle", "handler"}
       THEN Forget(k) ELSE UNCHANGED <<expected, stopping, seen>>
At(k, label) == pc[k] = label

\* Every variable has its type.
TypeOK ==
  /\ birth \in Births /\ alive \in BOOLEAN
  /\ slot \in {NoFile, "start", "stop"}
  /\ agent \in Sessions \union {None} /\ monitoring \in BOOLEAN
  /\ directory \in BOOLEAN /\ scripts \in BOOLEAN
  /\ manifest \in Sessions \union {None}
  /\ status \in [state : {NoFile, "active", "complete", "failed"},
                 birth : Births \union {None}]
  /\ control \in [state : Unfinished \union {NoFile, "terminal"},
                  delivered : BOOLEAN]
  /\ artifact \in Sessions \union {None}
  /\ pc \in [Controllers -> PC]
  /\ expected \in [Controllers -> Births \union {None}]
  /\ stopping \in [Controllers -> BOOLEAN]
  /\ seen \in [Controllers -> Sessions \union {None}]
  /\ sessions \in 0..MaxSessions
  /\ bound \in [Sessions -> Births \union {None}]
  /\ stops \in [Sessions -> Nat]
  /\ received \subseteq Sessions \X Sessions
  /\ stray \in BOOLEAN /\ raced \in BOOLEAN /\ broken \in BOOLEAN

Init ==
  /\ birth = 1 /\ alive = TRUE /\ slot = NoFile
  /\ agent = None /\ monitoring = FALSE
  /\ directory = FALSE /\ manifest = None /\ scripts = FALSE
  /\ status = NoStatus /\ control = NoControl /\ artifact = None
  /\ pc = [k \in Controllers |-> "idle"]
  /\ expected = [k \in Controllers |-> None]
  /\ stopping = [k \in Controllers |-> FALSE]
  /\ seen = [k \in Controllers |-> None]
  /\ sessions = 0 /\ bound = [s \in Sessions |-> None]
  /\ stops = [s \in Sessions |-> 0]
  /\ received = {} /\ stray = FALSE /\ raced = FALSE /\ broken = FALSE

(***************************************************************************)
(* The target.                                                             *)
(***************************************************************************)
\* A write makes the directory again if it is gone (_write_atomic_bytes).
WriteStatus(state) ==
  /\ status' = [state |-> state, birth |-> birth]
  /\ directory' = TRUE

\* start() refuses another process, a second session and a monitor of the
\* application.
MayInstall(s) == bound[s] = birth /\ agent = None /\ ~monitoring

\* The acknowledgement cannot be written, and nobody hears of it.
WriteNothing ==
  /\ broken' = TRUE
  /\ UNCHANGED <<status, directory>>

\* Refused, installed, or failed to install; the script may be gone.
RunStart ==
  /\ alive /\ slot = "start"
  /\ slot' = NoFile
  /\ \/ /\ scripts /\ manifest # None /\ MayInstall(manifest)
        /\ agent' = manifest /\ monitoring' = TRUE
        /\ WriteStatus("active") /\ UNCHANGED broken
     \/ /\ scripts
        /\ (WriteStatus("failed") /\ UNCHANGED broken) \/ WriteNothing
        /\ UNCHANGED <<agent, monitoring>>
     \/ /\ ~scripts
        /\ UNCHANGED <<agent, monitoring, status, directory, broken>>
  /\ UNCHANGED <<birth, alive, manifest, scripts, control, artifact, locals,
                 sessions, bound, stops, received, stray, raced>>

MFinalizeTerminal ==
  /\ agent' = None
  /\ artifact' = agent /\ WriteStatus("terminal") /\ UNCHANGED broken

MFinalizeSilently ==
  /\ agent' = None
  /\ UNCHANGED <<artifact, status, directory, broken>>

\* _finalize: render, acknowledge.  An error anywhere makes the status
\* "failed"; the report may be there all the same.
Finalize ==
  /\ agent' = None
  /\ \/ /\ monitoring /\ artifact' = agent
        /\ WriteStatus("complete") /\ UNCHANGED broken
     \/ /\ artifact' \in {artifact} \union (IF monitoring THEN {agent} ELSE {})
        /\ (WriteStatus("failed") /\ UNCHANGED broken) \/ WriteNothing

\* A request that does not match the active session is inert.
RunStop ==
  /\ alive /\ slot = "stop"
  /\ slot' = NoFile
  /\ IF scripts /\ agent # None /\ manifest = agent
       THEN Finalize /\ monitoring' = FALSE
       ELSE UNCHANGED <<agent, monitoring, status, directory, artifact, broken>>
  /\ UNCHANGED <<birth, alive, manifest, scripts, control, locals, sessions,
                 bound, stops, received, stray, raced>>

\* The application installs or uninstalls monitoring itself.
Application ==
  /\ alive
  /\ monitoring' = ~monitoring
  /\ UNCHANGED <<birth, alive, slot, agent, files, locals, history>>

\* An orderly exit runs it before the process dies, and leaves the monitor.
RecoverAtExit ==
  /\ alive /\ agent # None
  /\ Finalize
  /\ UNCHANGED <<birth, alive, slot, monitoring, manifest, scripts, control,
                 locals, sessions, bound, stops, received, stray, raced>>

Die ==
  /\ alive
  /\ alive' = FALSE /\ slot' = NoFile /\ agent' = None /\ monitoring' = FALSE
  /\ UNCHANGED <<birth, files, locals, history>>

\* Another process gets the process id.
Reuse ==
  /\ ~alive /\ birth < MaxBirths
  /\ birth' = birth + 1 /\ alive' = TRUE
  /\ UNCHANGED <<slot, agent, monitoring, files, locals, history>>

(***************************************************************************)
(* The attach command.                                                     *)
(***************************************************************************)
\* A command is at work on the session, or about to be.
AtWork(k) ==
  pc[k] \notin {"idle", "reserve", "handler", "unclaimed", "removeAgain"}

Move(k, from, to) == At(k, from) /\ Goto(k, to)

\* Whatever is raised once attach has its reservation, its handler sees.
Raised(k) == IF stopping[k] THEN "idle" ELSE "handler"

WriteControl(state, delivered) ==
  /\ control' = [state |-> state, delivered |-> delivered]
  /\ directory' = TRUE
  /\ UNCHANGED <<manifest, scripts, status, artifact>>

MRemoveSome ==
  /\ directory' = FALSE /\ manifest' = None /\ scripts' = FALSE
  /\ status' = NoStatus /\ control' = NoControl
  /\ UNCHANGED artifact

RemoveFiles ==
  /\ directory' = FALSE /\ manifest' = None /\ scripts' = FALSE
  /\ status' = NoStatus /\ control' = NoControl /\ artifact' = None

AttachBegin(k) ==
  /\ At(k, "idle") /\ Enter(k, "reserve") /\ alive /\ sessions < MaxSessions
  /\ expected' = [expected EXCEPT ![k] = birth]
  /\ stopping' = [stopping EXCEPT ![k] = FALSE]
  /\ UNCHANGED <<target, files, seen, history>>

\* mkdir is the only mutual exclusion between attach commands.
Reserve(k) ==
  /\ At(k, "reserve")
  /\ directory' = TRUE
  /\ Goto(k, IF directory THEN "idle" ELSE "prepare")
  /\ UNCHANGED <<target, manifest, scripts, status, control, artifact,
                 history>>

\* No package, or no valid configuration.
PrepareFails(k) ==
  /\ Move(k, "prepare", "handler")
  /\ UNCHANGED <<target, files, history>>

WriteManifest(k) ==
  /\ At(k, "prepare") /\ sessions < MaxSessions
  /\ IF manifest = None
       THEN /\ Enter(k, "scripts") /\ UNCHANGED <<expected, stopping>>
            /\ sessions' = sessions + 1
            /\ manifest' = sessions' /\ directory' = TRUE
            /\ bound' = [bound EXCEPT ![sessions'] = expected[k]]
            /\ seen' = [seen EXCEPT ![k] = sessions']
       ELSE Goto(k, "handler") /\ UNCHANGED <<sessions, manifest, directory, bound>>
  /\ UNCHANGED <<target, scripts, status, control, artifact, stops, received, stray, raced, broken>>

WriteScripts(k) ==
  /\ Move(k, "scripts", "pending")
  /\ scripts' = TRUE /\ directory' = TRUE
  /\ UNCHANGED <<target, manifest, status, control, artifact, history>>

WritePending(k) ==
  /\ Move(k, "pending", "startExec")
  /\ WriteControl("start_pending", FALSE)
  /\ UNCHANGED <<target, history>>

\* remote_exec, then _verify_birth.
StartExec(k) ==
  /\ At(k, "startExec") /\ alive
  /\ slot' = "start"
  /\ Goto(k, IF birth = expected[k] THEN "waitStart" ELSE "handler")
  /\ stray' = (stray \/ birth # expected[k])
  /\ UNCHANGED <<birth, alive, agent, monitoring, files, sessions, bound, stops, received, raced, broken>>

StartExecFails(k) ==
  /\ Move(k, "startExec", "cleanUp")
  /\ WriteControl("terminal", FALSE)
  /\ UNCHANGED <<target, history>>

\* The handler removes a reservation that got no manifest.  It looks whether
\* the directory is there, then whether a manifest is, and does not know whose
\* they are: what it removes may be another command's by now.
FindDirectory(k) ==
  /\ Move(k, "handler", IF directory THEN "unclaimed" ELSE "idle")
  /\ UNCHANGED <<target, files, history>>

FindNoManifest(k) ==
  /\ Move(k, "unclaimed", IF manifest = None THEN "removeAgain" ELSE "idle")
  /\ UNCHANGED <<target, files, history>>

RemoveAgain(k) ==
  /\ Move(k, "removeAgain", "idle")
  /\ RemoveFiles
  /\ raced' = \/ raced \/ manifest # None
              \/ \E j \in Controllers \ {k} : AtWork(j)
  /\ UNCHANGED <<target, sessions, bound, stops, received, stray, broken>>

(***************************************************************************)
(* _wait_for_start, by attach and by a stop that finds start_pending.      *)
(***************************************************************************)
ObserveStart(k) ==
  /\ At(k, "waitStart") /\ status.state # NoFile
  /\ Goto(k, IF status.state # "active" THEN "startFailed"
             ELSE IF status.birth = expected[k] /\ manifest # None
             THEN "acknowledge" ELSE Raised(k))
  /\ UNCHANGED <<target, files, history>>

Acknowledge(k) ==
  /\ At(k, "acknowledge")
  /\ Goto(k, IF stopping[k] THEN "decide" ELSE "idle")
  /\ WriteControl("active", FALSE)
  /\ UNCHANGED <<target, history>>

\* Already over: deliver a complete report, report a failed start.
StartEnded(k) ==
  /\ At(k, "startFailed")
  /\ IF status.state = "complete" /\ manifest # None
       THEN /\ Enter(k, "deliver") /\ UNCHANGED <<expected, stopping>>
            /\ seen' = [seen EXCEPT ![k] = manifest]
       ELSE Goto(k, IF status.state = "complete" THEN Raised(k) ELSE "idle")
  /\ WriteControl("terminal", FALSE)
  /\ UNCHANGED <<target, history>>

\* --wait-timeout, or the user interrupts the wait: exit status 3, if the
\* manifest is there to be named.
Timeout(k) ==
  /\ At(k, "waitStart") \/ At(k, "waitStop")
  /\ Goto(k, IF manifest = None THEN Raised(k) ELSE "idle")
  /\ UNCHANGED <<target, files, history>>

(***************************************************************************)
(* The stop command.                                                       *)
(***************************************************************************)
\* A stop does not look whether another command is at work on the session.
Race(k) == raced' = (raced \/ \E j \in Controllers \ {k} : AtWork(j))

Readable == manifest # None /\ control.state # NoFile

StopBegin(k) ==
  /\ At(k, "idle") /\ Readable
  /\ expected' = [expected EXCEPT ![k] = bound[manifest]]
  /\ stopping' = [stopping EXCEPT ![k] = TRUE]
  /\ seen' = [seen EXCEPT ![k] = manifest]
  /\ Enter(k, IF Terminal(status) THEN "terminal"
              ELSE IF control.state = "start_pending" THEN "waitStart"
              ELSE "decide")
  /\ Race(k)
  /\ UNCHANGED <<target, files, sessions, bound, stops, received, stray, broken>>

\* The target still runs, and the session is active: schedule a stop.
Here(k) == alive /\ birth = expected[k]

MScheduleAgain(k) ==
  /\ At(k, "decide")
  /\ Goto(k, IF control.state = NoFile \/ ~Here(k) THEN "idle"
             ELSE "stopWrite")
  /\ UNCHANGED <<target, files, history>>

Decide(k) ==
  /\ At(k, "decide")
  /\ Goto(k, IF control.state = NoFile \/ ~Here(k) THEN "idle"
             ELSE IF control.state = "active" THEN "stopWrite" ELSE "waitStop")
  /\ UNCHANGED <<target, files, history>>

\* Recorded before it is scheduled.
StopWrite(k) ==
  /\ Move(k, "stopWrite", "stopExec")
  /\ WriteControl("stop_pending", control.delivered)
  /\ UNCHANGED <<target, history>>

StopExec(k) ==
  /\ At(k, "stopExec") /\ alive
  /\ slot' = "stop"
  /\ stops' = [stops EXCEPT ![seen[k]] = @ + 1]
  /\ Goto(k, IF birth = expected[k] THEN "waitStop" ELSE "idle")
  /\ UNCHANGED <<birth, alive, agent, monitoring, files, sessions, bound, received, stray, raced, broken>>

MStopFailsSilently(k) ==
  /\ Move(k, "stopExec", "idle")
  /\ UNCHANGED <<target, files, history>>

StopExecFails(k) ==
  /\ Move(k, "stopExec", "idle")
  /\ WriteControl("active", control.delivered)
  /\ UNCHANGED <<target, history>>

\* _wait_for_stop: the status first, then whether the process is still there.
ObserveStop(k) ==
  /\ At(k, "waitStop")
  /\ \/ /\ Terminal(status) /\ Enter(k, "terminal")
        /\ seen' = [seen EXCEPT ![k] = manifest]
        /\ UNCHANGED <<expected, stopping>>
     \/ ~Terminal(status) /\ ~Here(k) /\ Goto(k, "idle")
  /\ UNCHANGED <<target, files, history>>

WriteTerminal(k) ==
  /\ At(k, "terminal")
  /\ Goto(k, IF control.state = NoFile \/ seen[k] = None
             THEN "idle" ELSE "deliver")
  /\ IF control.state = NoFile
       THEN UNCHANGED files
       ELSE WriteControl("terminal", control.delivered)
  /\ UNCHANGED <<target, history>>

(***************************************************************************)
(* _deliver: the report to its destination, a note of that, the end.       *)
(***************************************************************************)
Deliver(k) ==
  /\ At(k, "deliver")
  /\ IF control.delivered
       THEN Goto(k, "finish") /\ UNCHANGED received
       ELSE IF control.state = NoFile \/ artifact = None
       THEN /\ Goto(k, IF control.state = NoFile THEN Raised(k) ELSE "idle")
            /\ UNCHANGED received
       ELSE /\ received' = received \union {<<seen[k], artifact>>}
            /\ Goto(k, "note")
  /\ UNCHANGED <<target, files, sessions, bound,
                 stops, stray, raced, broken>>

MDeliverSwallows(k) ==
  /\ Move(k, "deliver", "finish") /\ ~control.delivered
  /\ UNCHANGED <<target, files, history>>

\* The destination cannot be written: the session is kept.
DeliverFails(k) ==
  /\ Move(k, "deliver", "idle") /\ ~control.delivered
  /\ UNCHANGED <<target, files, history>>

NoteDelivered(k) ==
  /\ Move(k, "note", "finish")
  /\ WriteControl("terminal", TRUE)
  /\ UNCHANGED <<target, history>>

\* A session whose target reported errors is kept for the user to discard.
Finish(k) ==
  /\ At(k, "finish")
  /\ Goto(k, IF status.state = "failed" THEN "idle" ELSE "remove")
  /\ UNCHANGED <<target, files, history>>

\* Pruning the package cache comes next, and may raise; a scheduling that
\* failed is raised again.
Remove(k) ==
  /\ \/ pc[k] \in {"remove", "discard"} /\ Goto(k, "idle")
     \/ pc[k] \in {"remove", "cleanUp"} /\ Goto(k, Raised(k))
  /\ RemoveFiles
  /\ UNCHANGED <<target, history>>

MDiscardAlways(state) == TRUE

MayDiscard(state) == ~(alive /\ birth = bound[manifest] /\ state \in Unfinished)

\* stop --discard.
DiscardBegin(k) ==
  /\ Move(k, "idle", "discard") /\ Readable
  /\ MayDiscard(control.state)
  /\ Race(k)
  /\ UNCHANGED <<target, files, sessions, bound,
                 stops, received, stray, broken>>

\* A command is killed, or fails where nothing cleans up after it.
Crash(k) ==
  /\ pc[k] \notin {"idle", "waitStart", "waitStop"}
  /\ Goto(k, "idle")
  /\ broken' = TRUE
  /\ UNCHANGED <<target, files, sessions, bound,
                 stops, received, stray, raced>>

Continue(k) ==
  \/ Reserve(k) \/ PrepareFails(k) \/ WriteManifest(k) \/ WriteScripts(k)
  \/ WritePending(k) \/ StartExec(k) \/ StartExecFails(k)
  \/ FindDirectory(k) \/ FindNoManifest(k) \/ RemoveAgain(k)
  \/ ObserveStart(k) \/ Acknowledge(k) \/ StartEnded(k) \/ Timeout(k)
  \/ Decide(k) \/ StopWrite(k) \/ StopExec(k) \/ StopExecFails(k)
  \/ ObserveStop(k) \/ WriteTerminal(k)
  \/ Deliver(k) \/ DeliverFails(k) \/ NoteDelivered(k) \/ Finish(k) \/ Remove(k)

Target == RunStart \/ RunStop \/ Application \/ RecoverAtExit \/ Die \/ Reuse

Next ==
  \/ Target
  \/ \E k \in Controllers :
       AttachBegin(k) \/ StopBegin(k) \/ DiscardBegin(k) \/ Continue(k) \/ Crash(k)

Spec == Init /\ [][Next]_vars

\* A command goes on; the target gets to run a script; the user repeats stop
\* and stop --discard.  Scheduling and delivery do not fail for ever, nor is a
\* wait always cut short when the answer is there (it looks before it sleeps).
FairSpec ==
  /\ Spec
  /\ WF_vars(RunStart \/ RunStop)
  /\ \A k \in Controllers : WF_vars(Continue(k))
  /\ SF_vars(\E k \in Controllers : StopBegin(k))
  /\ SF_vars(\E k \in Controllers : DiscardBegin(k))
  /\ SF_vars(\E k \in Controllers : StopExec(k) \/ Deliver(k))
  /\ SF_vars(\E k \in Controllers : ObserveStart(k) \/ ObserveStop(k))

(***************************************************************************)
(* Properties.  Any number of attach commands may be at work; of a stop or *)
(* a discard that began beside another command (raced) nothing is said:    *)
(* two stops write the controller status over each other, and a discard    *)
(* removes what an attach command has just written.  So may the handler of *)
(* an attach that failed, the only attach that races.                      *)
(***************************************************************************)
Quiet == \A k \in Controllers : At(k, "idle")

\* A monitor that attach installed can be stopped at any time: whatever
\* commands died or timed out, as long as it is active its session is there,
\* and the controller side knows that the session is not over.  But for a race
\* (above) the one exception is a start script left with a process that got
\* the id between the check and the scheduling: it may start a later session,
\* before the command of that session has recorded anything.
ActiveIsReachable ==
  agent # None /\ Quiet /\ ~stray /\ ~raced =>
    manifest = agent /\ scripts /\ control.state \in Unfinished

\* What the files say is so: while the process a session was made for lives
\* and its status is not final, a session recorded as acknowledged is the
\* target's active one, so that a stop has something to wait for.  Excepted
\* are a race, which wrote one over the other, and a target that could not
\* write its final status (broken); of a process that died it says nothing.
ActiveMeansMonitored ==
  /\ control.state \in {"active", "stop_pending"} /\ ~Terminal(status)
  /\ alive /\ birth = bound[manifest] /\ ~broken /\ ~raced
  => agent = manifest

\* The report that reaches the destinations of a session is the report of
\* that session, but for a session that a stray start script (see above) began:
\* its report may land beside a later one; or for a race, in which a session
\* may be discarded and a new one begun while a stop is still delivering.
OwnReport == ~stray /\ ~raced => \A r \in received : r[1] = r[2]

\* A complete session is removed only when its report has been received,
\* unless the user discards it (or a stray start script, see above, began it
\* behind the back of a command whose own scheduling then fails, or one
\* command races another to the removal).
DeliveredBeforeRemoved ==
  [][\A k \in Controllers :
       /\ ~At(k, "discard") /\ (Remove(k) \/ RemoveAgain(k))
       /\ status.state = "complete" /\ ~stray /\ ~raced'
       => <<manifest, manifest>> \in received]_vars

\* docs/attachment.md: a repeated stop waits for the existing request; it does
\* not schedule another stop.  Repeated, not simultaneous: two stops that both
\* read "active" before either writes "stop_pending" both schedule.
NoSecondStop == ~raced => \A s \in Sessions : stops[s] <= 1

(***************************************************************************)
(* What carries the safety properties from step to step.                   *)
(***************************************************************************)
\* Of all commands one works: mkdir lets one attach command go on, and a stop
\* that begins beside another command is a race.
OneAtWork == \A j, k \in Controllers : AtWork(j) /\ AtWork(k) => j = k

\* Before "scripts" a command has no session, and "discard" is about any.
Sessionless == {"idle", "reserve", "prepare", "discard", "handler", "unclaimed",
                "removeAgain"}
Preparing == {"scripts", "pending", "startExec", "cleanUp"}
Starting == {"startExec", "waitStart", "acknowledge", "startFailed"}
Ending == {"startFailed", "terminal", "deliver", "note", "finish"}

\* What a command has read, and what it is about to do, is true of the files.
CommandFits ==
  \A k \in Controllers :
    /\ pc[k] \notin Sessionless =>
         /\ manifest # None
         /\ seen[k] = manifest /\ expected[k] = bound[manifest]
    /\ At(k, "prepare") => manifest = None
    /\ pc[k] \in {"scripts", "pending"} => control = NoControl
    /\ At(k, "pending") => scripts
    /\ pc[k] \in Starting => control.state = "start_pending"
    /\ At(k, "note") => control # NoControl
    /\ At(k, "acknowledge") => status.state # NoFile
    /\ At(k, "stopWrite") => control.state = "active"
    /\ At(k, "stopExec") => control.state = "stop_pending"

\* A command delivers for a session it has read.
HasSession == \A k \in Controllers : At(k, "deliver") => seen[k] # None

\* A controller status is there only beside a manifest and the scripts; and
\* the directory stands for whoever works.
FilesFit ==
  /\ ~directory => manifest = None /\ \A k \in Controllers : ~AtWork(k)
  /\ control # NoControl => manifest # None /\ scripts
  /\ scripts => manifest # None
  /\ manifest <= sessions

\* An active status was written by the process the session was made for, which
\* goes on monitoring for it while it lives.
StatusFits ==
  /\ ~alive => slot = NoFile /\ agent = None
  /\ status.state = "active" =>
       /\ manifest # None /\ status.birth = bound[manifest]
       /\ status.birth <= birth
       /\ alive /\ status.birth = birth /\ ~broken => agent = manifest
  /\ control.state \in {"active", "stop_pending"} => status.state # NoFile

\* A session that may yet be stopped has not been.
StopsFit ==
  /\ manifest # None /\ (\/ control.state \in {NoFile, "start_pending", "active"}
                         \/ \E k \in Controllers : At(k, "stopExec"))
       => stops[manifest] = 0
  /\ \A s \in Sessions : s > sessions => stops[s] = 0

Untouched == status = NoStatus /\ artifact = None /\ slot # "start" /\ agent = None

Received == <<manifest, manifest>> \in received

\* Without a stray start script what happens in the target is about the
\* session whose files are there.
SessionFits ==
  /\ manifest = None \/ (\E k \in Controllers : pc[k] \in Preparing) => Untouched
  /\ slot = "start" => /\ manifest # None /\ bound[manifest] = birth
                       /\ control.state = "start_pending"
                       /\ status = NoStatus /\ agent = None
  /\ agent # None => /\ manifest = agent /\ bound[manifest] = birth
                     /\ scripts /\ control.state \in Unfinished
                     /\ status.state = "active"
  /\ artifact \in {None, manifest}
  /\ control.delivered => Received
  /\ \A k \in Controllers :
       /\ pc[k] \in Ending => Terminal(status)
       /\ pc[k] \in {"note", "finish"} => Received
       /\ pc[k] \in {"remove", "discard"} => agent = None /\ slot # "start"
       /\ At(k, "remove") /\ status.state = "complete" => Received

AttachmentInv ==
  /\ TypeOK /\ HasSession
  /\ ~raced =>
       /\ OneAtWork /\ CommandFits /\ FilesFit /\ StatusFits /\ StopsFit
       /\ NoSecondStop
       /\ ~stray => SessionFits /\ OwnReport

\* As long as no command is killed, repeating stop, or stop --discard where
\* stop cannot finish, ends every session (or the commands begin to race).
EventuallyCleared ==
  manifest # None /\ ~broken ~> manifest = None \/ broken \/ raced
=============================================================================
