---------------------------- MODULE PackageCache ----------------------------
(***************************************************************************)
(* The package archives an attachment puts beside its sessions: the target *)
(* imports metapathology from one of them and goes on needing it after the *)
(* session is over, and any command that ends deletes the archives nothing *)
(* refers to.                                                              *)
(*                                                                         *)
(* Code: stage_package and write_process_lease (_attachment_protocol.py),  *)
(* _prune_package_cache and its callers attach, stop and _deliver          *)
(* (_attachment.py), the start script and start (_attachment_agent.py).    *)
(* What Attachment says in detail about one session is here reduced to     *)
(* what a session does to the archives; here there are several process     *)
(* ids, which share them, and several versions of metapathology.           *)
(*                                                                         *)
(* Operators whose name starts with M are faults the checks are measured   *)
(* with: each stands for a plausible mistake in the definition below it.   *)
(***************************************************************************)
EXTENDS Naturals

CONSTANTS
  Commands,    \* attach and stop commands that may run at the same time
  Pids,        \* process ids of targets
  Versions,    \* of metapathology: one archive each, named by its fingerprint
  MaxBirths,   \* bound: processes that get a process id, one by one
  None

ASSUME NoneAssumption == None \notin Versions
ASSUME BirthAssumption == MaxBirths \in Nat \ {0}

Births == 1..MaxBirths
Sessions == [version : Versions, birth : Births]
Processes == Pids \X Births
PC == {"idle", "manifests", "leases", "archives", "unlink", "reserve", "stage",
       "manifest", "exec", "wait", "acknowledge", "stop", "waitStop",
       "deliver", "remove", "handler", "unclaimed", "removeAgain"}

VARIABLES
  birth, alive,  \* the process that has each process id, or had it last
  slot,       \* the script remote_exec has left with it
  loaded,     \* the version it has imported, or None
  served,     \* history: it has been monitored from that version
  directory, manifest, status, control,  \* the session of each process id
  archives,   \* packages/: versions
  leases,     \* leases/: a version for each process, or None
  pc, pid, version, expected,  \* locals of a command
  stopping,   \* it is a stop command
  after,      \* where it goes after pruning
  unread, referenced, doomed,  \* locals of _prune_package_cache: the
              \* manifests or leases to be read, what those read refer to,
              \* the archives to be unlinked
  raced       \* history: one of the races below happened

target == <<birth, alive, slot, loaded, served>>
session == <<directory, manifest, status, control>>
locals == <<pc, pid, version, expected, stopping, after, unread, referenced,
            doomed>>
vars == <<target, session, archives, leases, locals, raced>>

\* The files of a session that name no session.
Fresh == [version |-> None, birth |-> 0]
NoStatus == [state |-> "none", birth |-> 0]
HasManifest(p) == manifest[p] # Fresh

TypeOK ==
  /\ birth \in [Pids -> Births] /\ alive \in [Pids -> BOOLEAN]
  /\ slot \in [Pids -> {"none", "start", "stop"}]
  /\ loaded \in [Pids -> Versions \union {None}]
  /\ served \in [Pids -> BOOLEAN]
  /\ directory \in [Pids -> BOOLEAN]
  /\ manifest \in [Pids -> Sessions \union {Fresh}]
  /\ status \in [Pids -> [state : {"none", "active", "complete", "failed"},
                         birth : Births \union {0}]]
  /\ control \in [Pids -> {"none", "start_pending", "active", "terminal"}]
  /\ archives \subseteq Versions
  /\ leases \in [Processes -> Versions \union {None}]
  /\ pc \in [Commands -> PC]
  /\ after \in [Commands -> {"idle", "reserve", "handler"}]
  /\ pid \in [Commands -> Pids \union {None}]
  /\ version \in [Commands -> Versions \union {None}]
  /\ expected \in [Commands -> Births \union {0}]
  /\ stopping \in [Commands -> BOOLEAN]
  /\ unread \in [Commands -> SUBSET (Pids \union Processes)]
  /\ referenced \in [Commands -> SUBSET Versions]
  /\ doomed \in [Commands -> SUBSET Versions]
  /\ raced \in BOOLEAN

Init ==
  /\ birth = [p \in Pids |-> 1] /\ alive = [p \in Pids |-> TRUE]
  /\ slot = [p \in Pids |-> "none"]
  /\ loaded = [p \in Pids |-> None] /\ served = [p \in Pids |-> FALSE]
  /\ directory = [p \in Pids |-> FALSE] /\ manifest = [p \in Pids |-> Fresh]
  /\ status = [p \in Pids |-> NoStatus] /\ control = [p \in Pids |-> "none"]
  /\ archives = {} /\ leases = [q \in Processes |-> None]
  /\ pc = [k \in Commands |-> "idle"] /\ after = [k \in Commands |-> "idle"]
  /\ pid = [k \in Commands |-> None] /\ version = [k \in Commands |-> None]
  /\ expected = [k \in Commands |-> 0]
  /\ stopping = [k \in Commands |-> FALSE]
  /\ unread = [k \in Commands |-> {}]
  /\ referenced = [k \in Commands |-> {}] /\ doomed = [k \in Commands |-> {}]
  /\ raced = FALSE

At(k, label) == pc[k] = label
Goto(k, label) == pc' = [pc EXCEPT ![k] = label]
Prune(k, label) ==
  /\ Goto(k, "manifests")
  /\ after' = [after EXCEPT ![k] = label]
  /\ unread' = [unread EXCEPT ![k] = Pids]
  /\ UNCHANGED <<referenced, doomed>>
SetControl(p, state) ==
  /\ control' = [control EXCEPT ![p] = state]
  /\ directory' = [directory EXCEPT ![p] = TRUE]
KeepsRun == UNCHANGED <<pid, version, expected, stopping>>
KeepsPrune == UNCHANGED <<after, unread, referenced, doomed>>
\* The session is gone; the rest of the command does not ask for its locals.
PrunesOnly(k) ==
  /\ version' = [version EXCEPT ![k] = None]
  /\ expected' = [expected EXCEPT ![k] = 0]
  /\ UNCHANGED <<pid, stopping>>
Goes(k, label) == Goto(k, label) /\ KeepsRun /\ KeepsPrune

Terminal(p) == status[p].state \in {"complete", "failed"}

Forgets(k) ==
  /\ version' = [version EXCEPT ![k] = None]
  /\ expected' = [expected EXCEPT ![k] = 0]
  /\ stopping' = [stopping EXCEPT ![k] = FALSE]
  /\ after' = [after EXCEPT ![k] = "idle"]
  /\ unread' = [unread EXCEPT ![k] = {}]
  /\ referenced' = [referenced EXCEPT ![k] = {}]
  /\ doomed' = [doomed EXCEPT ![k] = {}]
\* The command ends, and its locals with it.
Ends(k) == Goto(k, "idle") /\ pid' = [pid EXCEPT ![k] = None] /\ Forgets(k)
\* An exception gets to the handler of attach, which knows the session only.
Handles(k) == Goto(k, "handler") /\ UNCHANGED pid /\ Forgets(k)

(***************************************************************************)
(* _prune_package_cache: the manifests one by one, then the leases, then   *)
(* the archives.                                                           *)
(***************************************************************************)
Runs(q) == alive[q[1]] /\ birth[q[1]] = q[2]

ReadManifest(k, p) ==
  /\ At(k, "manifests") /\ p \in unread[k]
  /\ unread' = [unread EXCEPT ![k] = @ \ {p}]
  /\ referenced' = [referenced EXCEPT ![k] =
       @ \union (IF HasManifest(p) THEN {manifest[p].version} ELSE {})]
  /\ KeepsRun
  /\ UNCHANGED <<pc, after, doomed, target, session, archives, leases, raced>>

AllManifestsRead(k) ==
  /\ At(k, "manifests") /\ unread[k] = {}
  /\ unread' = [unread EXCEPT ![k] = Processes]
  /\ Goto(k, "leases")
  /\ KeepsRun
  /\ UNCHANGED <<after, referenced, doomed, target, session, archives, leases,
                 raced>>

MHeld(q) == {}
Held(q) == {leases[q]} \ {None}

\* A lease refers to its archive; that of a dead process is removed.
ReadLease(k, q) ==
  /\ At(k, "leases") /\ q \in unread[k]
  /\ unread' = [unread EXCEPT ![k] = @ \ {q}]
  /\ \/ /\ Runs(q) /\ UNCHANGED leases
        /\ referenced' = [referenced EXCEPT ![k] = @ \union Held(q)]
     \/ /\ ~Runs(q) /\ UNCHANGED referenced
        /\ leases' = [leases EXCEPT ![q] = None]
  /\ KeepsRun
  /\ UNCHANGED <<pc, after, doomed, target, session, archives, raced>>

AllLeasesRead(k) ==
  /\ At(k, "leases") /\ unread[k] = {}
  /\ Goto(k, "archives")
  /\ KeepsRun /\ KeepsPrune
  /\ UNCHANGED <<target, session, archives, leases, raced>>

ListArchives(k) ==
  /\ At(k, "archives")
  /\ doomed' = [doomed EXCEPT ![k] = archives \ referenced[k]]
  /\ Goto(k, "unlink")
  /\ KeepsRun
  /\ UNCHANGED <<after, unread, referenced, target, session, archives, leases,
                 raced>>

Unlink(k) ==
  /\ At(k, "unlink")
  /\ \E v \in doomed[k] \intersect archives :
       /\ archives' = archives \ {v}
       /\ doomed' = [doomed EXCEPT ![k] = @ \ {v}]
  /\ KeepsRun
  /\ UNCHANGED <<pc, after, unread, referenced, target, session, leases, raced>>

\* Another command has unlinked it: FileNotFoundError, which ends a command
\* but for an attach that has its handler yet to run.
UnlinkFails(k) ==
  /\ At(k, "unlink") /\ ~(doomed[k] \subseteq archives)
  /\ IF stopping[k] \/ after[k] = "reserve" THEN Ends(k) ELSE Handles(k)
  /\ UNCHANGED <<target, session, archives, leases, raced>>

Pruned(k) ==
  /\ At(k, "unlink") /\ doomed[k] = {}
  /\ \/ after[k] = "idle" /\ Ends(k)
     \/ after[k] = "handler" /\ Handles(k)
     \/ /\ after[k] = "reserve" /\ Goto(k, "reserve")
        /\ referenced' = [referenced EXCEPT ![k] = {}]
        /\ after' = [after EXCEPT ![k] = "idle"]
        /\ KeepsRun /\ UNCHANGED <<unread, doomed>>
  /\ UNCHANGED <<target, session, archives, leases, raced>>

(***************************************************************************)
(* attach                                                                  *)
(***************************************************************************)
AttachBegin(k, p, v) ==
  /\ At(k, "idle") /\ alive[p]
  /\ pid' = [pid EXCEPT ![k] = p] /\ version' = [version EXCEPT ![k] = v]
  /\ expected' = [expected EXCEPT ![k] = birth[p]]
  /\ stopping' = [stopping EXCEPT ![k] = FALSE]
  /\ Prune(k, "reserve")
  /\ UNCHANGED <<target, session, archives, leases, raced>>

Reserve(k) ==
  /\ At(k, "reserve")
  /\ IF directory[pid[k]]
       THEN Ends(k) /\ UNCHANGED directory
       ELSE Goes(k, "stage") /\ directory' = [directory EXCEPT ![pid[k]] = TRUE]
  /\ UNCHANGED <<target, manifest, status, control, archives, leases, raced>>

Stage(k) ==
  /\ At(k, "stage")
  /\ archives' = archives \union {version[k]}
  /\ Goes(k, "manifest")
  /\ UNCHANGED <<target, session, leases, raced>>

\* Race: a prune that did not see this manifest may take its archive yet, or
\* has taken it.
Uncovered(k) ==
  \/ version[k] \notin archives
  \/ \E j \in Commands \ {k} :
       \/ /\ At(j, "manifests") /\ pid[k] \notin unread[j]
          /\ version[k] \notin referenced[j]
       \/ pc[j] \in {"leases", "archives"} /\ version[k] \notin referenced[j]
       \/ At(j, "unlink") /\ version[k] \in doomed[j]

WriteManifest(k) ==
  /\ At(k, "manifest") /\ ~HasManifest(pid[k])
  /\ manifest' = [manifest EXCEPT ![pid[k]] =
                    [version |-> version[k], birth |-> expected[k]]]
  /\ directory' = [directory EXCEPT ![pid[k]] = TRUE]
  /\ raced' = (raced \/ Uncovered(k))
  /\ Goes(k, "exec")
  /\ UNCHANGED <<target, status, control, archives, leases>>

\* _remove_session
RemoveSession(p) ==
  /\ directory' = [directory EXCEPT ![p] = FALSE]
  /\ manifest' = [manifest EXCEPT ![p] = Fresh]
  /\ status' = [status EXCEPT ![p] = NoStatus]
  /\ control' = [control EXCEPT ![p] = "none"]

\* Race: the process id has been reused, and _verify_birth raises too late.
StartExec(k) ==
  /\ At(k, "exec") /\ alive[pid[k]]
  /\ SetControl(pid[k], "start_pending")
  /\ slot' = [slot EXCEPT ![pid[k]] = "start"]
  /\ IF birth[pid[k]] = expected[k] THEN Goes(k, "wait") /\ UNCHANGED raced
                                    ELSE Handles(k) /\ raced' = TRUE
  /\ UNCHANGED <<birth, alive, loaded, served, manifest, status, archives,
                 leases>>

\* The inner handler; attach's own follows when it has raised again.
StartExecFails(k) ==
  /\ At(k, "exec")
  /\ RemoveSession(pid[k])
  /\ Prune(k, "handler")
  /\ PrunesOnly(k)
  /\ UNCHANGED <<target, archives, leases, raced>>

ObserveStart(k) ==
  /\ At(k, "wait") /\ status[pid[k]].state # "none"
  /\ IF status[pid[k]].state = "active"
       THEN /\ status[pid[k]].birth = expected[k]
            /\ Goes(k, "acknowledge") /\ UNCHANGED <<control, directory>>
       ELSE SetControl(pid[k], "terminal") /\ Goes(k, "deliver")
  /\ UNCHANGED <<target, manifest, status, archives, leases, raced>>

\* write_process_lease, from the manifest that is there by now.  Race: that of
\* another session.
Lease(k) ==
  [leases EXCEPT ![<<pid[k], expected[k]>>] = manifest[pid[k]].version]

OtherSession(k) ==
  \/ manifest[pid[k]].birth # expected[k]
  \/ /\ Runs(<<pid[k], expected[k]>>)
     /\ manifest[pid[k]].version # loaded[pid[k]]

Acknowledge(k) ==
  /\ At(k, "acknowledge") /\ HasManifest(pid[k])
  /\ leases' = Lease(k)
  /\ raced' = (raced \/ OtherSession(k))
  /\ SetControl(pid[k], "active")
  /\ IF stopping[k] THEN Goes(k, "stop") ELSE Ends(k)
  /\ UNCHANGED <<target, manifest, status, archives>>

(***************************************************************************)
(* stop                                                                    *)
(***************************************************************************)
StopBegin(k, p) ==
  /\ At(k, "idle") /\ HasManifest(p)
  /\ pid' = [pid EXCEPT ![k] = p]
  /\ version' = [version EXCEPT ![k] = manifest[p].version]
  /\ expected' = [expected EXCEPT ![k] = manifest[p].birth]
  /\ stopping' = [stopping EXCEPT ![k] = TRUE]
  /\ \/ /\ Terminal(p)
        /\ SetControl(p, "terminal") /\ Goto(k, "deliver")
     \/ /\ ~Terminal(p)
        /\ \/ control[p] = "start_pending" /\ Goto(k, "wait")
           \* "active" is also stop_pending, after which it only waits.
           \/ /\ control[p] = "active" /\ Runs(<<p, manifest[p].birth>>)
              /\ Goto(k, "stop") \/ Goto(k, "waitStop")
        /\ UNCHANGED <<control, directory>>
  /\ KeepsPrune
  /\ UNCHANGED <<target, manifest, status, archives, leases, raced>>

MayExecute(p) ==
  Runs(<<p, manifest[p].birth>>) /\ control[p] \in {"start_pending", "active"}

Discard(k, p) ==
  /\ At(k, "idle") /\ HasManifest(p) /\ ~MayExecute(p)
  /\ pid' = [pid EXCEPT ![k] = p]
  /\ stopping' = [stopping EXCEPT ![k] = TRUE]
  /\ Goto(k, "remove")
  /\ KeepsPrune
  /\ UNCHANGED <<version, expected, target, session, archives, leases, raced>>

StopExec(k) ==
  /\ At(k, "stop") /\ Runs(<<pid[k], expected[k]>>)
  /\ slot' = [slot EXCEPT ![pid[k]] = "stop"]
  /\ Goes(k, "waitStop")
  /\ UNCHANGED <<birth, alive, loaded, served, session, archives, leases,
                 raced>>

ObserveStop(k) ==
  /\ At(k, "waitStop") /\ Terminal(pid[k])
  /\ SetControl(pid[k], "terminal") /\ Goes(k, "deliver")
  /\ UNCHANGED <<target, manifest, status, archives, leases, raced>>

\* _deliver; after a failed session nothing is removed.
Deliver(k) ==
  /\ At(k, "deliver") /\ status[pid[k]].state = "complete"
  /\ Goes(k, "remove")
  /\ UNCHANGED <<target, session, archives, leases, raced>>

\* Race: by now it is another session, or the one to be discarded is started.
Started(k, p) ==
  HasManifest(p) /\ (\/ MayExecute(p)
                     \/ \E j \in Commands \ {k} : At(j, "exec") /\ pid[j] = p)

Remove(k) ==
  /\ At(k, "remove") /\ directory[pid[k]]
  /\ raced' = (raced \/ Started(k, pid[k]))
  /\ RemoveSession(pid[k])
  /\ Prune(k, "idle")
  /\ PrunesOnly(k)
  /\ UNCHANGED <<target, archives, leases>>

(***************************************************************************)
(* The handler around all of attach that follows the reservation: it       *)
(* removes a session directory that has no manifest, be it its own or not. *)
(***************************************************************************)
Reserved(k) ==
  \/ pc[k] \in {"stage", "manifest", "exec", "wait", "acknowledge", "deliver",
               "remove"}
  \/ pc[k] \in {"manifests", "leases", "archives"} /\ after[k] # "reserve"

\* Anything may fail, or the user interrupts it.
Raises(k) ==
  /\ Reserved(k) /\ ~stopping[k]
  /\ Handles(k)
  /\ UNCHANGED <<target, session, archives, leases, raced>>

FindDirectory(k) ==
  /\ At(k, "handler")
  /\ IF directory[pid[k]] THEN Goes(k, "unclaimed") ELSE Ends(k)
  /\ UNCHANGED <<target, session, archives, leases, raced>>

FindNoManifest(k) ==
  /\ At(k, "unclaimed")
  /\ IF HasManifest(pid[k]) THEN Ends(k) ELSE Goes(k, "removeAgain")
  /\ UNCHANGED <<target, session, archives, leases, raced>>

\* Race: another attach command has made its session there meanwhile.
RemoveAgain(k) ==
  /\ At(k, "removeAgain") /\ directory[pid[k]]
  /\ raced' = (raced \/ Started(k, pid[k]))
  /\ RemoveSession(pid[k])
  /\ Ends(k)
  /\ UNCHANGED <<target, archives, leases>>

\* A timeout, an error of a stop command, or a crash of either.
GiveUp(k) ==
  /\ ~At(k, "idle")
  /\ Ends(k)
  /\ UNCHANGED <<target, session, archives, leases, raced>>

(***************************************************************************)
(* The target.                                                             *)
(***************************************************************************)
SetStatus(p, state) ==
  /\ status' = [status EXCEPT ![p] = [state |-> state, birth |-> birth[p]]]
  /\ directory' = [directory EXCEPT ![p] = TRUE]

\* The script opens the archive, imports from it unless metapathology is
\* there already, and start() refuses another process's manifest and another
\* version's package.  It may fail at any point.
RunStart(p) ==
  /\ alive[p] /\ slot[p] = "start"
  /\ slot' = [slot EXCEPT ![p] = "none"]
  /\ \/ /\ HasManifest(p) /\ manifest[p].version \in archives
        /\ loaded[p] \in {None, manifest[p].version}
        /\ loaded' = [loaded EXCEPT ![p] = manifest[p].version]
        /\ \/ /\ manifest[p].birth = birth[p]
              /\ served' = [served EXCEPT ![p] = TRUE]
              /\ SetStatus(p, "active")
           \/ UNCHANGED served /\ SetStatus(p, "failed")
     \/ HasManifest(p) /\ SetStatus(p, "failed") /\ UNCHANGED <<loaded, served>>
     \/ ~HasManifest(p) /\ UNCHANGED <<loaded, served, status, directory>>
  /\ UNCHANGED <<birth, alive, manifest, control, archives, leases, locals,
                 raced>>

\* The report is made, or not, and the session is over; the process lives on.
Finalize(p) == \E state \in {"complete", "failed"} : SetStatus(p, state)

RunStop(p) ==
  /\ alive[p] /\ slot[p] = "stop"
  /\ slot' = [slot EXCEPT ![p] = "none"]
  /\ \/ status[p].state = "active" /\ Finalize(p)
     \/ UNCHANGED <<status, directory>>
  /\ UNCHANGED <<birth, alive, loaded, served, manifest, control, archives,
                 leases, locals, raced>>

\* The interpreter runs the atexit functions and goes on for a while, still
\* monitored.  Race: no command has acknowledged the session, and none will
\* write a lease now that it is over.
RecoverAtExit(p) ==
  /\ alive[p] /\ served[p]
  /\ status[p] = [state |-> "active", birth |-> birth[p]]
  /\ Finalize(p)
  /\ raced' = (raced \/ leases[<<p, birth[p]>>] # loaded[p])
  /\ UNCHANGED <<target, manifest, control, archives, leases, locals>>

Exit(p) ==
  /\ alive[p]
  /\ alive' = [alive EXCEPT ![p] = FALSE]
  /\ slot' = [slot EXCEPT ![p] = "none"]
  /\ loaded' = [loaded EXCEPT ![p] = None]
  /\ served' = [served EXCEPT ![p] = FALSE]
  /\ UNCHANGED <<birth, session, archives, leases, locals, raced>>

\* The process id names another process.
Reuse(p) ==
  /\ ~alive[p] /\ birth[p] < MaxBirths
  /\ birth' = [birth EXCEPT ![p] = @ + 1]
  /\ alive' = [alive EXCEPT ![p] = TRUE]
  /\ UNCHANGED <<slot, loaded, served, session, archives, leases, locals,
                 raced>>

Next ==
  \/ \E k \in Commands :
       \/ \E p \in Pids : ReadManifest(k, p)
       \/ AllManifestsRead(k)
       \/ \E q \in Processes : ReadLease(k, q)
       \/ AllLeasesRead(k) \/ ListArchives(k)
       \/ Unlink(k) \/ UnlinkFails(k) \/ Pruned(k)
       \/ \E p \in Pids, v \in Versions : AttachBegin(k, p, v)
       \/ Reserve(k) \/ Stage(k) \/ WriteManifest(k)
       \/ StartExec(k) \/ StartExecFails(k) \/ ObserveStart(k) \/ Acknowledge(k)
       \/ \E p \in Pids : StopBegin(k, p) \/ Discard(k, p)
       \/ StopExec(k) \/ ObserveStop(k) \/ Deliver(k) \/ Remove(k) \/ GiveUp(k)
       \/ Raises(k) \/ FindDirectory(k) \/ FindNoManifest(k) \/ RemoveAgain(k)
  \/ \E p \in Pids :
       RunStart(p) \/ RunStop(p) \/ RecoverAtExit(p) \/ Exit(p) \/ Reuse(p)

Spec == Init /\ [][Next]_vars

(***************************************************************************)
(* Properties.                                                             *)
(***************************************************************************)
\* "Package archives remain available until no retained session references
\* them, because later imports ... can still depend on the archive"
\* (docs/attachment.md:83-85) and "Retain package source until the referenced
\* process birth is gone" (write_process_lease): no order of commands takes
\* away the archive of a session or of a process that was ever monitored from
\* it, but for the races.
SourceStays ==
  raced \/ \A p \in Pids :
             /\ HasManifest(p) => manifest[p].version \in archives
             /\ alive[p] /\ served[p] => loaded[p] \in archives

(***************************************************************************)
(* What carries it from step to step.                                      *)
(***************************************************************************)
Pruning == {"manifests", "leases", "archives", "unlink"}

\* A command that runs is about a process, and one that will do more than
\* prune, remove and clean up knows the version and the birth.
Over == Pruning \union {"idle", "remove", "handler", "unclaimed", "removeAgain"}
LocalsFit ==
  \A k \in Commands :
    /\ IF At(k, "idle") THEN expected[k] = 0 ELSE pid[k] \in Pids
    /\ after[k] = "reserve" => pc[k] \in Pruning
    /\ pc[k] \notin Over \/ after[k] = "reserve" =>
         version[k] \in Versions /\ expected[k] \in Births

\* Nothing names a birth that is yet to come.
BirthsGrow ==
  /\ \A p \in Pids : HasManifest(p) => manifest[p].birth <= birth[p]
  /\ \A k \in Commands : pid[k] \in Pids => expected[k] <= birth[pid[k]]

\* A dead process has nothing left to run and is not monitored.
DeadIsQuiet ==
  \A p \in Pids : /\ ~alive[p] => slot[p] = "none" /\ ~served[p]
                  /\ served[p] => loaded[p] # None

Leased(p) == loaded[p] # None /\ leases[<<p, birth[p]>>] = loaded[p]

\* The process serves a session that no command has acknowledged yet.
Starting(p) ==
  /\ manifest[p] = [version |-> loaded[p], birth |-> birth[p]]
  /\ control[p] = "start_pending" /\ status[p].state = "active"
  /\ slot[p] = "none"

\* A session's files are there only beside its manifest, and a start script
\* that has not run is that of the session.
FilesOfOneSession ==
  \A p \in Pids :
    /\ status[p].state # "none" \/ control[p] # "none" \/ slot[p] = "start"
         => HasManifest(p)
    /\ slot[p] = "start" => /\ manifest[p].birth = birth[p]
                            /\ control[p] \in {"start_pending", "active"}
                            /\ status[p].state = "none"

\* The command that is about to start a session has it for itself.
StartIsAlone ==
  \A k \in Commands : At(k, "exec") =>
    /\ manifest[pid[k]] = [version |-> version[k], birth |-> expected[k]]
    /\ status[pid[k]].state = "none" /\ slot[pid[k]] # "start"
    /\ \A j \in Commands : At(j, "exec") /\ pid[j] = pid[k] => j = k

\* What a process was ever monitored from is leased to it, or it is still
\* starting; an acknowledged session has its lease.
ServedIsCovered ==
  /\ \A p \in Pids :
       /\ alive[p] /\ served[p] => Leased(p) \/ Starting(p)
       /\ HasManifest(p) /\ control[p] = "active" /\ Runs(<<p, manifest[p].birth>>)
            => Leased(p)
  /\ \A k \in Commands :
       At(k, "stop") /\ Runs(<<pid[k], expected[k]>>) => Leased(pid[k])

\* A prune spares what a session or a monitored process needs: it has read
\* that it is needed, or has that yet to read.
PruneSpares ==
  \A k \in Commands, p \in Pids :
    /\ At(k, "manifests") =>
         /\ HasManifest(p) => p \in unread[k] \/ manifest[p].version \in referenced[k]
         /\ alive[p] /\ served[p] =>
              \/ loaded[p] \in referenced[k] \/ Leased(p)
              \/ Starting(p) /\ p \in unread[k]
    /\ At(k, "leases") =>
         /\ HasManifest(p) => manifest[p].version \in referenced[k]
         /\ alive[p] /\ served[p] =>
              \/ loaded[p] \in referenced[k]
              \/ Leased(p) /\ <<p, birth[p]>> \in unread[k]
    /\ At(k, "archives") =>
         /\ HasManifest(p) => manifest[p].version \in referenced[k]
         /\ alive[p] /\ served[p] => loaded[p] \in referenced[k]
    /\ At(k, "unlink") =>
         /\ HasManifest(p) => manifest[p].version \notin doomed[k]
         /\ alive[p] /\ served[p] => loaded[p] \notin doomed[k]

CacheInv ==
  /\ TypeOK /\ LocalsFit /\ BirthsGrow /\ DeadIsQuiet
  /\ raced \/ (/\ FilesOfOneSession /\ StartIsAlone /\ ServedIsCovered
               /\ PruneSpares)
  /\ SourceStays
=============================================================================
