--------------------------- MODULE FlibustaUpdate ---------------------------
(* The updater of src/flibusta.rs and what its callers do with its result: an *)
(* update takes a file lock, reads the index of the source, downloads the     *)
(* archives the library does not have into a staging directory of its own,    *)
(* validates them, renames them into the library one by one, writes a state   *)
(* file, and a scan of the same process follows.  Updates are started by the  *)
(* scheduler of the server, which does not wait for them, and by the command  *)
(* line, in processes of their own; beside them run the other scans of every  *)
(* process, and an operator who puts archives into the library or removes     *)
(* them.  What a scan does with an archive is the subject of LibraryScan and  *)
(* ArchiveScan; here it has a lock (SCAN_LOCK, one per process) and a walk.   *)
(*                                                                            *)
(* Archives are downloaded and published in the order of their names; here    *)
(* the order is any.                                                          *)
EXTENDS Integers, FiniteSets

CONSTANTS
  Archive,          \* names on the index that match flibusta.file_pattern
  Process, Server,  \* the processes of the command line, and the server
  Updater, ProcOf,  \* tasks that call flibusta::run, and the process of each
  DryRunner,        \* those that may be given dry_run (--update-dry-run)
  Retries,          \* flibusta.retries
  ValidateZip,      \* flibusta.validate_zip
  ScanAfterUpdate,  \* flibusta.scan_after_update
  Faults,           \* what may go wrong in this instance
  MaxMishaps,       \* bound on how often a process is killed or the operator acts
  Gone, Nobody, Nothing

\* Whoever starts a scan of the server that follows no update.
Other == "scheduled or requested"

ASSUME UpdateAssumption ==
  /\ Server \in Process
  /\ ProcOf \in [Updater -> Process] /\ DryRunner \subseteq Updater
  /\ Nobody \notin Updater /\ Other \notin Updater /\ Nothing \notin Archive
  /\ Retries \in Nat \ {0} /\ MaxMishaps \in Nat
  /\ ValidateZip \in BOOLEAN /\ ScanAfterUpdate \in BOOLEAN
  /\ Faults \subseteq {"http", "io"}

VARIABLES
  lib,       \* the archives in the library: "own" if the operator put it there
  source,    \* the archives the index of the source lists
  flock,     \* the updater that holds flibusta-update.lock
  stateFile, \* flibusta-update-state.json: its status, and whether result.downloaded
             \* is the number of result.files
  pc,        \* every updater's step
  dry,       \* its argument dry_run
  files,     \* result.files: the archives the library did not have
  todo,      \* those not yet downloaded and validated
  cur,       \* the archive it downloads or renames
  tries,     \* failed attempts at cur
  staged,    \* its staging directory
  moved,     \* the archives it published (result.downloaded counts them)
  outcome,   \* what run_locked returned
  scanner,   \* who scans in every process: SCAN_LOCK is taken unless it is Nobody
  walk,      \* the archives that scan found; Nothing before the walk
  mishaps    \* how often that has happened

world == <<lib, source, flock, stateFile, mishaps>>
run  == <<dry, files, todo, cur, tries, staged, moved, outcome>>
scan == <<scanner, walk>>
vars == <<world, pc, run, scan>>

\* What a file of the staging directory may be.
Downloads == {"part", "whole", "damaged"}

WorldTypeOK ==
  /\ lib \in [Archive -> {Gone, "own"} \cup Downloads]
  /\ source \subseteq Archive
  /\ flock \in Updater \cup {Nobody}
  /\ stateFile \in [status : {"dry-run", "success", "failed"}, complete : BOOLEAN]
                  \cup {Nothing}
  /\ mishaps \in 0..MaxMishaps
PlanTypeOK ==
  /\ pc \in [Updater -> {"idle", "discover", "download", "check", "publish", "rename",
                         "clean", "report", "return", "scan", "scanning"}]
  /\ dry \in [Updater -> BOOLEAN]
  /\ files \in [Updater -> SUBSET Archive] /\ todo \in [Updater -> SUBSET Archive]
  /\ cur \in [Updater -> Archive \cup {Nothing}]
WorkTypeOK ==
  /\ tries \in [Updater -> 0..Retries - 1]
  /\ staged \in [Updater -> [Archive -> Downloads \cup {Gone}]]
  /\ moved \in [Updater -> SUBSET Archive]
  /\ outcome \in [Updater -> {"ok", "failed"}]
ScanTypeOK ==
  /\ scanner \in [Process -> Updater \cup {Other, Nobody}]
  /\ walk \in [Process -> (SUBSET Archive) \cup {Nothing}]
TypeOK == WorldTypeOK /\ PlanTypeOK /\ WorkTypeOK /\ ScanTypeOK

Empty == [a \in Archive |-> Gone]

Init ==
  /\ lib = Empty /\ source = {} /\ flock = Nobody /\ stateFile = Nothing
  /\ pc = [u \in Updater |-> "idle"]
  /\ dry = [u \in Updater |-> FALSE]
  /\ files = [u \in Updater |-> {}] /\ todo = [u \in Updater |-> {}]
  /\ cur = [u \in Updater |-> Nothing] /\ tries = [u \in Updater |-> 0]
  /\ staged = [u \in Updater |-> Empty]
  /\ moved = [u \in Updater |-> {}] /\ outcome = [u \in Updater |-> "ok"]
  /\ scanner = [p \in Process |-> Nobody] /\ walk = [p \in Process |-> Nothing]
  /\ mishaps = 0

\* flibusta::run returned in these tasks, or they are gone.
Forget(U) ==
  /\ dry'    = [u \in Updater |-> IF u \in U THEN FALSE ELSE dry[u]]
  /\ files'  = [u \in Updater |-> IF u \in U THEN {} ELSE files[u]]
  /\ todo'   = [u \in Updater |-> IF u \in U THEN {} ELSE todo[u]]
  /\ cur'    = [u \in Updater |-> IF u \in U THEN Nothing ELSE cur[u]]
  /\ tries'  = [u \in Updater |-> IF u \in U THEN 0 ELSE tries[u]]
  /\ staged' = [u \in Updater |-> IF u \in U THEN Empty ELSE staged[u]]
  /\ moved'  = [u \in Updater |-> IF u \in U THEN {} ELSE moved[u]]
  /\ outcome' = [u \in Updater |-> IF u \in U THEN "ok" ELSE outcome[u]]

Goto(u, label) == pc' = [pc EXCEPT ![u] = label]

\* run_locked returns an error; the staging directory is removed if there is one.
Fail(u, label) == outcome' = [outcome EXCEPT ![u] = "failed"] /\ Goto(u, label)

-----------------------------------------------------------------------------
(* flibusta::run and run_locked                                               *)

\* Mutant of Start: the lock is opened, and shared.
StartUnlocked(u) ==
  /\ pc[u] = "idle"
  /\ flock' = u
  /\ \E d \in IF u \in DryRunner THEN BOOLEAN ELSE {FALSE} : dry' = [dry EXCEPT ![u] = d]
  /\ Goto(u, "discover")
  /\ UNCHANGED <<lib, source, stateFile, files, todo, cur, tries, staged, moved, outcome,
                 scan, mishaps>>

\* try_lock_exclusive; an updater that does not get the lock ends with AlreadyRunning.
Start(u) ==
  /\ pc[u] = "idle" /\ flock = Nobody
  /\ flock' = u
  /\ \E d \in IF u \in DryRunner THEN BOOLEAN ELSE {FALSE} : dry' = [dry EXCEPT ![u] = d]
  /\ Goto(u, "discover")
  /\ UNCHANGED <<lib, source, stateFile, files, todo, cur, tries, staged, moved, outcome,
                 scan, mishaps>>

\* discover_with_retry found links, and the library is asked for each of them.
Discover(u) ==
  /\ pc[u] = "discover" /\ source # {}
  /\ LET missing == {a \in source : lib[a] = Gone} IN
       /\ files' = [files EXCEPT ![u] = missing]
       /\ IF dry[u] \/ missing = {}
            THEN todo' = todo /\ Goto(u, "report")
            ELSE todo' = [todo EXCEPT ![u] = missing] /\ Goto(u, "download")
  /\ UNCHANGED <<world, dry, cur, tries, staged, moved, outcome, scan>>

\* No attempt at the index succeeded, or it lists nothing.
DiscoverFails(u) ==
  /\ pc[u] = "discover" /\ (source = {} \/ "http" \in Faults)
  /\ Fail(u, "report")
  /\ UNCHANGED <<world, dry, files, todo, cur, tries, staged, moved, scan>>

\* download: the file is created in the staging directory; by a further attempt, again.
BeginDownload(u) ==
  /\ pc[u] = "download"
  /\ \E a \in IF cur[u] = Nothing THEN todo[u] ELSE {cur[u]} :
       /\ staged[u][a] = Gone
       /\ staged' = [staged EXCEPT ![u][a] = "part"]
       /\ cur' = [cur EXCEPT ![u] = a]
  /\ UNCHANGED <<world, pc, dry, files, todo, tries, moved, outcome, scan>>

Receiving(u) == pc[u] = "download" /\ cur[u] # Nothing /\ staged[u][cur[u]] = "part"

\* The response ended.  Nothing compares its length with what was announced, and
\* what the source sends need not be a ZIP file.
EndDownload(u) ==
  /\ Receiving(u)
  /\ \E d \in {"whole"} \cup (IF "http" \in Faults THEN {"damaged"} ELSE {}) :
       staged' = [staged EXCEPT ![u][cur[u]] = d]
  /\ tries' = [tries EXCEPT ![u] = 0]
  /\ Goto(u, "check")
  /\ UNCHANGED <<world, dry, files, todo, cur, moved, outcome, scan>>

\* Mutant of DownloadFails: the attempts are not counted.
DownloadFailsUncounted(u) ==
  /\ Receiving(u) /\ "http" \in Faults
  /\ staged' = [staged EXCEPT ![u][cur[u]] = Gone]
  /\ UNCHANGED <<world, pc, dry, files, todo, cur, tries, moved, outcome, scan>>

\* The attempt failed: an HTTP error, a time-out, an empty or too long response.  The
\* file is removed before the next attempt, or with the staging directory.
DownloadFails(u) ==
  /\ Receiving(u) /\ "http" \in Faults
  /\ staged' = [staged EXCEPT ![u][cur[u]] = Gone]
  /\ IF tries[u] + 1 < Retries
       THEN tries' = [tries EXCEPT ![u] = @ + 1] /\ UNCHANGED <<pc, outcome>>
       ELSE tries' = [tries EXCEPT ![u] = 0] /\ Fail(u, "clean")
  /\ UNCHANGED <<world, dry, files, todo, cur, moved, scan>>

\* Mutant of Check: the result of validate_zip is dropped.
CheckNothing(u) ==
  /\ pc[u] = "check"
  /\ todo' = [todo EXCEPT ![u] = @ \ {cur[u]}]
  /\ cur' = [cur EXCEPT ![u] = Nothing]
  /\ Goto(u, IF todo[u] = {cur[u]} THEN "publish" ELSE "download")
  /\ UNCHANGED <<world, dry, files, tries, staged, moved, outcome, scan>>

\* validate_zip.
Check(u) ==
  /\ pc[u] = "check"
  /\ IF ValidateZip /\ staged[u][cur[u]] = "damaged"
       THEN Fail(u, "clean") /\ UNCHANGED <<todo, cur>>
       ELSE /\ todo' = [todo EXCEPT ![u] = @ \ {cur[u]}]
            /\ cur' = [cur EXCEPT ![u] = Nothing]
            /\ Goto(u, IF todo[u] = {cur[u]} THEN "publish" ELSE "download")
            /\ outcome' = outcome
  /\ UNCHANGED <<world, dry, files, tries, staged, moved, scan>>

\* Too little free space, a batch that is too large, or an I/O error.
LimitExceeded(u) ==
  /\ pc[u] \in {"download", "check"} /\ "io" \in Faults
  /\ Fail(u, "clean")
  /\ UNCHANGED <<world, dry, files, todo, cur, tries, staged, moved, scan>>

\* target.exists() for the next archive, or the loop is done.
CheckTarget(u) ==
  /\ pc[u] = "publish"
  /\ IF moved[u] = files[u]
       THEN Goto(u, "clean") /\ UNCHANGED <<cur, outcome>>
       ELSE \E a \in files[u] \ moved[u] :
              IF lib[a] # Gone THEN Fail(u, "clean") /\ cur' = cur
              ELSE Goto(u, "rename") /\ cur' = [cur EXCEPT ![u] = a] /\ outcome' = outcome
  /\ UNCHANGED <<world, dry, files, todo, tries, staged, moved, scan>>

\* fs::rename, which replaces a file that has appeared in the meantime.
Rename(u) ==
  /\ pc[u] = "rename"
  /\ lib' = [lib EXCEPT ![cur[u]] = staged[u][cur[u]]]
  /\ staged' = [staged EXCEPT ![u][cur[u]] = Gone]
  /\ moved' = [moved EXCEPT ![u] = @ \cup {cur[u]}]
  /\ Goto(u, "publish")
  /\ UNCHANGED <<source, flock, stateFile, dry, files, todo, cur, tries, outcome, scan, mishaps>>

\* Mutant of RenameFails: the error is dropped, as those of remove_file are.
RenameFailsUnseen(u) ==
  /\ pc[u] = "rename" /\ "io" \in Faults
  /\ Goto(u, "clean")
  /\ UNCHANGED <<world, run, scan>>

RenameFails(u) ==
  /\ pc[u] = "rename" /\ "io" \in Faults
  /\ Fail(u, "clean")
  /\ UNCHANGED <<world, dry, files, todo, cur, tries, staged, moved, scan>>

\* remove_dir_all(staging).
Clean(u) ==
  /\ pc[u] = "clean"
  /\ staged' = [staged EXCEPT ![u] = Empty]
  /\ todo' = [todo EXCEPT ![u] = {}]
  /\ cur' = [cur EXCEPT ![u] = Nothing]
  /\ Goto(u, "report")
  /\ UNCHANGED <<world, dry, files, tries, moved, outcome, scan>>

\* write_state, which renames a complete file.  If the file cannot be written, the update has
\* failed for its caller, whatever it published.
Report(u) ==
  /\ pc[u] = "report"
  /\ \/ /\ stateFile' = [status |-> IF outcome[u] = "failed" THEN "failed"
                                    ELSE IF dry[u] THEN "dry-run" ELSE "success",
                         complete |-> moved[u] = files[u]]
        /\ outcome' = outcome
     \/ /\ "io" \in Faults
        /\ stateFile' = stateFile
        /\ outcome' = [outcome EXCEPT ![u] = "failed"]
  /\ Goto(u, "return")
  /\ UNCHANGED <<lib, source, flock, dry, files, todo, cur, tries, staged, moved, scan, mishaps>>

\* Mutant of Return: the caller scans after a run that found nothing to download.
ReturnScansIdly(u) ==
  /\ pc[u] = "return"
  /\ flock' = Nobody
  /\ Goto(u, IF outcome[u] = "ok" /\ moved[u] = {} /\ ScanAfterUpdate THEN "scan" ELSE "idle")
  /\ Forget({u})
  /\ UNCHANGED <<lib, source, stateFile, scan, mishaps>>

\* unlock, and the caller scans if the update succeeded and downloaded something.
Return(u) ==
  /\ pc[u] = "return"
  /\ flock' = Nobody
  /\ Goto(u, IF outcome[u] = "ok" /\ moved[u] # {} /\ ScanAfterUpdate THEN "scan" ELSE "idle")
  /\ Forget({u})
  /\ UNCHANGED <<lib, source, stateFile, scan, mishaps>>

-----------------------------------------------------------------------------
(* Scans                                                                      *)

\* run_scan after the update: SCAN_LOCK of its process, or AlreadyRunning.
PostUpdateScan(u) ==
  /\ pc[u] = "scan"
  /\ IF scanner[ProcOf[u]] = Nobody
       THEN scanner' = [scanner EXCEPT ![ProcOf[u]] = u] /\ Goto(u, "scanning")
       ELSE scanner' = scanner /\ Goto(u, "idle")
  /\ UNCHANGED <<world, run, walk>>

\* A scheduled scan of the server, or one an administrator asked for.
OtherScan ==
  /\ scanner[Server] = Nobody
  /\ scanner' = [scanner EXCEPT ![Server] = Other]
  /\ UNCHANGED <<world, pc, run, walk>>

\* The walk ignores directories whose names begin with a dot, the staging
\* directory and the control directory of the updater among them.
Walk(p) ==
  /\ scanner[p] # Nobody /\ walk[p] = Nothing
  /\ walk' = [walk EXCEPT ![p] = {a \in Archive : lib[a] # Gone}]
  /\ UNCHANGED <<world, pc, run, scanner>>

EndScan(p) ==
  /\ walk[p] # Nothing
  /\ scanner' = [scanner EXCEPT ![p] = Nobody]
  /\ walk' = [walk EXCEPT ![p] = Nothing]
  /\ pc' = [u \in Updater |-> IF scanner[p] = u THEN "idle" ELSE pc[u]]
  /\ UNCHANGED <<world, run>>

-----------------------------------------------------------------------------
(* Everything else                                                            *)

\* The source publishes an archive.
SourcePublishes ==
  /\ \E a \in Archive \ source : source' = source \cup {a}
  /\ UNCHANGED <<lib, flock, stateFile, pc, run, scan, mishaps>>

\* The operator puts an archive into the library, or removes one.
OperatorChanges ==
  /\ mishaps < MaxMishaps
  /\ mishaps' = mishaps + 1
  /\ \E a \in Archive : lib' = [lib EXCEPT ![a] = IF @ = Gone THEN "own" ELSE Gone]
  /\ UNCHANGED <<source, flock, stateFile, pc, run, scan>>

\* A process is killed.  The file lock goes with it; its staging directory stays,
\* and no later run looks at it.
Crash(p) ==
  /\ mishaps < MaxMishaps
  /\ mishaps' = mishaps + 1
  /\ LET dead == {u \in Updater : ProcOf[u] = p} IN
       /\ pc' = [u \in Updater |-> IF u \in dead THEN "idle" ELSE pc[u]]
       /\ Forget(dead)
       /\ flock' = IF flock \in dead THEN Nobody ELSE flock
  /\ scanner' = [scanner EXCEPT ![p] = Nobody]
  /\ walk' = [walk EXCEPT ![p] = Nothing]
  /\ UNCHANGED <<lib, source, stateFile>>

Progress(u) ==
  \/ Discover(u) \/ DiscoverFails(u)
  \/ BeginDownload(u) \/ EndDownload(u) \/ DownloadFails(u) \/ Check(u) \/ LimitExceeded(u)
  \/ CheckTarget(u) \/ Rename(u) \/ RenameFails(u) \/ Clean(u)
  \/ Report(u) \/ Return(u) \/ PostUpdateScan(u)

Next ==
  \/ \E u \in Updater : Start(u) \/ Progress(u)
  \/ \E p \in Process : Walk(p) \/ EndScan(p) \/ Crash(p)
  \/ OtherScan \/ SourcePublishes \/ OperatorChanges

Spec == Init /\ [][Next]_vars

(* Fairness: every await of an update has a time limit (flibusta.timeout_secs *)
(* of the HTTP client), so an update and what its caller does with the result *)
(* go on; and a scan that runs ends (ScanTerminates of LibraryScan).  Nobody  *)
(* has to start an update or another scan: the schedule may be empty.         *)
FairSpec ==
  /\ Spec
  /\ \A u \in Updater : WF_vars(Progress(u))
  /\ \A p \in Process : WF_vars(Walk(p)) /\ WF_vars(EndScan(p))

-----------------------------------------------------------------------------
(* Properties                                                                 *)

\* No archive that was cut off or damaged on the way is ever in the library, where
\* a scan could meet it, whatever fails and whenever a process is killed
\* ("validate every ZIP before publishing", README.md:332).
OnlyWholeArchives == ValidateZip => \A a \in Archive : lib[a] \in {Gone, "own", "whole"}

\* An update publishes an archive the library does not have: no two updates, of the
\* scheduler and the command line, download the same archive, and none replaces
\* what another one published.
PublishedOnce ==
  [][\A u \in Updater : \A a \in moved'[u] \ moved[u] : lib[a] \in {Gone, "own"}]_vars

\* What the state file says is what happened: an update that is reported as a
\* success has published every archive it found missing.
StateFileIsTrue ==
  stateFile # Nothing /\ stateFile.status = "success" => stateFile.complete

\* An update that was started gives the lock back, however often its downloads fail.
UpdateEnds == \A u \in Updater : flock = u ~> flock # u

Met(a) == \E p \in Process : walk[p] # Nothing /\ a \in walk[p]

\* A scan of the updater's process that walked before the archive was there is still running
\* when the scan after the update is due, which is then refused.
MissedBy(u, a) ==
  LET p == ProcOf[u] IN
  pc[u] = "scan" /\ scanner[p] \notin {u, Nobody} /\ walk[p] # Nothing /\ a \notin walk[p]

\* scan_after_update: what an update published, when nothing of it failed, is met by a scan, its
\* own or the one that its own is refused for, and no later scan is needed; unless that one had
\* already walked, the state file cannot be written, or a process is killed or the operator acts.
BatchIsScanned ==
  ScanAfterUpdate =>
    \A u \in Updater, a \in Archive, m \in 0..MaxMishaps :
      (pc[u] = "report" /\ outcome[u] = "ok" /\ a \in moved[u] /\ lib[a] # Gone /\ mishaps = m)
        ~> (Met(a) \/ MissedBy(u, a) \/ (pc[u] = "return" /\ outcome[u] = "failed") \/ mishaps > m)

=============================================================================
