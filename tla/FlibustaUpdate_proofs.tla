------------------------ MODULE FlibustaUpdate_proofs ------------------------
(* What an update promises, proved for any number of archives, processes and  *)
(* updaters, and whatever goes wrong on the way.                              *)
EXTENDS FlibustaUpdate, TLAPS

-----------------------------------------------------------------------------
(* The invariant behind the promises.                                         *)

\* An updater at work has the lock, so there is at most one.
Working == {"discover", "download", "check", "publish", "rename", "clean", "report", "return"}
LockIsHeld == \A u \in Updater : pc[u] \in Working => flock = u

\* An updater that has the lock of a scan waits for that scan, in its own process.
ScanIsAwaited ==
  \A p \in Process : \A u \in Updater : scanner[p] = u => pc[u] = "scanning" /\ ProcOf[u] = p

\* Nothing is published before everything is downloaded, and an updater that returned has
\* forgotten what it did.
NothingMovedYet ==
  \A u \in Updater :
    /\ pc[u] \in {"idle", "discover", "download", "check", "scan", "scanning"} => moved[u] = {}
    /\ pc[u] \in {"idle", "discover", "scan", "scanning"} => cur[u] = Nothing

\* An archive is in todo until it is downloaded and validated; what is not is whole, until it
\* is renamed.
StagedIsWhole ==
  ValidateZip =>
    \A u \in Updater :
      /\ pc[u] \in {"download", "check"} =>
           /\ cur[u] \in todo[u] \cup {Nothing}
           /\ \A a \in files[u] \ todo[u] : staged[u][a] = "whole"
      /\ pc[u] = "check" => cur[u] \in Archive /\ staged[u][cur[u]] \in {"whole", "damaged"}
      /\ pc[u] \in {"publish", "rename"} => \A a \in files[u] \ moved[u] : staged[u][a] = "whole"

\* The archive to rename was not there when the updater looked, and only the operator has put
\* one there since.
TargetIsFree ==
  \A u \in Updater : pc[u] = "rename" =>
    cur[u] \in files[u] /\ cur[u] \notin moved[u] /\ lib[cur[u]] \in {Gone, "own"}

\* An update that has not failed at its end has published everything.
AllMoved ==
  \A u \in Updater :
    pc[u] \in {"clean", "report"} /\ outcome[u] = "ok" /\ ~dry[u] => moved[u] = files[u]

UpdateInv ==
  /\ TypeOK /\ LockIsHeld /\ ScanIsAwaited /\ NothingMovedYet /\ StagedIsWhole /\ TargetIsFree /\ AllMoved
  /\ OnlyWholeArchives /\ StateFileIsTrue

LEMMA InvAtStart == Init => UpdateInv
<1> SUFFICES ASSUME Init PROVE UpdateInv
    OBVIOUS
<1> USE UpdateAssumption DEF Init
<1>1. TypeOK
  <2>1. WorldTypeOK /\ ScanTypeOK
    BY DEF WorldTypeOK, ScanTypeOK, Empty
  <2>2. PlanTypeOK
    BY DEF PlanTypeOK
  <2>3. WorkTypeOK
    BY DEF WorkTypeOK, Empty
  <2> QED BY <2>1, <2>2, <2>3 DEF TypeOK
<1>2. LockIsHeld /\ NothingMovedYet /\ StagedIsWhole /\ TargetIsFree /\ AllMoved
  BY DEF LockIsHeld, NothingMovedYet, StagedIsWhole, TargetIsFree, AllMoved, Working
<1>3. ScanIsAwaited /\ OnlyWholeArchives /\ StateFileIsTrue
  BY DEF ScanIsAwaited, OnlyWholeArchives, StateFileIsTrue, Empty
<1> QED BY <1>1, <1>2, <1>3 DEF UpdateInv

LEMMA StartKeepsInv ==
  ASSUME UpdateInv, NEW u \in Updater, Start(u)
  PROVE  UpdateInv'
<1> USE UpdateAssumption DEF UpdateInv, TypeOK, WorldTypeOK, PlanTypeOK, WorkTypeOK,
        ScanTypeOK, Start, Goto, scan
<1>1. TypeOK'
  <2>1. WorldTypeOK' /\ ScanTypeOK'
    BY DEF Downloads, Empty
  <2>2. PICK d \in BOOLEAN : dry' = [dry EXCEPT ![u] = d]
    OBVIOUS
  <2>3. PlanTypeOK'
    BY <2>2
  <2>4. WorkTypeOK'
    OBVIOUS
  <2> QED BY <2>1, <2>3, <2>4
<1>2. LockIsHeld'
  BY DEF LockIsHeld, Working
<1>3. ScanIsAwaited'
  BY DEF ScanIsAwaited
<1>4. NothingMovedYet'
  BY DEF NothingMovedYet
<1>5. StagedIsWhole'
  BY DEF StagedIsWhole, NothingMovedYet
<1>6. TargetIsFree'
  BY DEF TargetIsFree
<1>7. AllMoved'
  BY DEF AllMoved, NothingMovedYet
<1>8. OnlyWholeArchives'
  BY DEF OnlyWholeArchives
<1>9. StateFileIsTrue'
  BY DEF StateFileIsTrue
<1> QED BY <1>1, <1>2, <1>3, <1>4, <1>5, <1>6, <1>7, <1>8, <1>9

LEMMA DiscoverKeepsInv ==
  ASSUME UpdateInv, NEW u \in Updater, Discover(u)
  PROVE  UpdateInv'
<1> USE UpdateAssumption DEF UpdateInv, TypeOK, WorldTypeOK, PlanTypeOK, WorkTypeOK,
        ScanTypeOK, Discover, Goto, world, scan
<1>1. TypeOK'
  <2>1. WorldTypeOK'
    BY DEF Downloads, Empty
  <2>2. PlanTypeOK'
    <3> HIDE DEF WorkTypeOK, ScanTypeOK
    <3> DEFINE missing == {a \in source : lib[a] = Gone}
    <3>1. missing \subseteq Archive
      OBVIOUS
    <3>2. files' = [files EXCEPT ![u] = missing] /\ dry' = dry /\ cur' = cur
      OBVIOUS
    <3>3. CASE todo' = todo /\ pc' = [pc EXCEPT ![u] = "report"]
      BY <3>1, <3>2, <3>3
    <3>4. CASE todo' = [todo EXCEPT ![u] = missing] /\ pc' = [pc EXCEPT ![u] = "download"]
      BY <3>1, <3>2, <3>4
    <3> QED BY <3>3, <3>4
  <2>3. WorkTypeOK'
    BY DEF Downloads, Empty
  <2>4. ScanTypeOK'
    BY DEF Downloads, Empty
  <2> QED BY <2>1, <2>2, <2>3, <2>4
<1>2. LockIsHeld'
  BY DEF LockIsHeld, Working
<1>3. ScanIsAwaited'
  BY DEF ScanIsAwaited
<1>4. NothingMovedYet'
  BY DEF NothingMovedYet
<1>5. StagedIsWhole'
  <2>1. \A v \in Updater \ {u} : files'[v] = files[v] /\ todo'[v] = todo[v] /\ pc'[v] = pc[v]
    OBVIOUS
  <2>2. UNCHANGED <<cur, staged, moved>> /\ cur[u] = Nothing
    BY DEF NothingMovedYet
  <2>3. CASE pc'[u] = "report"
    BY <2>1, <2>2, <2>3 DEF StagedIsWhole
  <2>4. CASE pc'[u] # "report"
    <3>1. files'[u] \ todo'[u] = {} /\ pc'[u] = "download"
      BY <2>4
    <3> QED BY <2>1, <2>2, <3>1 DEF StagedIsWhole
  <2> QED BY <2>3, <2>4
<1>6. TargetIsFree'
  BY DEF TargetIsFree
<1>7. AllMoved'
  BY DEF AllMoved, NothingMovedYet
<1>8. OnlyWholeArchives'
  BY DEF OnlyWholeArchives
<1>9. StateFileIsTrue'
  BY DEF StateFileIsTrue
<1> QED BY <1>1, <1>2, <1>3, <1>4, <1>5, <1>6, <1>7, <1>8, <1>9

LEMMA DiscoverFailsKeepsInv ==
  ASSUME UpdateInv, NEW u \in Updater, DiscoverFails(u)
  PROVE  UpdateInv'
<1> USE UpdateAssumption DEF UpdateInv, TypeOK, WorldTypeOK, PlanTypeOK, WorkTypeOK,
        ScanTypeOK, DiscoverFails, Goto, Fail, world, scan
<1>1. TypeOK'
  BY DEF Downloads, Empty
<1>2. LockIsHeld'
  BY DEF LockIsHeld, Working
<1>3. ScanIsAwaited'
  BY DEF ScanIsAwaited
<1>4. NothingMovedYet'
  BY DEF NothingMovedYet
<1>5. StagedIsWhole'
  BY DEF StagedIsWhole, NothingMovedYet
<1>6. TargetIsFree'
  BY DEF TargetIsFree
<1>7. AllMoved'
  BY DEF AllMoved, NothingMovedYet
<1>8. OnlyWholeArchives'
  BY DEF OnlyWholeArchives
<1>9. StateFileIsTrue'
  BY DEF StateFileIsTrue
<1> QED BY <1>1, <1>2, <1>3, <1>4, <1>5, <1>6, <1>7, <1>8, <1>9

LEMMA BeginDownloadKeepsInv ==
  ASSUME UpdateInv, NEW u \in Updater, BeginDownload(u)
  PROVE  UpdateInv'
<1> USE UpdateAssumption DEF UpdateInv, TypeOK, WorldTypeOK, PlanTypeOK, WorkTypeOK,
        ScanTypeOK, BeginDownload, world, scan
<1>1. TypeOK'
  BY DEF Downloads, Empty
<1>2. LockIsHeld'
  BY DEF LockIsHeld, Working
<1>3. ScanIsAwaited'
  BY DEF ScanIsAwaited
<1>4. NothingMovedYet'
  BY DEF NothingMovedYet
<1>5. StagedIsWhole'
  BY DEF StagedIsWhole, NothingMovedYet
<1>6. TargetIsFree'
  BY DEF TargetIsFree
<1>7. AllMoved'
  BY DEF AllMoved, NothingMovedYet
<1>8. OnlyWholeArchives'
  BY DEF OnlyWholeArchives
<1>9. StateFileIsTrue'
  BY DEF StateFileIsTrue
<1> QED BY <1>1, <1>2, <1>3, <1>4, <1>5, <1>6, <1>7, <1>8, <1>9

LEMMA EndDownloadKeepsInv ==
  ASSUME UpdateInv, NEW u \in Updater, EndDownload(u)
  PROVE  UpdateInv'
<1> USE UpdateAssumption DEF UpdateInv, TypeOK, WorldTypeOK, PlanTypeOK, WorkTypeOK,
        ScanTypeOK, EndDownload, Goto, Receiving, world, scan
<1>1. TypeOK'
  BY DEF Downloads, Empty
<1>2. LockIsHeld'
  BY DEF LockIsHeld, Working
<1>3. ScanIsAwaited'
  BY DEF ScanIsAwaited
<1>4. NothingMovedYet'
  BY DEF NothingMovedYet
<1>5. StagedIsWhole'
  BY DEF StagedIsWhole, NothingMovedYet
<1>6. TargetIsFree'
  BY DEF TargetIsFree
<1>7. AllMoved'
  BY DEF AllMoved, NothingMovedYet
<1>8. OnlyWholeArchives'
  BY DEF OnlyWholeArchives
<1>9. StateFileIsTrue'
  BY DEF StateFileIsTrue
<1> QED BY <1>1, <1>2, <1>3, <1>4, <1>5, <1>6, <1>7, <1>8, <1>9

LEMMA DownloadFailsKeepsInv ==
  ASSUME UpdateInv, NEW u \in Updater, DownloadFails(u)
  PROVE  UpdateInv'
<1> USE UpdateAssumption DEF UpdateInv, TypeOK, WorldTypeOK, PlanTypeOK, WorkTypeOK,
        ScanTypeOK, DownloadFails, Goto, Fail, Receiving, world, scan
<1>1. TypeOK'
  <2>1. WorldTypeOK'
    BY DEF Downloads, Empty
  <2>2. PlanTypeOK'
    <3> HIDE DEF WorldTypeOK, WorkTypeOK, ScanTypeOK
    <3>1. UNCHANGED <<dry, files, todo, cur>>
      OBVIOUS
    <3>2. pc' = pc \/ pc' = [pc EXCEPT ![u] = "clean"]
      OBVIOUS
    <3> QED BY <3>1, <3>2
  <2>3. WorkTypeOK'
    <3> HIDE DEF WorldTypeOK, ScanTypeOK
    <3>1. cur[u] \in Archive
      OBVIOUS
    <3>2. staged' \in [Updater -> [Archive -> Downloads \cup {Gone}]]
      BY <3>1
    <3>3. tries' \in [Updater -> 0..Retries - 1]
      <4>1. CASE tries[u] + 1 < Retries
        <5>1. tries[u] + 1 \in 0..Retries - 1 /\ tries' = [tries EXCEPT ![u] = tries[u] + 1]
          BY <4>1
        <5> QED BY <5>1
      <4>2. CASE ~(tries[u] + 1 < Retries)
        BY <4>2
      <4> QED BY <4>1, <4>2
    <3>4. outcome' \in [Updater -> {"ok", "failed"}] /\ moved' = moved
      OBVIOUS
    <3> QED BY <3>2, <3>3, <3>4
  <2>4. ScanTypeOK'
    BY DEF Downloads, Empty
  <2> QED BY <2>1, <2>2, <2>3, <2>4
<1>2. LockIsHeld'
  BY DEF LockIsHeld, Working
<1>3. ScanIsAwaited'
  BY DEF ScanIsAwaited
<1>4. NothingMovedYet'
  BY DEF NothingMovedYet
<1>5. StagedIsWhole'
  BY DEF StagedIsWhole, NothingMovedYet
<1>6. TargetIsFree'
  BY DEF TargetIsFree
<1>7. AllMoved'
  BY DEF AllMoved, NothingMovedYet
<1>8. OnlyWholeArchives'
  BY DEF OnlyWholeArchives
<1>9. StateFileIsTrue'
  BY DEF StateFileIsTrue
<1> QED BY <1>1, <1>2, <1>3, <1>4, <1>5, <1>6, <1>7, <1>8, <1>9

LEMMA CheckKeepsInv ==
  ASSUME UpdateInv, NEW u \in Updater, Check(u)
  PROVE  UpdateInv'
<1> USE UpdateAssumption DEF UpdateInv, TypeOK, WorldTypeOK, PlanTypeOK, WorkTypeOK,
        ScanTypeOK, Check, Goto, Fail, world, scan
<1>1. TypeOK'
  <2>1. WorldTypeOK'
    BY DEF Downloads, Empty
  <2>2. PlanTypeOK'
    <3>1. CASE UNCHANGED <<todo, cur>>
      BY <3>1
    <3>2. CASE cur' = [cur EXCEPT ![u] = Nothing] /\ todo' = [todo EXCEPT ![u] = @ \ {cur[u]}]
      BY <3>2
    <3> QED BY <3>1, <3>2
  <2>3. WorkTypeOK'
    BY DEF Downloads, Empty
  <2>4. ScanTypeOK'
    BY DEF Downloads, Empty
  <2> QED BY <2>1, <2>2, <2>3, <2>4
<1>2. LockIsHeld'
  BY DEF LockIsHeld, Working
<1>3. ScanIsAwaited'
  BY DEF ScanIsAwaited
<1>4. NothingMovedYet'
  BY DEF NothingMovedYet
<1>5. StagedIsWhole'
  BY DEF StagedIsWhole, NothingMovedYet
<1>6. TargetIsFree'
  BY DEF TargetIsFree
<1>7. AllMoved'
  <2> HIDE DEF WorldTypeOK, WorkTypeOK, ScanTypeOK
  <2>1. UNCHANGED <<dry, moved, files>>
    OBVIOUS
  <2>2. \A v \in Updater : pc'[v] \in {"clean", "report"} /\ outcome'[v] = "ok" =>
                           pc'[v] = pc[v] /\ outcome'[v] = outcome[v]
    BY DEF WorkTypeOK
  <2> QED BY <2>1, <2>2 DEF AllMoved
<1>8. OnlyWholeArchives'
  BY DEF OnlyWholeArchives
<1>9. StateFileIsTrue'
  BY DEF StateFileIsTrue
<1> QED BY <1>1, <1>2, <1>3, <1>4, <1>5, <1>6, <1>7, <1>8, <1>9

LEMMA LimitExceededKeepsInv ==
  ASSUME UpdateInv, NEW u \in Updater, LimitExceeded(u)
  PROVE  UpdateInv'
<1> USE UpdateAssumption DEF UpdateInv, TypeOK, WorldTypeOK, PlanTypeOK, WorkTypeOK,
        ScanTypeOK, LimitExceeded, Goto, Fail, world, scan
<1>1. TypeOK'
  BY DEF Downloads, Empty
<1>2. LockIsHeld'
  BY DEF LockIsHeld, Working
<1>3. ScanIsAwaited'
  BY DEF ScanIsAwaited
<1>4. NothingMovedYet'
  BY DEF NothingMovedYet
<1>5. StagedIsWhole'
  BY DEF StagedIsWhole, NothingMovedYet
<1>6. TargetIsFree'
  BY DEF TargetIsFree
<1>7. AllMoved'
  BY DEF AllMoved, NothingMovedYet
<1>8. OnlyWholeArchives'
  BY DEF OnlyWholeArchives
<1>9. StateFileIsTrue'
  BY DEF StateFileIsTrue
<1> QED BY <1>1, <1>2, <1>3, <1>4, <1>5, <1>6, <1>7, <1>8, <1>9

LEMMA CheckTargetKeepsInv ==
  ASSUME UpdateInv, NEW u \in Updater, CheckTarget(u)
  PROVE  UpdateInv'
<1> USE UpdateAssumption DEF UpdateInv, TypeOK, WorldTypeOK, PlanTypeOK, WorkTypeOK,
        ScanTypeOK, CheckTarget, Goto, Fail, world, scan
<1>1. TypeOK'
  <2>1. WorldTypeOK'
    BY DEF Downloads, Empty
  <2>2. PlanTypeOK'
    <3> HIDE DEF WorldTypeOK, WorkTypeOK, ScanTypeOK
    <3>1. CASE UNCHANGED cur
      BY <3>1
    <3>2. CASE ~UNCHANGED cur
      BY <3>2
    <3> QED BY <3>1, <3>2
  <2>3. WorkTypeOK'
    BY DEF Downloads, Empty
  <2>4. ScanTypeOK'
    BY DEF Downloads, Empty
  <2> QED BY <2>1, <2>2, <2>3, <2>4
<1>2. LockIsHeld'
  BY DEF LockIsHeld, Working
<1>3. ScanIsAwaited'
  BY DEF ScanIsAwaited
<1>4. NothingMovedYet'
  BY DEF NothingMovedYet
<1>5. StagedIsWhole'
  BY DEF StagedIsWhole, NothingMovedYet
<1>6. TargetIsFree'
  BY DEF TargetIsFree
<1>7. AllMoved'
  BY DEF AllMoved, NothingMovedYet
<1>8. OnlyWholeArchives'
  BY DEF OnlyWholeArchives
<1>9. StateFileIsTrue'
  BY DEF StateFileIsTrue
<1> QED BY <1>1, <1>2, <1>3, <1>4, <1>5, <1>6, <1>7, <1>8, <1>9

LEMMA RenameKeepsInv ==
  ASSUME UpdateInv, NEW u \in Updater, Rename(u)
  PROVE  UpdateInv'
<1> USE UpdateAssumption DEF UpdateInv, TypeOK, WorldTypeOK, PlanTypeOK, WorkTypeOK,
        ScanTypeOK, Rename, Goto, scan
<1>1. TypeOK'
  <2>1. WorldTypeOK'
    <3>1. cur[u] \in Archive
      BY DEF TargetIsFree
    <3>2. staged[u] \in [Archive -> Downloads \cup {Gone}]
      OBVIOUS
    <3> QED BY <3>1, <3>2 DEF Downloads
  <2>2. PlanTypeOK'
    BY DEF Downloads, Empty
  <2>3. WorkTypeOK'
    <3>1. cur[u] \in Archive
      BY DEF TargetIsFree
    <3>2. staged' = [staged EXCEPT ![u] = [staged[u] EXCEPT ![cur[u]] = Gone]]
      OBVIOUS
    <3>3. [staged[u] EXCEPT ![cur[u]] = Gone] \in [Archive -> Downloads \cup {Gone}]
      BY <3>1
    <3>4. staged' \in [Updater -> [Archive -> Downloads \cup {Gone}]]
      BY <3>2, <3>3
    <3>5. moved' \in [Updater -> SUBSET Archive]
      BY <3>1
    <3> QED BY <3>4, <3>5
  <2>4. ScanTypeOK'
    BY DEF Downloads, Empty
  <2> QED BY <2>1, <2>2, <2>3, <2>4
<1>2. LockIsHeld'
  BY DEF LockIsHeld, Working
<1>3. ScanIsAwaited'
  BY DEF ScanIsAwaited
<1>4. NothingMovedYet'
  BY DEF NothingMovedYet
<1>5. StagedIsWhole'
  BY DEF StagedIsWhole, NothingMovedYet, LockIsHeld, Working
<1>6. TargetIsFree'
  BY DEF TargetIsFree, LockIsHeld, Working
<1>7. AllMoved'
  BY DEF AllMoved, NothingMovedYet
<1>8. OnlyWholeArchives'
  BY DEF OnlyWholeArchives, StagedIsWhole, TargetIsFree
<1>9. StateFileIsTrue'
  BY DEF StateFileIsTrue
<1> QED BY <1>1, <1>2, <1>3, <1>4, <1>5, <1>6, <1>7, <1>8, <1>9

LEMMA RenameFailsKeepsInv ==
  ASSUME UpdateInv, NEW u \in Updater, RenameFails(u)
  PROVE  UpdateInv'
<1> USE UpdateAssumption DEF UpdateInv, TypeOK, WorldTypeOK, PlanTypeOK, WorkTypeOK,
        ScanTypeOK, RenameFails, Goto, Fail, world, scan
<1>1. TypeOK'
  BY DEF Downloads, Empty
<1>2. LockIsHeld'
  BY DEF LockIsHeld, Working
<1>3. ScanIsAwaited'
  BY DEF ScanIsAwaited
<1>4. NothingMovedYet'
  BY DEF NothingMovedYet
<1>5. StagedIsWhole'
  BY DEF StagedIsWhole, NothingMovedYet
<1>6. TargetIsFree'
  BY DEF TargetIsFree
<1>7. AllMoved'
  BY DEF AllMoved, NothingMovedYet
<1>8. OnlyWholeArchives'
  BY DEF OnlyWholeArchives
<1>9. StateFileIsTrue'
  BY DEF StateFileIsTrue
<1> QED BY <1>1, <1>2, <1>3, <1>4, <1>5, <1>6, <1>7, <1>8, <1>9

LEMMA CleanKeepsInv ==
  ASSUME UpdateInv, NEW u \in Updater, Clean(u)
  PROVE  UpdateInv'
<1> USE UpdateAssumption DEF UpdateInv, TypeOK, WorldTypeOK, PlanTypeOK, WorkTypeOK,
        ScanTypeOK, Clean, Goto, Empty, world, scan
<1>1. TypeOK'
  BY DEF Downloads
<1>2. LockIsHeld'
  BY DEF LockIsHeld, Working
<1>3. ScanIsAwaited'
  BY DEF ScanIsAwaited
<1>4. NothingMovedYet'
  BY DEF NothingMovedYet
<1>5. StagedIsWhole'
  BY DEF StagedIsWhole, NothingMovedYet
<1>6. TargetIsFree'
  BY DEF TargetIsFree
<1>7. AllMoved'
  BY DEF AllMoved, NothingMovedYet
<1>8. OnlyWholeArchives'
  BY DEF OnlyWholeArchives
<1>9. StateFileIsTrue'
  BY DEF StateFileIsTrue
<1> QED BY <1>1, <1>2, <1>3, <1>4, <1>5, <1>6, <1>7, <1>8, <1>9

LEMMA ReportKeepsInv ==
  ASSUME UpdateInv, NEW u \in Updater, Report(u)
  PROVE  UpdateInv'
<1> USE UpdateAssumption DEF UpdateInv, TypeOK, WorldTypeOK, PlanTypeOK, WorkTypeOK,
        ScanTypeOK, Report, Goto, scan
<1>1. TypeOK'
  <2>1. WorldTypeOK'
    <3>1. stateFile' \in [status : {"dry-run", "success", "failed"}, complete : BOOLEAN] \cup {Nothing}
      <4>1. ASSUME NEW status \in {"dry-run", "success", "failed"}, NEW complete \in BOOLEAN
            PROVE  [status |-> status, complete |-> complete]
                     \in [status : {"dry-run", "success", "failed"}, complete : BOOLEAN]
        OBVIOUS
      <4>2. CASE stateFile' # stateFile
        <5> DEFINE status == IF outcome[u] = "failed" THEN "failed" ELSE IF dry[u] THEN "dry-run" ELSE "success"
        <5>1. stateFile' = [status |-> status, complete |-> moved[u] = files[u]]
          BY <4>2
        <5>2. status \in {"dry-run", "success", "failed"} /\ (moved[u] = files[u]) \in BOOLEAN
          OBVIOUS
        <5> HIDE DEF status
        <5> QED BY <4>1, <5>1, <5>2, Zenon
      <4> QED BY <4>2
    <3> QED BY <3>1
  <2>2. PlanTypeOK'
    BY DEF Downloads, Empty
  <2>3. WorkTypeOK'
    BY DEF Downloads, Empty
  <2>4. ScanTypeOK'
    BY DEF Downloads, Empty
  <2> QED BY <2>1, <2>2, <2>3, <2>4
<1>2. LockIsHeld'
  BY DEF LockIsHeld, Working
<1>3. ScanIsAwaited'
  BY DEF ScanIsAwaited
<1>4. NothingMovedYet'
  BY DEF NothingMovedYet
<1>5. StagedIsWhole'
  BY DEF StagedIsWhole, NothingMovedYet
<1>6. TargetIsFree'
  BY DEF TargetIsFree
<1>7. AllMoved'
  BY DEF AllMoved, NothingMovedYet
<1>8. OnlyWholeArchives'
  BY DEF OnlyWholeArchives
<1>9. StateFileIsTrue'
  <2>1. CASE stateFile' = stateFile
    BY <2>1 DEF StateFileIsTrue
  <2>2. CASE stateFile' # stateFile
    <3>1. stateFile' = [status |-> IF outcome[u] = "failed" THEN "failed" ELSE IF dry[u] THEN "dry-run" ELSE "success",
                        complete |-> moved[u] = files[u]]
      BY <2>2
    <3>2. outcome[u] = "ok" /\ ~dry[u] => moved[u] = files[u]
      BY DEF AllMoved
    <3> QED BY <3>1, <3>2 DEF StateFileIsTrue
  <2> QED BY <2>1, <2>2
<1> QED BY <1>1, <1>2, <1>3, <1>4, <1>5, <1>6, <1>7, <1>8, <1>9

LEMMA ReturnKeepsInv ==
  ASSUME UpdateInv, NEW u \in Updater, Return(u)
  PROVE  UpdateInv'
<1> USE UpdateAssumption DEF UpdateInv, TypeOK, WorldTypeOK, PlanTypeOK, WorkTypeOK,
        ScanTypeOK, Return, Goto, Forget, Empty, scan
<1>1. TypeOK'
  <2>1. WorldTypeOK'
    BY DEF Downloads
  <2>2. PlanTypeOK'
    BY DEF Downloads
  <2>3. WorkTypeOK'
    BY DEF Downloads
  <2>4. ScanTypeOK'
    BY DEF Downloads
  <2> QED BY <2>1, <2>2, <2>3, <2>4
<1>2. LockIsHeld'
  BY DEF LockIsHeld, Working
<1>3. ScanIsAwaited'
  BY DEF ScanIsAwaited
<1>4. NothingMovedYet'
  BY DEF NothingMovedYet
<1>5. StagedIsWhole'
  BY DEF StagedIsWhole, NothingMovedYet
<1>6. TargetIsFree'
  BY DEF TargetIsFree
<1>7. AllMoved'
  BY DEF AllMoved, NothingMovedYet
<1>8. OnlyWholeArchives'
  BY DEF OnlyWholeArchives
<1>9. StateFileIsTrue'
  BY DEF StateFileIsTrue
<1> QED BY <1>1, <1>2, <1>3, <1>4, <1>5, <1>6, <1>7, <1>8, <1>9

LEMMA PostUpdateScanKeepsInv ==
  ASSUME UpdateInv, NEW u \in Updater, PostUpdateScan(u)
  PROVE  UpdateInv'
<1> USE UpdateAssumption DEF UpdateInv, TypeOK, WorldTypeOK, PlanTypeOK, WorkTypeOK,
        ScanTypeOK, PostUpdateScan, Goto, world, run, scan
<1>1. TypeOK'
  <2>1. WorldTypeOK'
    BY DEF Downloads, Empty
  <2>2. PlanTypeOK'
    <3> HIDE DEF WorldTypeOK, WorkTypeOK
    <3>1. CASE scanner[ProcOf[u]] = Nobody
      BY <3>1
    <3>2. CASE scanner[ProcOf[u]] # Nobody
      BY <3>2
    <3> QED BY <3>1, <3>2
  <2>3. WorkTypeOK'
    BY DEF Downloads, Empty
  <2>4. ScanTypeOK'
    BY DEF Downloads, Empty
  <2> QED BY <2>1, <2>2, <2>3, <2>4
<1>2. LockIsHeld'
  BY DEF LockIsHeld, Working
<1>3. ScanIsAwaited'
  <2> HIDE DEF WorldTypeOK, WorkTypeOK
  <2>1. CASE scanner[ProcOf[u]] = Nobody
    BY <2>1 DEF ScanIsAwaited
  <2>2. CASE scanner[ProcOf[u]] # Nobody
    BY <2>2 DEF ScanIsAwaited
  <2> QED BY <2>1, <2>2
<1>4. NothingMovedYet'
  BY DEF NothingMovedYet
<1>5. StagedIsWhole'
  <2> HIDE DEF WorldTypeOK, ScanTypeOK
  <2>1. UNCHANGED <<cur, todo, files, staged, moved>>
    OBVIOUS
  <2>2. \A v \in Updater : pc'[v] \in {"download", "check", "publish", "rename"} => pc'[v] = pc[v]
    OBVIOUS
  <2> QED BY <2>1, <2>2 DEF StagedIsWhole
<1>6. TargetIsFree'
  BY DEF TargetIsFree
<1>7. AllMoved'
  BY DEF AllMoved, NothingMovedYet
<1>8. OnlyWholeArchives'
  BY DEF OnlyWholeArchives
<1>9. StateFileIsTrue'
  BY DEF StateFileIsTrue
<1> QED BY <1>1, <1>2, <1>3, <1>4, <1>5, <1>6, <1>7, <1>8, <1>9

LEMMA WalkKeepsInv ==
  ASSUME UpdateInv, NEW p \in Process, Walk(p)
  PROVE  UpdateInv'
<1> USE UpdateAssumption DEF UpdateInv, TypeOK, WorldTypeOK, PlanTypeOK, WorkTypeOK,
        ScanTypeOK, Walk, world, run
<1>1. TypeOK'
  BY DEF Downloads, Empty
<1>2. LockIsHeld'
  BY DEF LockIsHeld, Working
<1>3. ScanIsAwaited'
  BY DEF ScanIsAwaited
<1>4. NothingMovedYet'
  BY DEF NothingMovedYet
<1>5. StagedIsWhole'
  BY DEF StagedIsWhole, NothingMovedYet
<1>6. TargetIsFree'
  BY DEF TargetIsFree
<1>7. AllMoved'
  BY DEF AllMoved, NothingMovedYet
<1>8. OnlyWholeArchives'
  BY DEF OnlyWholeArchives
<1>9. StateFileIsTrue'
  BY DEF StateFileIsTrue
<1> QED BY <1>1, <1>2, <1>3, <1>4, <1>5, <1>6, <1>7, <1>8, <1>9

LEMMA EndScanKeepsInv ==
  ASSUME UpdateInv, NEW p \in Process, EndScan(p)
  PROVE  UpdateInv'
<1> USE UpdateAssumption DEF UpdateInv, TypeOK, WorldTypeOK, PlanTypeOK, WorkTypeOK,
        ScanTypeOK, EndScan, world, run
<1>1. TypeOK'
  BY DEF Downloads, Empty
<1>2. LockIsHeld'
  BY DEF LockIsHeld, Working, ScanIsAwaited
<1>3. ScanIsAwaited'
  BY DEF ScanIsAwaited
<1>4. NothingMovedYet'
  BY DEF NothingMovedYet, ScanIsAwaited
<1>5. StagedIsWhole'
  BY DEF StagedIsWhole, NothingMovedYet
<1>6. TargetIsFree'
  BY DEF TargetIsFree
<1>7. AllMoved'
  BY DEF AllMoved, NothingMovedYet
<1>8. OnlyWholeArchives'
  BY DEF OnlyWholeArchives
<1>9. StateFileIsTrue'
  BY DEF StateFileIsTrue
<1> QED BY <1>1, <1>2, <1>3, <1>4, <1>5, <1>6, <1>7, <1>8, <1>9

LEMMA CrashKeepsInv ==
  ASSUME UpdateInv, NEW p \in Process, Crash(p)
  PROVE  UpdateInv'
<1> USE UpdateAssumption DEF UpdateInv, TypeOK, WorldTypeOK, PlanTypeOK, WorkTypeOK,
        ScanTypeOK, Crash, Forget, Empty
<1>1. TypeOK'
  <2>1. WorldTypeOK'
    BY DEF Downloads
  <2>2. PlanTypeOK'
    BY DEF Downloads
  <2>3. WorkTypeOK'
    BY DEF Downloads
  <2>4. ScanTypeOK'
    BY DEF Downloads
  <2> QED BY <2>1, <2>2, <2>3, <2>4
<1>2. LockIsHeld'
  BY DEF LockIsHeld, Working
<1>3. ScanIsAwaited'
  BY DEF ScanIsAwaited
<1>4. NothingMovedYet'
  BY DEF NothingMovedYet
<1>5. StagedIsWhole'
  BY DEF StagedIsWhole, NothingMovedYet
<1>6. TargetIsFree'
  BY DEF TargetIsFree
<1>7. AllMoved'
  BY DEF AllMoved, NothingMovedYet
<1>8. OnlyWholeArchives'
  BY DEF OnlyWholeArchives
<1>9. StateFileIsTrue'
  BY DEF StateFileIsTrue
<1> QED BY <1>1, <1>2, <1>3, <1>4, <1>5, <1>6, <1>7, <1>8, <1>9

LEMMA OtherScanKeepsInv ==
  ASSUME UpdateInv, OtherScan
  PROVE  UpdateInv'
<1> USE UpdateAssumption DEF UpdateInv, TypeOK, WorldTypeOK, PlanTypeOK, WorkTypeOK,
        ScanTypeOK, OtherScan, world, run
<1>1. TypeOK'
  BY DEF Downloads, Empty
<1>2. LockIsHeld'
  BY DEF LockIsHeld, Working
<1>3. ScanIsAwaited'
  BY DEF ScanIsAwaited
<1>4. NothingMovedYet'
  BY DEF NothingMovedYet
<1>5. StagedIsWhole'
  BY DEF StagedIsWhole, NothingMovedYet
<1>6. TargetIsFree'
  BY DEF TargetIsFree
<1>7. AllMoved'
  BY DEF AllMoved, NothingMovedYet
<1>8. OnlyWholeArchives'
  BY DEF OnlyWholeArchives
<1>9. StateFileIsTrue'
  BY DEF StateFileIsTrue
<1> QED BY <1>1, <1>2, <1>3, <1>4, <1>5, <1>6, <1>7, <1>8, <1>9

LEMMA SourcePublishesKeepsInv ==
  ASSUME UpdateInv, SourcePublishes
  PROVE  UpdateInv'
<1> USE UpdateAssumption DEF UpdateInv, TypeOK, WorldTypeOK, PlanTypeOK, WorkTypeOK,
        ScanTypeOK, SourcePublishes, run, scan
<1>1. TypeOK'
  BY DEF Downloads, Empty
<1>2. LockIsHeld'
  BY DEF LockIsHeld, Working
<1>3. ScanIsAwaited'
  BY DEF ScanIsAwaited
<1>4. NothingMovedYet'
  BY DEF NothingMovedYet
<1>5. StagedIsWhole'
  BY DEF StagedIsWhole, NothingMovedYet
<1>6. TargetIsFree'
  BY DEF TargetIsFree
<1>7. AllMoved'
  BY DEF AllMoved, NothingMovedYet
<1>8. OnlyWholeArchives'
  BY DEF OnlyWholeArchives
<1>9. StateFileIsTrue'
  BY DEF StateFileIsTrue
<1> QED BY <1>1, <1>2, <1>3, <1>4, <1>5, <1>6, <1>7, <1>8, <1>9

LEMMA OperatorChangesKeepsInv ==
  ASSUME UpdateInv, OperatorChanges
  PROVE  UpdateInv'
<1> USE UpdateAssumption DEF UpdateInv, TypeOK, WorldTypeOK, PlanTypeOK, WorkTypeOK,
        ScanTypeOK, OperatorChanges, run, scan
<1>1. TypeOK'
  BY DEF Downloads, Empty
<1>2. LockIsHeld'
  BY DEF LockIsHeld, Working
<1>3. ScanIsAwaited'
  BY DEF ScanIsAwaited
<1>4. NothingMovedYet'
  BY DEF NothingMovedYet
<1>5. StagedIsWhole'
  BY DEF StagedIsWhole, NothingMovedYet
<1>6. TargetIsFree'
  BY DEF TargetIsFree
<1>7. AllMoved'
  BY DEF AllMoved, NothingMovedYet
<1>8. OnlyWholeArchives'
  BY DEF OnlyWholeArchives
<1>9. StateFileIsTrue'
  BY DEF StateFileIsTrue
<1> QED BY <1>1, <1>2, <1>3, <1>4, <1>5, <1>6, <1>7, <1>8, <1>9

LEMMA StepKeepsInv == UpdateInv /\ [Next]_vars => UpdateInv'
<1> SUFFICES ASSUME UpdateInv, [Next]_vars PROVE UpdateInv'
    OBVIOUS
<1>1. ASSUME NEW u \in Updater, Start(u) \/ Progress(u) PROVE UpdateInv'
  BY <1>1, StartKeepsInv, DiscoverKeepsInv, DiscoverFailsKeepsInv, BeginDownloadKeepsInv, EndDownloadKeepsInv,
     DownloadFailsKeepsInv, CheckKeepsInv, LimitExceededKeepsInv, CheckTargetKeepsInv, RenameKeepsInv,
     RenameFailsKeepsInv, CleanKeepsInv, ReportKeepsInv, ReturnKeepsInv, PostUpdateScanKeepsInv
     DEF Progress
<1>2. ASSUME NEW p \in Process, Walk(p) \/ EndScan(p) \/ Crash(p) PROVE UpdateInv'
  BY <1>2, WalkKeepsInv, EndScanKeepsInv, CrashKeepsInv
<1>3. CASE OtherScan \/ SourcePublishes \/ OperatorChanges
  BY <1>3, OtherScanKeepsInv, SourcePublishesKeepsInv, OperatorChangesKeepsInv
<1>4. CASE UNCHANGED vars
  BY <1>4 DEF UpdateInv, TypeOK, WorldTypeOK, PlanTypeOK, WorkTypeOK, ScanTypeOK, LockIsHeld, ScanIsAwaited, NothingMovedYet, StagedIsWhole, TargetIsFree, AllMoved,
              OnlyWholeArchives, StateFileIsTrue, vars, world, run, scan
<1> QED BY <1>1, <1>2, <1>3, <1>4 DEF Next

THEOREM UpdateCorrect == Spec => []UpdateInv
<1> QED BY InvAtStart, StepKeepsInv, PTL DEF Spec

\* Every variable has its type, whatever fails and whoever is killed.
THEOREM UpdateTypeCorrect == Spec => []TypeOK
<1>1. UpdateInv => TypeOK
  BY DEF UpdateInv
<1> QED BY <1>1, UpdateCorrect, PTL

\* OnlyWholeArchives, of validate_zip and the renames of run_locked: no archive that was cut off
\* or damaged on the way is ever in the library, for any number of updates and archives.
THEOREM OnlyWholeSafe == Spec => []OnlyWholeArchives
<1>1. UpdateInv => OnlyWholeArchives
  BY DEF UpdateInv
<1> QED BY <1>1, UpdateCorrect, PTL

\* StateFileIsTrue, of write_state: a success in the state file is one.
THEOREM StateFileSafe == Spec => []StateFileIsTrue
<1>1. UpdateInv => StateFileIsTrue
  BY DEF UpdateInv
<1> QED BY <1>1, UpdateCorrect, PTL

\* Only a rename publishes, and what it replaces is nothing, or the operator's.
LEMMA StepPublishesOnce ==
  ASSUME UpdateInv, [Next]_vars
  PROVE  [\A u \in Updater : \A a \in moved'[u] \ moved[u] : lib[a] \in {Gone, "own"}]_vars
<1> USE DEF UpdateInv, TypeOK, WorkTypeOK
<1> SUFFICES ASSUME ~UNCHANGED vars, NEW v \in Updater, NEW a \in moved'[v] \ moved[v]
             PROVE  lib[a] \in {Gone, "own"}
    OBVIOUS
<1>1. ASSUME NEW u \in Updater, Rename(u) PROVE lib[a] \in {Gone, "own"}
  <2>1. moved' = [moved EXCEPT ![u] = @ \cup {cur[u]}] /\ pc[u] = "rename"
    BY <1>1 DEF Rename
  <2>2. v = u /\ a = cur[u]
    BY <2>1
  <2> QED BY <2>1, <2>2 DEF TargetIsFree
<1>2. ASSUME NEW u \in Updater, Return(u) PROVE FALSE
  BY <1>2 DEF Return, Forget
<1>3. ASSUME NEW p \in Process, Crash(p) PROVE FALSE
  BY <1>3 DEF Crash, Forget
<1>4. ASSUME NEW u \in Updater, Start(u) \/ (Progress(u) /\ ~Rename(u) /\ ~Return(u)) PROVE FALSE
  <2>1. moved' = moved
    BY <1>4 DEF Start, Progress, Discover, DiscoverFails, BeginDownload, EndDownload, DownloadFails, Check,
                LimitExceeded, CheckTarget, RenameFails, Clean, Report, PostUpdateScan, run
  <2> QED BY <2>1
<1>5. CASE (\E p \in Process : Walk(p) \/ EndScan(p)) \/ OtherScan \/ SourcePublishes \/ OperatorChanges
  <2>1. moved' = moved
    BY <1>5 DEF Walk, EndScan, OtherScan, SourcePublishes, OperatorChanges, run
  <2> QED BY <2>1
<1> QED BY <1>1, <1>2, <1>3, <1>4, <1>5 DEF Next

\* PublishedOnce, of the lock file and of target.exists() before every rename: no update
\* replaces what another one published.
THEOREM PublishedOnceSafe == Spec => PublishedOnce
<1>1. UpdateInv /\ [Next]_vars =>
        [\A u \in Updater : \A a \in moved'[u] \ moved[u] : lib[a] \in {Gone, "own"}]_vars
  BY StepPublishesOnce
<1> QED BY <1>1, UpdateCorrect, PTL DEF Spec, PublishedOnce

=============================================================================
