-------------------------- MODULE ImportJobsProofs --------------------------
(***************************************************************************)
(* What TLAPS proves of module ImportJobs for every number of jobs, links, *)
(* slots, retries and setbacks: its types, the safety invariants of the runs  *)
(* and both action properties.  ImportInv is the inductive invariant; one  *)
(* lemma per action shows that the action keeps it, with a step for each   *)
(* part the action can disturb and one for the parts it leaves alone.      *)
(***************************************************************************)
EXTENDS ImportJobs, TLAPS

-----------------------------------------------------------------------------
(* Stages of a runner whose job is running, and those past its last wave.  *)
Working == {"restarting", "reclaiming", "loop", "wave", "counting", "clean",
            "flawed"}
Closing == {"counting", "clean", "flawed"}

(* A coroutine belongs to the open wave of its own job, and works on a     *)
(* link that has not been imported.                                        *)
CoroutinesInWave ==
    /\ \A i \in Items : proc[i] # "none" =>
          /\ i \in wave[JobOf[i]]
          /\ runner[JobOf[i]] = "wave"
          /\ item[i] # "success"
    /\ \A j \in Jobs : /\ wave[j] \subseteq ItemsOf(j)
                       /\ runner[j] # "wave" => wave[j] = {}

(* What a runner knows of its job: it exists and is not completed, nothing *)
(* has failed when it counted none, and in the API process nobody cancels  *)
(* between two commits of one block.                                       *)
JobsOfRunners ==
    \A j \in Jobs :
        /\ job[j] = "absent" => runner[j] = "none"
        /\ runner[j] \in Working => job[j] \notin Completed
        /\ runner[j] = "clean" /\ job[j] \in Active => Having(j, "failed") = {}
        /\ ~external /\ runner[j] \in MidBlock =>
              job[j] # "cancelled" /\ call = NoCall

(* Items are created with their job.                                       *)
AbsentItems ==
    \A i \in Items : job[JobOf[i]] = "absent" => item[i] = "absent"

(* An item that is or will be tried has not used up its retries.           *)
RetriesLeft ==
    \A i \in Items :
        item[i] \in {"absent", "pending", "running"} \/ proc[i] # "none"
            => retries[i] <= AutoRetries

(* The item says or will say that its track is stored; "skipped" may be    *)
(* what a cancel made of a success it had read as pending.                 *)
HasTrack(i) ==
    \/ proc[i] = "stored"
    \/ item[i] = "success"
    \/ item[i] = "skipped" /\ proc[i] = "none"

(* The one track of an item is recorded, unless a setback or a cancel      *)
(* prevents that.                                                          *)
TracksStored ==
    \A i \in Items :
        \/ i \in undone
        \/ stored[i] = 0
        \/ HasTrack(i) /\ stored[i] = 1

(* A cancel in progress holds items of its own job; one it read as running *)
(* has been skipped since only as a duplicate, without a track.            *)
CallOfJob ==
    call # NoCall =>
        /\ call.running \subseteq ItemsOf(call.job)
        /\ call.pending \subseteq ItemsOf(call.job)
        /\ \A i \in call.running :
              item[i] = "skipped" =>
                  proc[i] = "none" /\ (i \in undone \/ stored[i] = 0)

(* After its last wave a job has no pending item, or the API has retried.  *)
NothingPending ==
    \A j \in Jobs : runner[j] \in Closing \/ job[j] \in Completed =>
        Having(j, "pending") = {} \/ (external /\ retryCalls > 0)

(* As long as no setback occurs, a running item has its coroutine.         *)
RunningHasCoroutine ==
    setbacks = 0 =>
        \A i \in Items : item[i] = "running" =>
            proc[i] \in {"checking", "importing", "stored"}

(* An imported track is in the album or in the open wave, or the attach    *)
(* of its wave was swallowed or lost.                                      *)
TracksOfAlbum ==
    \A i \in Items : item[i] = "success" /\ JobOf[i] \in WithAlbum =>
        i \in attached \cup unattached \cup (gathered \cap wave[JobOf[i]])

ImportInv ==
    /\ ImportTypeOK /\ setbacks \in Nat /\ retryCalls \in Nat
    /\ CoroutinesInWave /\ JobsOfRunners /\ AbsentItems /\ RetriesLeft
    /\ TracksStored /\ CallOfJob /\ NothingPending
    /\ RunningHasCoroutine /\ TracksOfAlbum

-----------------------------------------------------------------------------
(* A new job has no runner and its items were never tried.                 *)
LEMMA CreateJobKeeps ==
    ASSUME ImportInv, NEW j \in Jobs, CreateJob(j)
    PROVE  ImportInv'
<1>1. ImportTypeOK' /\ setbacks' \in Nat /\ retryCalls' \in Nat
  BY DEF ImportInv, ImportTypeOK, CreateJob, Book, Schedule, AbsentItems,
      Active, boundVars, callVars, historyVars
<1>2. CoroutinesInWave'
  BY DEF ImportInv, CoroutinesInWave, CreateJob, Book, Schedule, boundVars,
      callVars, historyVars
<1>3. JobsOfRunners'
  BY DEF ImportInv, ImportTypeOK, JobsOfRunners, CreateJob, Book, Schedule,
      MidBlock, Completed, ItemsOf, Having, boundVars, callVars, historyVars
<1>4. AbsentItems'
  BY DEF ImportInv, ImportTypeOK, AbsentItems, CreateJob, Book, boundVars,
      callVars, historyVars
<1>5. RetriesLeft'
  BY DEF ImportInv, RetriesLeft, CreateJob, Book, AbsentItems, boundVars,
      callVars, historyVars
<1>6. TracksStored'
  BY DEF ImportInv, TracksStored, CreateJob, Book, HasTrack, AbsentItems,
      boundVars, callVars, historyVars
<1>7. CallOfJob'
  BY DEF ImportInv, CallOfJob, CreateJob, Book, ApiMayRun, boundVars, callVars,
      historyVars
<1>8. NothingPending'
  BY DEF ImportInv, NothingPending, CreateJob, Book, Schedule, Closing,
      Completed, ItemsOf, Having, JobsOfRunners, boundVars, callVars,
      historyVars
<1>9. RunningHasCoroutine' /\ TracksOfAlbum'
  BY ImportAssumption DEF ImportInv, RunningHasCoroutine, TracksOfAlbum,
      CreateJob, Book, boundVars, callVars, historyVars
<1> QED BY <1>1, <1>2, <1>3, <1>4, <1>5, <1>6, <1>7, <1>8, <1>9 DEF ImportInv

(* The same if no runner is started.                                       *)
LEMMA CreateFailsKeeps ==
    ASSUME ImportInv, NEW j \in Jobs, CreateFails(j)
    PROVE  ImportInv'
<1>1. ImportTypeOK' /\ setbacks' \in Nat /\ retryCalls' \in Nat
  BY DEF ImportInv, ImportTypeOK, CreateFails, Book, Setback, AbsentItems,
      Active, boundVars, callVars, historyVars
<1>2. CoroutinesInWave'
  BY DEF ImportInv, CoroutinesInWave, CreateFails, Book, Setback, boundVars,
      callVars, historyVars
<1>3. JobsOfRunners'
  BY DEF ImportInv, ImportTypeOK, JobsOfRunners, CreateFails, Book, Setback,
      MidBlock, Completed, ItemsOf, Having, boundVars, callVars, historyVars
<1>4. AbsentItems'
  BY DEF ImportInv, ImportTypeOK, AbsentItems, CreateFails, Book, Setback,
      boundVars, callVars, historyVars
<1>5. RetriesLeft'
  BY DEF ImportInv, RetriesLeft, CreateFails, Book, Setback, AbsentItems,
      boundVars, callVars, historyVars
<1>6. TracksStored'
  BY DEF ImportInv, TracksStored, CreateFails, Book, Setback, HasTrack,
      AbsentItems, boundVars, callVars, historyVars
<1>7. CallOfJob'
  BY DEF ImportInv, CallOfJob, CreateFails, Book, Setback, ApiMayRun,
      boundVars, callVars, historyVars
<1>8. NothingPending'
  BY DEF ImportInv, NothingPending, CreateFails, Book, Setback, Closing,
      Completed, ItemsOf, Having, JobsOfRunners, boundVars, callVars,
      historyVars
<1>9. RunningHasCoroutine' /\ TracksOfAlbum'
  BY ImportAssumption DEF ImportInv, RunningHasCoroutine, TracksOfAlbum,
      CreateFails, Book, Setback, boundVars, callVars, historyVars
<1> QED BY <1>1, <1>2, <1>3, <1>4, <1>5, <1>6, <1>7, <1>8, <1>9 DEF ImportInv

(* A repeated request starts a runner at most.                             *)
LEMMA RepeatCreateKeeps ==
    ASSUME ImportInv, NEW j \in Jobs, RepeatCreate(j)
    PROVE  ImportInv'
<1>1. ImportTypeOK' /\ setbacks' \in Nat /\ retryCalls' \in Nat
  BY DEF ImportInv, ImportTypeOK, RepeatCreate, Schedule, tableVars, boundVars,
      callVars, historyVars
<1>2. CoroutinesInWave'
  BY DEF ImportInv, CoroutinesInWave, RepeatCreate, Schedule, tableVars,
      boundVars, callVars, historyVars
<1>3. JobsOfRunners'
  BY DEF ImportInv, JobsOfRunners, RepeatCreate, Schedule, MidBlock, Active,
      Completed, Having, tableVars, boundVars, callVars, historyVars
<1>4. NothingPending'
  BY DEF ImportInv, ImportTypeOK, NothingPending, RepeatCreate, Schedule,
      Closing, Having, tableVars, boundVars, callVars, historyVars
<1>5. AbsentItems' /\ RetriesLeft' /\ TracksStored' /\ CallOfJob' /\
    RunningHasCoroutine' /\ TracksOfAlbum'
  BY DEF ImportInv, AbsentItems, RetriesLeft, TracksStored, CallOfJob,
      RunningHasCoroutine, TracksOfAlbum, RepeatCreate, NoCall, HasTrack,
      Active, tableVars, boundVars, callVars, historyVars
<1> QED BY <1>1, <1>2, <1>3, <1>4, <1>5 DEF ImportInv

(* A retry in the API process finds no runner inside a block.              *)
LEMMA RetryFailedKeeps ==
    ASSUME ImportInv, NEW j \in Jobs, RetryFailed(j)
    PROVE  ImportInv'
<1>1. ImportTypeOK' /\ setbacks' \in Nat /\ retryCalls' \in Nat
  BY ImportAssumption DEF ImportInv, ImportTypeOK, RetryFailed, Schedule,
      Active, Having, callVars, historyVars
<1>2. CoroutinesInWave'
  BY DEF ImportInv, CoroutinesInWave, RetryFailed, Schedule, callVars,
      historyVars
<1>3. JobsOfRunners'
  BY DEF ImportInv, JobsOfRunners, RetryFailed, Schedule, Working, MidBlock,
      Completed, ItemsOf, Having, callVars, historyVars
<1>4. AbsentItems'
  BY DEF ImportInv, AbsentItems, RetryFailed, Having, callVars, historyVars
<1>5. RetriesLeft'
  BY ImportAssumption DEF ImportInv, RetriesLeft, RetryFailed, callVars,
      historyVars
<1>6. TracksStored'
  BY DEF ImportInv, TracksStored, RetryFailed, HasTrack, Having, callVars,
      historyVars
<1>7. CallOfJob'
  BY DEF ImportInv, CallOfJob, RetryFailed, ItemsOf, callVars, historyVars
<1>8. NothingPending'
  BY DEF ImportInv, ImportTypeOK, NothingPending, RetryFailed, ApiMayRun,
      WorkerFree, Schedule, Closing, Completed, MidBlock, ItemsOf, Having,
      callVars, historyVars
<1>9. RunningHasCoroutine' /\ TracksOfAlbum'
  BY DEF ImportInv, RunningHasCoroutine, TracksOfAlbum, RetryFailed, callVars,
      historyVars
<1> QED BY <1>1, <1>2, <1>3, <1>4, <1>5, <1>6, <1>7, <1>8, <1>9 DEF ImportInv

(* What a cancel reads are items of the job, none of them skipped.         *)
LEMMA CancelJobKeeps ==
    ASSUME ImportInv, NEW j \in Jobs, CancelJob(j)
    PROVE  ImportInv'
<1>1. ImportTypeOK' /\ setbacks' \in Nat /\ retryCalls' \in Nat
  BY DEF ImportInv, ImportTypeOK, CancelJob, ItemsOf, Having, tableVars,
      memoryVars, boundVars, historyVars
<1>2. JobsOfRunners'
  BY DEF ImportInv, JobsOfRunners, CancelJob, ApiMayRun, WorkerFree, Having,
      tableVars, memoryVars, boundVars, historyVars
<1>3. CallOfJob'
  BY DEF ImportInv, CallOfJob, CancelJob, Having, tableVars, memoryVars,
      boundVars
<1>4. CoroutinesInWave' /\ AbsentItems' /\ RetriesLeft' /\ TracksStored' /\
    NothingPending' /\
    RunningHasCoroutine' /\ TracksOfAlbum'
  BY DEF ImportInv, CoroutinesInWave, AbsentItems, RetriesLeft, TracksStored,
      NothingPending, RunningHasCoroutine, TracksOfAlbum, CancelJob, Having,
      HasTrack, tableVars, memoryVars, boundVars, historyVars
<1> QED BY <1>1, <1>2, <1>3, <1>4 DEF ImportInv

(* A success that a cancel overwrites is in undone.                        *)
LEMMA CommitCancelKeeps ==
    ASSUME ImportInv, CommitCancel
    PROVE  ImportInv'
<1>1. ImportTypeOK' /\ setbacks' \in Nat /\ retryCalls' \in Nat
  BY DEF ImportInv, ImportTypeOK, CommitCancel, Ended, memoryVars, boundVars
<1>2. CoroutinesInWave'
  BY DEF ImportInv, CoroutinesInWave, CommitCancel, memoryVars, boundVars
<1>3. JobsOfRunners'
  BY DEF ImportInv, ImportTypeOK, JobsOfRunners, CommitCancel, CallOfJob,
      Active, Completed, ItemsOf, Having, memoryVars, boundVars
<1>4. AbsentItems'
  BY DEF ImportInv, ImportTypeOK, AbsentItems, CommitCancel, ItemsOf,
      CallOfJob, memoryVars, boundVars
<1>5. RetriesLeft'
  BY DEF ImportInv, RetriesLeft, CommitCancel, memoryVars, boundVars
<1>6. TracksStored'
  BY DEF ImportInv, TracksStored, CommitCancel, HasTrack, CoroutinesInWave,
      CallOfJob, memoryVars, boundVars
<1>7. CallOfJob'
  BY DEF ImportInv, CallOfJob, CommitCancel, memoryVars, boundVars
<1>8. NothingPending'
  BY DEF ImportInv, NothingPending, CommitCancel, Completed, ItemsOf, Having,
      memoryVars, boundVars
<1>9. RunningHasCoroutine' /\ TracksOfAlbum'
  BY DEF ImportInv, RunningHasCoroutine, TracksOfAlbum, CommitCancel,
      memoryVars, boundVars
<1> QED BY <1>1, <1>2, <1>3, <1>4, <1>5, <1>6, <1>7, <1>8, <1>9 DEF ImportInv

(* A cancel that fails is forgotten.                                       *)
LEMMA CancelFailsKeeps ==
    ASSUME ImportInv, CancelFails
    PROVE  ImportInv'
<1>1. ImportTypeOK' /\ setbacks' \in Nat /\ retryCalls' \in Nat
  BY DEF ImportInv, ImportTypeOK, CancelFails, Setback, tableVars, memoryVars,
      historyVars
<1>2. CallOfJob'
  BY DEF CallOfJob, CancelFails
<1>3. JobsOfRunners'
  BY DEF ImportInv, JobsOfRunners, CancelFails, Setback, Having, ItemsOf,
      tableVars, memoryVars, historyVars
<1>4. CoroutinesInWave' /\ AbsentItems' /\ RetriesLeft' /\ TracksStored' /\
    NothingPending' /\
    RunningHasCoroutine' /\ TracksOfAlbum'
  BY DEF ImportInv, CoroutinesInWave, AbsentItems, RetriesLeft, TracksStored,
      NothingPending, RunningHasCoroutine, TracksOfAlbum, CancelFails, Setback,
      Having, HasTrack, ItemsOf, tableVars, memoryVars, historyVars
<1> QED BY <1>1, <1>2, <1>3, <1>4 DEF ImportInv

(* Items are reclaimed while no runner is inside a block.                  *)
LEMMA PollKeeps ==
    ASSUME ImportInv, Poll
    PROVE  ImportInv'
<1>1. ImportTypeOK' /\ setbacks' \in Nat /\ retryCalls' \in Nat
  BY DEF ImportInv, ImportTypeOK, Poll, Reclaimed, boundVars, callVars,
      historyVars
<1>2. CoroutinesInWave'
  BY ImportAssumption DEF ImportInv, CoroutinesInWave, Poll, Reclaimed,
      boundVars, callVars, historyVars
<1>3. JobsOfRunners'
  BY DEF ImportInv, JobsOfRunners, Poll, Reclaimed, Active, Ended, Completed,
      ItemsOf, Having, boundVars, callVars, historyVars
<1>4. AbsentItems'
  BY DEF ImportInv, ImportTypeOK, AbsentItems, Poll, Reclaimed, boundVars,
      callVars, historyVars
<1>5. RetriesLeft'
  BY DEF ImportInv, ImportTypeOK, RetriesLeft, Poll, Reclaimed, boundVars,
      callVars, historyVars
<1>6. TracksStored'
  BY DEF ImportInv, ImportTypeOK, TracksStored, Poll, Reclaimed, HasTrack,
      boundVars, callVars, historyVars
<1>7. CallOfJob'
  BY DEF ImportInv, CallOfJob, Poll, Reclaimed, ItemsOf, boundVars, callVars,
      historyVars
<1>8. NothingPending'
  BY DEF ImportInv, NothingPending, Poll, WorkerFree, Reclaimed, Closing,
      Completed, MidBlock, ItemsOf, Having, Ended, boundVars, callVars,
      historyVars
<1>9. RunningHasCoroutine' /\ TracksOfAlbum'
  BY DEF ImportInv, ImportTypeOK, RunningHasCoroutine, TracksOfAlbum, Poll,
      Reclaimed, boundVars, callVars, historyVars
<1> QED BY <1>1, <1>2, <1>3, <1>4, <1>5, <1>6, <1>7, <1>8, <1>9 DEF ImportInv

(* A runner starts for a job that is neither cancelled nor completed.      *)
LEMMA StartRunnerKeeps ==
    ASSUME ImportInv, NEW j \in Jobs, StartRunner(j)
    PROVE  ImportInv'
<1>1. ImportTypeOK' /\ setbacks' \in Nat /\ retryCalls' \in Nat
  BY ImportAssumption DEF ImportInv, ImportTypeOK, StartRunner, RetriesLeft,
      tableVars, boundVars, callVars, historyVars
<1>2. CoroutinesInWave'
  BY DEF ImportInv, CoroutinesInWave, StartRunner, tableVars, boundVars,
      callVars, historyVars
<1>3. JobsOfRunners'
  BY DEF ImportInv, JobsOfRunners, StartRunner, WorkerFree, Working, MidBlock,
      Active, Completed, ItemsOf, Having, tableVars, boundVars, callVars,
      historyVars
<1>4. NothingPending'
  BY DEF ImportInv, NothingPending, StartRunner, Closing, Having, tableVars,
      boundVars, callVars, historyVars
<1>5. AbsentItems' /\ RetriesLeft' /\ TracksStored' /\ CallOfJob' /\
    RunningHasCoroutine' /\ TracksOfAlbum'
  BY DEF ImportInv, AbsentItems, RetriesLeft, TracksStored, CallOfJob,
      RunningHasCoroutine, TracksOfAlbum, StartRunner, HasTrack, tableVars,
      boundVars, callVars, historyVars
<1> QED BY <1>1, <1>2, <1>3, <1>4, <1>5 DEF ImportInv

(* The job is running from here on.                                        *)
LEMMA MarkRunningKeeps ==
    ASSUME ImportInv, NEW j \in Jobs, MarkRunning(j)
    PROVE  ImportInv'
<1>1. ImportTypeOK' /\ setbacks' \in Nat /\ retryCalls' \in Nat
  BY DEF ImportInv, ImportTypeOK, MarkRunning, Active, boundVars, callVars,
      historyVars
<1>2. CoroutinesInWave'
  BY DEF ImportInv, CoroutinesInWave, MarkRunning, boundVars, callVars,
      historyVars
<1>3. JobsOfRunners'
  BY DEF ImportInv, ImportTypeOK, JobsOfRunners, MarkRunning, Working,
      MidBlock, Completed, Having, boundVars, callVars, historyVars
<1>4. AbsentItems'
  BY DEF ImportInv, AbsentItems, MarkRunning, boundVars, callVars, historyVars
<1>5. NothingPending'
  BY DEF ImportInv, NothingPending, MarkRunning, Closing, Completed, Having,
      boundVars, callVars, historyVars
<1>6. RetriesLeft' /\ TracksStored' /\ CallOfJob' /\
    RunningHasCoroutine' /\ TracksOfAlbum'
  BY DEF ImportInv, RetriesLeft, TracksStored, CallOfJob, RunningHasCoroutine,
      TracksOfAlbum, MarkRunning, HasTrack, boundVars, callVars, historyVars
<1> QED BY <1>1, <1>2, <1>3, <1>4, <1>5, <1>6 DEF ImportInv

(* The runner reclaims before its first wave.                              *)
LEMMA ReclaimOwnKeeps ==
    ASSUME ImportInv, NEW j \in Jobs, ReclaimOwn(j)
    PROVE  ImportInv'
<1>1. ImportTypeOK' /\ setbacks' \in Nat /\ retryCalls' \in Nat
  BY DEF ImportInv, ImportTypeOK, ReclaimOwn, Reclaimed, boundVars, callVars,
      historyVars
<1>2. CoroutinesInWave'
  BY DEF ImportInv, CoroutinesInWave, ReclaimOwn, Reclaimed, boundVars,
      callVars, historyVars
<1>3. JobsOfRunners'
  BY DEF ImportInv, JobsOfRunners, ReclaimOwn, Reclaimed, Working, MidBlock,
      ItemsOf, Having, boundVars, callVars, historyVars
<1>4. AbsentItems'
  BY DEF ImportInv, ImportTypeOK, AbsentItems, ReclaimOwn, Reclaimed,
      boundVars, callVars, historyVars
<1>5. RetriesLeft'
  BY DEF ImportInv, ImportTypeOK, RetriesLeft, ReclaimOwn, Reclaimed,
      boundVars, callVars, historyVars
<1>6. TracksStored'
  BY DEF ImportInv, ImportTypeOK, TracksStored, ReclaimOwn, Reclaimed,
      HasTrack, boundVars, callVars, historyVars
<1>7. CallOfJob'
  BY DEF ImportInv, ImportTypeOK, CallOfJob, ReclaimOwn, Reclaimed, boundVars,
      callVars, historyVars
<1>8. NothingPending'
  BY DEF ImportInv, ImportTypeOK, NothingPending, ReclaimOwn, Reclaimed,
      Closing, ItemsOf, Having, JobsOfRunners, Working, boundVars, callVars,
      historyVars
<1>9. RunningHasCoroutine' /\ TracksOfAlbum'
  BY DEF ImportInv, RunningHasCoroutine, TracksOfAlbum, ReclaimOwn, Reclaimed,
      CoroutinesInWave, ItemsOf, Ended, AbsentItems, boundVars, callVars,
      historyVars
<1> QED BY <1>1, <1>2, <1>3, <1>4, <1>5, <1>6, <1>7, <1>8, <1>9 DEF ImportInv

(* A runner that leaves has no wave.                                       *)
LEMMA LeaveCancelledKeeps ==
    ASSUME ImportInv, NEW j \in Jobs, LeaveCancelled(j)
    PROVE  ImportInv'
<1>1. ImportTypeOK' /\ setbacks' \in Nat /\ retryCalls' \in Nat
  BY ImportAssumption DEF ImportInv, ImportTypeOK, LeaveCancelled, Active,
      Ended, tableVars, boundVars, callVars, historyVars
<1>2. CoroutinesInWave'
  BY ImportAssumption DEF ImportInv, CoroutinesInWave, LeaveCancelled,
      tableVars, boundVars, callVars, historyVars
<1>3. JobsOfRunners'
  BY DEF ImportInv, JobsOfRunners, LeaveCancelled, MidBlock, Completed, Having,
      tableVars, boundVars, callVars, historyVars
<1>4. NothingPending'
  BY DEF ImportInv, NothingPending, LeaveCancelled, Closing, ItemsOf, Having,
      tableVars, boundVars, callVars, historyVars
<1>5. AbsentItems' /\ RetriesLeft' /\ TracksStored' /\ CallOfJob' /\
    RunningHasCoroutine' /\ TracksOfAlbum'
  BY ImportAssumption DEF ImportInv, AbsentItems, RetriesLeft, TracksStored,
      CallOfJob, RunningHasCoroutine, TracksOfAlbum, LeaveCancelled, HasTrack,
      tableVars, boundVars, callVars, historyVars
<1> QED BY <1>1, <1>2, <1>3, <1>4, <1>5 DEF ImportInv

(* The items of a wave are pending, and had no coroutine.                  *)
LEMMA StartWaveKeeps ==
    ASSUME ImportInv, NEW j \in Jobs, StartWave(j)
    PROVE  ImportInv'
<1>1. ImportTypeOK' /\ setbacks' \in Nat /\ retryCalls' \in Nat
  BY DEF ImportInv, ImportTypeOK, StartWave, ItemsOf, Having, tableVars,
      boundVars, callVars, historyVars
<1>2. CoroutinesInWave'
  BY DEF ImportInv, ImportTypeOK, CoroutinesInWave, StartWave, ItemsOf, Having,
      tableVars, boundVars, callVars, historyVars
<1>3. JobsOfRunners'
  BY DEF ImportInv, JobsOfRunners, StartWave, Working, MidBlock, Having,
      tableVars, boundVars, callVars, historyVars
<1>4. RetriesLeft'
  BY DEF ImportInv, RetriesLeft, StartWave, Having, tableVars, boundVars,
      callVars, historyVars
<1>5. TracksStored'
  BY DEF ImportInv, TracksStored, StartWave, HasTrack, CoroutinesInWave,
      ItemsOf, Having, tableVars, boundVars, callVars, historyVars
<1>6. CallOfJob'
  BY DEF ImportInv, CallOfJob, StartWave, ItemsOf, Having, tableVars,
      boundVars, callVars, historyVars
<1>7. NothingPending'
  BY DEF ImportInv, NothingPending, StartWave, Closing, Having, tableVars,
      boundVars, callVars, historyVars
<1>8. RunningHasCoroutine' /\ TracksOfAlbum'
  BY DEF ImportInv, RunningHasCoroutine, TracksOfAlbum, StartWave,
      CoroutinesInWave, Having, tableVars, boundVars, callVars, historyVars
<1>9. AbsentItems'
  BY DEF ImportInv, AbsentItems, StartWave, tableVars, boundVars, callVars,
      historyVars
<1> QED BY <1>1, <1>2, <1>3, <1>4, <1>5, <1>6, <1>7, <1>8, <1>9 DEF ImportInv

(* The tracks of the wave are attached before it is forgotten.             *)
LEMMA EndWaveKeeps ==
    ASSUME ImportInv, NEW j \in Jobs, EndWave(j)
    PROVE  ImportInv'
<1>1. ImportTypeOK' /\ setbacks' \in Nat /\ retryCalls' \in Nat
  BY DEF ImportInv, ImportTypeOK, EndWave, boundVars, callVars, historyVars
<1>2. CoroutinesInWave'
  BY DEF ImportInv, ImportTypeOK, CoroutinesInWave, EndWave, boundVars,
      callVars, historyVars
<1>3. JobsOfRunners'
  BY DEF ImportInv, JobsOfRunners, EndWave, Working, MidBlock, Having,
      boundVars, callVars, historyVars
<1>4. NothingPending'
  BY DEF ImportInv, NothingPending, EndWave, Closing, Having, boundVars,
      callVars, historyVars
<1>5. RunningHasCoroutine' /\ TracksOfAlbum'
  BY DEF ImportInv, RunningHasCoroutine, TracksOfAlbum, EndWave,
      CoroutinesInWave, ItemsOf, boundVars, callVars, historyVars
<1>6. AbsentItems' /\ RetriesLeft' /\ TracksStored' /\ CallOfJob'
  BY DEF ImportInv, AbsentItems, RetriesLeft, TracksStored, CallOfJob, EndWave,
      HasTrack, boundVars, callVars, historyVars
<1> QED BY <1>1, <1>2, <1>3, <1>4, <1>5, <1>6 DEF ImportInv

(* The tracks of a wave that is not attached are in unattached.            *)
LEMMA AttachFailsKeeps ==
    ASSUME ImportInv, NEW j \in Jobs, AttachFails(j)
    PROVE  ImportInv'
<1>1. ImportTypeOK' /\ setbacks' \in Nat /\ retryCalls' \in Nat
  BY DEF ImportInv, ImportTypeOK, AttachFails, tableVars, boundVars, callVars,
      historyVars
<1>2. CoroutinesInWave'
  BY DEF ImportInv, ImportTypeOK, CoroutinesInWave, AttachFails, tableVars,
      boundVars, callVars, historyVars
<1>3. JobsOfRunners'
  BY DEF ImportInv, JobsOfRunners, AttachFails, Working, MidBlock, Having,
      tableVars, boundVars, callVars, historyVars
<1>4. NothingPending'
  BY DEF ImportInv, NothingPending, AttachFails, Closing, Having, tableVars,
      boundVars, callVars, historyVars
<1>5. RunningHasCoroutine' /\ TracksOfAlbum'
  BY DEF ImportInv, RunningHasCoroutine, TracksOfAlbum, AttachFails,
      CoroutinesInWave, ItemsOf, tableVars, boundVars, callVars, historyVars
<1>6. AbsentItems' /\ RetriesLeft' /\ TracksStored' /\ CallOfJob'
  BY DEF ImportInv, AbsentItems, RetriesLeft, TracksStored, CallOfJob,
      AttachFails, HasTrack, tableVars, boundVars, callVars, historyVars
<1> QED BY <1>1, <1>2, <1>3, <1>4, <1>5, <1>6 DEF ImportInv

(* Nothing is pending when the loop ends.                                  *)
LEMMA FindNonePendingKeeps ==
    ASSUME ImportInv, NEW j \in Jobs, FindNonePending(j)
    PROVE  ImportInv'
<1>1. ImportTypeOK' /\ setbacks' \in Nat /\ retryCalls' \in Nat
  BY DEF ImportInv, ImportTypeOK, FindNonePending, tableVars, boundVars,
      callVars, historyVars
<1>2. CoroutinesInWave'
  BY DEF ImportInv, CoroutinesInWave, FindNonePending, tableVars, boundVars,
      callVars, historyVars
<1>3. JobsOfRunners'
  BY DEF ImportInv, JobsOfRunners, FindNonePending, WorkerFree, Working,
      Having, tableVars, boundVars, callVars, historyVars
<1>4. NothingPending'
  BY DEF ImportInv, NothingPending, FindNonePending, Having, tableVars,
      boundVars, callVars, historyVars
<1>5. AbsentItems' /\ RetriesLeft' /\ TracksStored' /\ CallOfJob' /\
    RunningHasCoroutine' /\ TracksOfAlbum'
  BY DEF ImportInv, AbsentItems, RetriesLeft, TracksStored, CallOfJob,
      RunningHasCoroutine, TracksOfAlbum, FindNonePending, HasTrack, tableVars,
      boundVars, callVars, historyVars
<1> QED BY <1>1, <1>2, <1>3, <1>4, <1>5 DEF ImportInv

(* "clean" means that nothing has failed.                                  *)
LEMMA CountItemsKeeps ==
    ASSUME ImportInv, NEW j \in Jobs, CountItems(j)
    PROVE  ImportInv'
<1>1. ImportTypeOK' /\ setbacks' \in Nat /\ retryCalls' \in Nat
  BY DEF ImportInv, ImportTypeOK, CountItems, tableVars, boundVars, callVars,
      historyVars
<1>2. CoroutinesInWave'
  BY DEF ImportInv, CoroutinesInWave, CountItems, tableVars, boundVars,
      callVars, historyVars
<1>3. JobsOfRunners'
  BY DEF ImportInv, JobsOfRunners, CountItems, Working, MidBlock, Having,
      tableVars, boundVars, callVars, historyVars
<1>4. NothingPending'
  BY DEF ImportInv, NothingPending, CountItems, Closing, Having, tableVars,
      boundVars, callVars, historyVars
<1>5. AbsentItems' /\ RetriesLeft' /\ TracksStored' /\ CallOfJob' /\
    RunningHasCoroutine' /\ TracksOfAlbum'
  BY DEF ImportInv, AbsentItems, RetriesLeft, TracksStored, CallOfJob,
      RunningHasCoroutine, TracksOfAlbum, CountItems, HasTrack, tableVars,
      boundVars, callVars, historyVars
<1> QED BY <1>1, <1>2, <1>3, <1>4, <1>5 DEF ImportInv

(* What was true of the closing runner is now true of the job.             *)
LEMMA FinishJobKeeps ==
    ASSUME ImportInv, NEW j \in Jobs, FinishJob(j)
    PROVE  ImportInv'
<1>1. ImportTypeOK' /\ setbacks' \in Nat /\ retryCalls' \in Nat
  BY DEF ImportInv, ImportTypeOK, FinishJob, Ended, boundVars, callVars,
      historyVars
<1>2. CoroutinesInWave'
  BY DEF ImportInv, CoroutinesInWave, FinishJob, boundVars, callVars,
      historyVars
<1>3. JobsOfRunners'
  BY DEF ImportInv, ImportTypeOK, JobsOfRunners, FinishJob, Working, MidBlock,
      Having, boundVars, callVars, historyVars
<1>4. AbsentItems'
  BY DEF ImportInv, AbsentItems, FinishJob, boundVars, callVars, historyVars
<1>5. NothingPending'
  BY DEF ImportInv, NothingPending, FinishJob, Closing, Having, boundVars,
      callVars, historyVars
<1>6. RetriesLeft' /\ TracksStored' /\ CallOfJob' /\
    RunningHasCoroutine' /\ TracksOfAlbum'
  BY DEF ImportInv, RetriesLeft, TracksStored, CallOfJob, RunningHasCoroutine,
      TracksOfAlbum, FinishJob, HasTrack, boundVars, callVars, historyVars
<1> QED BY <1>1, <1>2, <1>3, <1>4, <1>5, <1>6 DEF ImportInv

(* A runner that fails leaves its job as it is, or failed.                 *)
LEMMA RunnerFailsKeeps ==
    ASSUME ImportInv, NEW j \in Jobs, RunnerFails(j)
    PROVE  ImportInv'
<1> USE DEF RunnerFails, Setback, callVars, historyVars
<1>1. job' \in [Jobs -> {"absent"} \cup Active \cup Ended]
  BY DEF ImportInv, ImportTypeOK, Ended
<1>2. CoroutinesInWave'
  BY DEF ImportInv, CoroutinesInWave, MidBlock
<1>3. /\ runner' \in [Jobs -> {"none", "scheduled", "starting", "restarting",
                              "reclaiming", "loop", "wave", "counting",
                              "clean", "flawed"}]
      /\ runner'[j] = "none" /\ \A k \in Jobs \ {j} : runner'[k] = runner[k]
      /\ job'[j] \in {job[j], "failed"}
      /\ \A k \in Jobs \ {j} : job'[k] = job[k]
      /\ job[j] # "absent"
  BY DEF ImportInv, ImportTypeOK, JobsOfRunners, MidBlock
<1>4. ImportTypeOK' /\ setbacks' \in Nat /\ retryCalls' \in Nat
  <2>1. /\ UNCHANGED <<external, item, retries, stale, stored, attached, wave,
                       proc, gathered, call, undone, unattached, retryCalls>>
        /\ setbacks' = setbacks + 1
    OBVIOUS
  <2> QED
    BY <1>1, <1>3, <2>1 DEF ImportInv, ImportTypeOK
<1>5. JobsOfRunners'
  BY <1>3 DEF ImportInv, JobsOfRunners, Working, MidBlock, Having, ItemsOf
<1>6. AbsentItems'
  BY <1>3, ImportAssumption DEF ImportInv, AbsentItems
<1>7. NothingPending'
  BY <1>3 DEF ImportInv, NothingPending, Closing, Completed, Having, ItemsOf
<1>8. RetriesLeft' /\ TracksStored' /\ CallOfJob' /\ RunningHasCoroutine' /\
    TracksOfAlbum'
  BY DEF ImportInv, RetriesLeft, TracksStored, CallOfJob, HasTrack, ItemsOf,
      RunningHasCoroutine, TracksOfAlbum
<1> QED BY <1>4, <1>2, <1>5, <1>6, <1>7, <1>8 DEF ImportInv

(* An item that is passed over was not running.                            *)
LEMMA PassOverKeeps ==
    ASSUME ImportInv, NEW i \in Items, PassOver(i)
    PROVE  ImportInv'
<1>1. ImportTypeOK' /\ setbacks' \in Nat /\ retryCalls' \in Nat
  BY DEF ImportInv, ImportTypeOK, PassOver, tableVars, boundVars, callVars,
      historyVars
<1>2. CoroutinesInWave'
  BY DEF ImportInv, CoroutinesInWave, PassOver, tableVars, boundVars, callVars,
      historyVars
<1>3. RetriesLeft'
  BY DEF ImportInv, RetriesLeft, PassOver, tableVars, boundVars, callVars,
      historyVars
<1>4. TracksStored'
  BY DEF ImportInv, TracksStored, PassOver, MayBegin, HasTrack, tableVars,
      boundVars, callVars, historyVars
<1>5. CallOfJob'
  BY DEF ImportInv, CallOfJob, PassOver, tableVars, boundVars, callVars,
      historyVars
<1>6. RunningHasCoroutine' /\ TracksOfAlbum'
  BY DEF ImportInv, RunningHasCoroutine, TracksOfAlbum, PassOver, MayBegin,
      tableVars, boundVars, callVars, historyVars
<1>7. JobsOfRunners' /\ AbsentItems' /\ NothingPending'
  BY DEF ImportInv, JobsOfRunners, AbsentItems, NothingPending, PassOver,
      Having, tableVars, boundVars, callVars, historyVars
<1> QED BY <1>1, <1>2, <1>3, <1>4, <1>5, <1>6, <1>7 DEF ImportInv

(* A claimed item is pending.                                              *)
LEMMA ClaimKeeps ==
    ASSUME ImportInv, NEW i \in Items, Claim(i)
    PROVE  ImportInv'
<1>1. ImportTypeOK' /\ setbacks' \in Nat /\ retryCalls' \in Nat
  BY DEF ImportInv, ImportTypeOK, Claim, tableVars, boundVars, callVars,
      historyVars
<1>2. CoroutinesInWave'
  BY DEF ImportInv, CoroutinesInWave, Claim, MayBegin, tableVars, boundVars,
      callVars, historyVars
<1>3. RetriesLeft'
  BY DEF ImportInv, RetriesLeft, Claim, tableVars, boundVars, callVars,
      historyVars
<1>4. TracksStored'
  BY DEF ImportInv, TracksStored, Claim, MayBegin, HasTrack, tableVars,
      boundVars, callVars, historyVars
<1>5. CallOfJob'
  BY DEF ImportInv, CallOfJob, Claim, tableVars, boundVars, callVars,
      historyVars
<1>6. RunningHasCoroutine' /\ TracksOfAlbum'
  BY DEF ImportInv, RunningHasCoroutine, TracksOfAlbum, Claim, tableVars,
      boundVars, callVars, historyVars
<1>7. JobsOfRunners' /\ AbsentItems' /\ NothingPending'
  BY DEF ImportInv, JobsOfRunners, AbsentItems, NothingPending, Claim, Having,
      tableVars, boundVars, callVars, historyVars
<1> QED BY <1>1, <1>2, <1>3, <1>4, <1>5, <1>6, <1>7 DEF ImportInv

(* A claimed item had retries left and no track.                           *)
LEMMA BeginItemKeeps ==
    ASSUME ImportInv, NEW i \in Items, BeginItem(i)
    PROVE  ImportInv'
<1>1. ImportTypeOK' /\ setbacks' \in Nat /\ retryCalls' \in Nat
  BY DEF ImportInv, ImportTypeOK, BeginItem, boundVars, callVars, historyVars
<1>2. CoroutinesInWave'
  BY DEF ImportInv, CoroutinesInWave, BeginItem, boundVars, callVars,
      historyVars
<1>3. JobsOfRunners'
  BY DEF ImportInv, JobsOfRunners, BeginItem, Having, boundVars, callVars,
      historyVars
<1>4. AbsentItems'
  BY ImportAssumption DEF ImportInv, AbsentItems, BeginItem, CoroutinesInWave,
      JobsOfRunners, boundVars, callVars, historyVars
<1>5. RetriesLeft'
  BY DEF ImportInv, RetriesLeft, BeginItem, boundVars, callVars, historyVars
<1>6. TracksStored'
  BY DEF ImportInv, ImportTypeOK, TracksStored, BeginItem, HasTrack,
      CoroutinesInWave, boundVars, callVars, historyVars
<1>7. CallOfJob'
  BY DEF ImportInv, CallOfJob, BeginItem, boundVars, callVars, historyVars
<1>8. NothingPending'
  BY DEF ImportInv, NothingPending, BeginItem, Having, boundVars, callVars,
      historyVars
<1>9. RunningHasCoroutine' /\ TracksOfAlbum'
  BY DEF ImportInv, ImportTypeOK, RunningHasCoroutine, TracksOfAlbum,
      BeginItem, boundVars, callVars, historyVars
<1> QED BY <1>1, <1>2, <1>3, <1>4, <1>5, <1>6, <1>7, <1>8, <1>9 DEF ImportInv

(* A duplicate is skipped before anything is stored.                       *)
LEMMA SkipDuplicateKeeps ==
    ASSUME ImportInv, NEW i \in Items, SkipDuplicate(i)
    PROVE  ImportInv'
<1>1. ImportTypeOK' /\ setbacks' \in Nat /\ retryCalls' \in Nat
  BY DEF ImportInv, ImportTypeOK, SkipDuplicate, boundVars, callVars,
      historyVars
<1>2. CoroutinesInWave'
  BY DEF ImportInv, CoroutinesInWave, SkipDuplicate, boundVars, callVars,
      historyVars
<1>3. JobsOfRunners'
  BY DEF ImportInv, JobsOfRunners, SkipDuplicate, Having, boundVars, callVars,
      historyVars
<1>4. AbsentItems'
  BY ImportAssumption DEF ImportInv, AbsentItems, SkipDuplicate, Having,
      CoroutinesInWave, JobsOfRunners, boundVars, callVars, historyVars
<1>5. RetriesLeft'
  BY DEF ImportInv, RetriesLeft, SkipDuplicate, boundVars, callVars,
      historyVars
<1>6. TracksStored'
  BY DEF ImportInv, ImportTypeOK, TracksStored, SkipDuplicate, HasTrack,
      boundVars, callVars, historyVars
<1>7. CallOfJob'
  BY DEF ImportInv, ImportTypeOK, CallOfJob, SkipDuplicate, TracksStored,
      HasTrack, CoroutinesInWave, boundVars, callVars, historyVars
<1>8. NothingPending'
  BY DEF ImportInv, NothingPending, SkipDuplicate, Having, boundVars, callVars,
      historyVars
<1>9. RunningHasCoroutine' /\ TracksOfAlbum'
  BY DEF ImportInv, ImportTypeOK, RunningHasCoroutine, TracksOfAlbum,
      SkipDuplicate, boundVars, callVars, historyVars
<1> QED BY <1>1, <1>2, <1>3, <1>4, <1>5, <1>6, <1>7, <1>8, <1>9 DEF ImportInv

(* Nothing but the stage changes.                                          *)
LEMMA StartDownloadKeeps ==
    ASSUME ImportInv, NEW i \in Items, StartDownload(i)
    PROVE  ImportInv'
<1>1. ImportTypeOK' /\ setbacks' \in Nat /\ retryCalls' \in Nat
  BY DEF ImportInv, ImportTypeOK, StartDownload, tableVars, boundVars,
      callVars, historyVars
<1>2. CoroutinesInWave'
  BY DEF ImportInv, CoroutinesInWave, StartDownload, tableVars, boundVars,
      callVars, historyVars
<1>3. RetriesLeft'
  BY DEF ImportInv, RetriesLeft, StartDownload, tableVars, boundVars, callVars,
      historyVars
<1>4. TracksStored'
  BY DEF ImportInv, TracksStored, StartDownload, HasTrack, tableVars,
      boundVars, callVars, historyVars
<1>5. CallOfJob'
  BY DEF ImportInv, CallOfJob, StartDownload, tableVars, boundVars, callVars,
      historyVars
<1>6. RunningHasCoroutine' /\ TracksOfAlbum'
  BY DEF ImportInv, RunningHasCoroutine, TracksOfAlbum, StartDownload,
      tableVars, boundVars, callVars, historyVars
<1>7. JobsOfRunners' /\ AbsentItems' /\ NothingPending'
  BY DEF ImportInv, JobsOfRunners, AbsentItems, NothingPending, StartDownload,
      Having, tableVars, boundVars, callVars, historyVars
<1> QED BY <1>1, <1>2, <1>3, <1>4, <1>5, <1>6, <1>7 DEF ImportInv

(* Before it is stored, an item being imported has no track.               *)
LEMMA StoreTrackKeeps ==
    ASSUME ImportInv, NEW i \in Items, StoreTrack(i)
    PROVE  ImportInv'
<1>1. ImportTypeOK' /\ setbacks' \in Nat /\ retryCalls' \in Nat
  BY DEF ImportInv, ImportTypeOK, StoreTrack, boundVars, callVars, historyVars
<1>2. CoroutinesInWave'
  BY DEF ImportInv, CoroutinesInWave, StoreTrack, boundVars, callVars,
      historyVars
<1>3. RetriesLeft'
  BY DEF ImportInv, RetriesLeft, StoreTrack, boundVars, callVars, historyVars
<1>4. TracksStored'
  BY DEF ImportInv, ImportTypeOK, TracksStored, StoreTrack, HasTrack,
      CoroutinesInWave, boundVars, callVars, historyVars
<1>5. CallOfJob'
  BY DEF ImportInv, CallOfJob, StoreTrack, boundVars, callVars, historyVars
<1>6. RunningHasCoroutine' /\ TracksOfAlbum'
  BY DEF ImportInv, RunningHasCoroutine, TracksOfAlbum, StoreTrack, boundVars,
      callVars, historyVars
<1>7. JobsOfRunners' /\ AbsentItems' /\ NothingPending'
  BY DEF ImportInv, JobsOfRunners, AbsentItems, NothingPending, StoreTrack,
      Having, boundVars, callVars, historyVars
<1> QED BY <1>1, <1>2, <1>3, <1>4, <1>5, <1>6, <1>7 DEF ImportInv

(* The stored track is recorded and handed to the wave.                    *)
LEMMA RecordSuccessKeeps ==
    ASSUME ImportInv, NEW i \in Items, RecordSuccess(i)
    PROVE  ImportInv'
<1>1. ImportTypeOK' /\ setbacks' \in Nat /\ retryCalls' \in Nat
  BY DEF ImportInv, ImportTypeOK, RecordSuccess, boundVars, callVars,
      historyVars
<1>2. CoroutinesInWave'
  BY DEF ImportInv, ImportTypeOK, CoroutinesInWave, RecordSuccess, boundVars,
      callVars, historyVars
<1>3. JobsOfRunners'
  BY DEF ImportInv, JobsOfRunners, RecordSuccess, Having, boundVars, callVars,
      historyVars
<1>4. AbsentItems'
  BY ImportAssumption DEF ImportInv, AbsentItems, RecordSuccess,
      CoroutinesInWave, JobsOfRunners, boundVars, callVars, historyVars
<1>5. RetriesLeft'
  BY DEF ImportInv, RetriesLeft, RecordSuccess, boundVars, callVars,
      historyVars
<1>6. TracksStored'
  BY DEF ImportInv, ImportTypeOK, TracksStored, RecordSuccess, HasTrack,
      boundVars, callVars, historyVars
<1>7. CallOfJob'
  BY DEF ImportInv, CallOfJob, RecordSuccess, boundVars, callVars, historyVars
<1>8. NothingPending'
  BY DEF ImportInv, NothingPending, RecordSuccess, Having, boundVars, callVars,
      historyVars
<1>9. RunningHasCoroutine' /\ TracksOfAlbum'
  BY DEF ImportInv, ImportTypeOK, RunningHasCoroutine, TracksOfAlbum,
      RecordSuccess, CoroutinesInWave, boundVars, callVars, historyVars
<1> QED BY <1>1, <1>2, <1>3, <1>4, <1>5, <1>6, <1>7, <1>8, <1>9 DEF ImportInv

(* A failure counts against the retries, and leaves no track.              *)
LEMMA ImportFailsKeeps ==
    ASSUME ImportInv, NEW i \in Items, NEW final \in BOOLEAN,
           ImportFails(i, final)
    PROVE  ImportInv'
<1>1. ImportTypeOK' /\ setbacks' \in Nat /\ retryCalls' \in Nat
  BY ImportAssumption DEF ImportInv, ImportTypeOK, ImportFails, CountFailure,
      RetriesLeft, boundVars, callVars, historyVars
<1>2. CoroutinesInWave'
  BY DEF ImportInv, CoroutinesInWave, ImportFails, CountFailure, boundVars,
      callVars, historyVars
<1>3. JobsOfRunners'
  BY DEF ImportInv, JobsOfRunners, ImportFails, CountFailure, WorkerFree,
      MidBlock, boundVars, callVars, historyVars
<1>4. AbsentItems'
  BY ImportAssumption DEF ImportInv, AbsentItems, ImportFails, CountFailure,
      CoroutinesInWave, JobsOfRunners, boundVars, callVars, historyVars
<1>5. RetriesLeft'
  BY ImportAssumption DEF ImportInv, ImportTypeOK, RetriesLeft, ImportFails,
      CountFailure, boundVars, callVars, historyVars
<1>6. TracksStored'
  BY DEF ImportInv, TracksStored, ImportFails, CountFailure, WorkerFree,
      HasTrack, CoroutinesInWave, CallOfJob, NoCall, boundVars, callVars,
      historyVars
<1>7. CallOfJob'
  BY DEF ImportInv, CallOfJob, ImportFails, CountFailure, boundVars, callVars,
      historyVars
<1>8. NothingPending'
  BY DEF ImportInv, NothingPending, ImportFails, CountFailure, Closing,
      ItemsOf, Having, JobsOfRunners, CoroutinesInWave, Working, boundVars,
      callVars, historyVars
<1>9. RunningHasCoroutine' /\ TracksOfAlbum'
  BY DEF ImportInv, ImportTypeOK, RunningHasCoroutine, TracksOfAlbum,
      ImportFails, CountFailure, boundVars, callVars, historyVars
<1> QED BY <1>1, <1>2, <1>3, <1>4, <1>5, <1>6, <1>7, <1>8, <1>9 DEF ImportInv

(* An item whose coroutine dies is tried again or failed, or stays as it   *)
(* is; a track that it stored is then in undone.                           *)
LEMMA ItemDiesKeeps ==
    ASSUME ImportInv, NEW i \in Items, ItemDies(i)
    PROVE  ImportInv'
<1> USE DEF ItemDies, Setback
<1> DEFINE Fails == \E final \in BOOLEAN : CountFailure(i, final)
<1>1. /\ proc[i] # "none" /\ proc'[i] = "none"
      /\ \A k \in Items \ {i} : proc'[k] = proc[k]
      /\ proc' \in [Items -> {"none", "waiting", "claimed", "checking",
                              "importing", "stored"}]
  BY DEF ImportInv, ImportTypeOK, MidBlock
<1>2. retries[i] \in 0..AutoRetries
  BY <1>1, ImportAssumption DEF ImportInv, ImportTypeOK, RetriesLeft
<1>3. /\ item'[i] \in {item[i], "failed", "pending"}
      /\ \A k \in Items \ {i} : item'[k] = item[k] /\ retries'[k] = retries[k]
      /\ item'[i] = "pending" => retries'[i] <= AutoRetries
      /\ item'[i] = item[i] \/ retries'[i] = retries[i] + 1
  <2>1. CASE UNCHANGED <<retries, item, stale>>
    BY <1>2, <2>1
  <2>2. CASE Fails
    BY <1>2, <2>2, ImportAssumption DEF CountFailure, ImportInv, ImportTypeOK
  <2> QED
    BY <2>1, <2>2
<1>4. ImportTypeOK' /\ setbacks' \in Nat /\ retryCalls' \in Nat
  <2>1. CASE UNCHANGED <<retries, item, stale>>
    BY <1>1, <2>1 DEF ImportInv, ImportTypeOK
  <2>2. CASE Fails
    <3>1. retries' \in [Items -> 0..(AutoRetries + 1)]
      BY <1>2, <2>2, ImportAssumption DEF CountFailure, ImportInv, ImportTypeOK
    <3>2. item' \in [Items -> {"absent", "pending", "running", "success",
                               "failed", "skipped"}]
      BY <2>2 DEF CountFailure, ImportInv, ImportTypeOK
    <3>3. stale' \subseteq {k \in Items : item'[k] = "running"}
      BY <1>3, <2>2 DEF CountFailure, ImportInv, ImportTypeOK
    <3> QED
      BY <1>1, <3>1, <3>2, <3>3 DEF ImportInv, ImportTypeOK
  <2> QED
    BY <2>1, <2>2
<1>5. CoroutinesInWave'
  BY <1>1, <1>3 DEF ImportInv, CoroutinesInWave
<1>6. runner[JobOf[i]] = "wave" /\ JobOf[i] \in Jobs /\ item[i] # "success"
  BY <1>1, ImportAssumption DEF ImportInv, CoroutinesInWave
<1>7. JobsOfRunners'
  BY <1>3, <1>6 DEF ImportInv, JobsOfRunners, MidBlock, Having, ItemsOf
<1>8. AbsentItems'
  BY <1>3, <1>6, ImportAssumption DEF ImportInv, AbsentItems, JobsOfRunners
<1>9. RetriesLeft'
  <2> SUFFICES ASSUME NEW k \in Items,
                      \/ item'[k] \in {"absent", "pending", "running"}
                      \/ proc'[k] # "none"
               PROVE  retries'[k] <= AutoRetries
    BY DEF RetriesLeft
  <2>1. CASE k # i
    BY <1>1, <1>3, <2>1 DEF ImportInv, RetriesLeft
  <2>2. CASE k = i
    <3>1. CASE Fails
      BY <1>1, <1>3, <2>2, <3>1 DEF CountFailure, ImportInv, ImportTypeOK
    <3>2. CASE UNCHANGED <<retries, item, stale>>
      BY <1>2, <2>2, <3>2
    <3> QED
      BY <3>1, <3>2
  <2> QED
    BY <2>1, <2>2
<1>10. TracksStored'
  <2>1. /\ stored' = stored /\ undone \subseteq undone'
        /\ proc[i] = "stored" => i \in undone'
    OBVIOUS
  <2>2. ASSUME NEW k \in Items, k # i
        PROVE  \/ k \in undone'
               \/ stored'[k] = 0
               \/ HasTrack(k)' /\ stored'[k] = 1
    <3>1. HasTrack(k)' <=> HasTrack(k)
      BY <1>1, <1>3, <2>2 DEF HasTrack
    <3> QED
      BY <2>1, <2>2, <3>1 DEF ImportInv, TracksStored
  <2>3. i \in undone' \/ stored'[i] = 0
    <3>1. proc[i] = "stored" \/ ~HasTrack(i)
      BY <1>1, <1>6 DEF HasTrack
    <3> QED
      BY <2>1, <3>1 DEF ImportInv, TracksStored
  <2> QED
    BY <2>2, <2>3 DEF TracksStored
<1>11. CallOfJob'
  BY <1>1, <1>3 DEF ImportInv, CallOfJob, ItemsOf
<1>12. NothingPending'
  BY <1>3, <1>6 DEF ImportInv, NothingPending, JobsOfRunners, Closing, Working,
      Having, ItemsOf
<1>13. RunningHasCoroutine' /\ TracksOfAlbum'
  BY <1>3, <1>6 DEF ImportInv, RunningHasCoroutine, TracksOfAlbum
<1> QED
  BY <1>4, <1>5, <1>7, <1>8, <1>9, <1>10, <1>11, <1>12, <1>13 DEF ImportInv

(* Only running items grow stale.                                          *)
LEMMA GrowStaleKeeps ==
    ASSUME ImportInv, NEW i \in Items, GrowStale(i)
    PROVE  ImportInv'
<1>1. ImportTypeOK' /\ setbacks' \in Nat /\ retryCalls' \in Nat
  BY DEF ImportInv, ImportTypeOK, GrowStale, memoryVars, boundVars, callVars,
      historyVars
<1>2. CoroutinesInWave' /\ JobsOfRunners' /\ AbsentItems' /\ RetriesLeft' /\
    TracksStored' /\ CallOfJob' /\ NothingPending' /\
    RunningHasCoroutine' /\ TracksOfAlbum'
  BY DEF ImportInv, CoroutinesInWave, JobsOfRunners, AbsentItems, RetriesLeft,
      TracksStored, CallOfJob, NothingPending, RunningHasCoroutine,
      TracksOfAlbum, GrowStale, Having, HasTrack, memoryVars, boundVars,
      callVars, historyVars
<1> QED BY <1>1, <1>2 DEF ImportInv

(* A track that a kill orphans is in undone, one it takes from a wave in   *)
(* unattached.                                                             *)
LEMMA KillWorkerKeeps ==
    ASSUME ImportInv, KillWorker
    PROVE  ImportInv'
<1>1. /\ UNCHANGED <<external, job, item, retries, stale, stored, attached,
                     retryCalls>>
      /\ setbacks' = setbacks + 1
      /\ call' = call \/ call' = NoCall
      /\ undone' = undone \cup {i \in Items : proc[i] = "stored"}
      /\ unattached' = unattached \cup gathered
  BY DEF KillWorker, Setback, tableVars
<1>2. /\ runner' = [j \in Jobs |-> "none"] /\ wave' = [j \in Jobs |-> {}]
      /\ proc' = [i \in Items |-> "none"] /\ gathered' = {}
  BY DEF KillWorker
<1>3. ImportTypeOK' /\ setbacks' \in Nat /\ retryCalls' \in Nat
  <2>1. \/ call' = NoCall
        \/ call' \in [job : Jobs, running : SUBSET Items,
                      pending : SUBSET Items]
    BY <1>1 DEF ImportInv, ImportTypeOK
  <2> QED
    BY <1>1, <1>2, <2>1 DEF ImportInv, ImportTypeOK
<1>4. CoroutinesInWave'
  BY <1>2 DEF CoroutinesInWave
<1>5. JobsOfRunners'
  BY <1>1, <1>2 DEF JobsOfRunners, Working, MidBlock
<1>6. RetriesLeft' /\ AbsentItems'
  BY <1>1, <1>2 DEF ImportInv, RetriesLeft, AbsentItems
<1>7. TracksStored'
  BY <1>1, <1>2 DEF ImportInv, TracksStored, HasTrack
<1>8. CallOfJob'
  <2>1. CASE call' = NoCall
    BY <2>1 DEF CallOfJob
  <2>2. CASE call' = call /\ call # NoCall
    BY <1>1, <1>2, <2>2 DEF ImportInv, ImportTypeOK, CallOfJob, ItemsOf
  <2> QED
    BY <1>1, <2>1, <2>2
<1>9. NothingPending'
  BY <1>1, <1>2 DEF ImportInv, NothingPending, Closing, Having, ItemsOf
<1>10. RunningHasCoroutine'
  BY <1>1 DEF ImportInv, RunningHasCoroutine
<1>11. TracksOfAlbum'
  BY <1>1, <1>2 DEF ImportInv, TracksOfAlbum
<1> QED
  BY <1>3, <1>4, <1>5, <1>6, <1>7, <1>8, <1>9, <1>10, <1>11 DEF ImportInv

-----------------------------------------------------------------------------
(* No job, no item: nothing has been imported.                             *)
LEMMA ImportInitially == ImportInit => ImportInv
<1>1. ImportInit => ImportTypeOK /\ setbacks \in Nat /\ retryCalls \in Nat
  BY ImportAssumption DEF ImportInit, ImportTypeOK
<1>2. ImportInit => CoroutinesInWave /\ JobsOfRunners
  BY ImportAssumption
     DEF ImportInit, CoroutinesInWave, JobsOfRunners, Working, MidBlock
<1>3. ImportInit => AbsentItems /\ RetriesLeft /\ TracksStored
  BY ImportAssumption DEF ImportInit, AbsentItems, RetriesLeft, TracksStored
<1>4. ImportInit => CallOfJob /\ NothingPending /\
                   RunningHasCoroutine /\ TracksOfAlbum
  BY DEF ImportInit, CallOfJob, NothingPending, RunningHasCoroutine,
      TracksOfAlbum, Closing, Completed
<1> QED
  BY <1>1, <1>2, <1>3, <1>4 DEF ImportInv

(* A step of the API, of a runner, of a coroutine or of the host, and a    *)
(* step of something else.                                                 *)
LEMMA ImportStep == ImportInv /\ [ImportNext]_importVars => ImportInv'
<1> SUFFICES ASSUME ImportInv, [ImportNext]_importVars PROVE ImportInv'
  OBVIOUS
<1>1. ASSUME NEW j \in Jobs, ClientCall(j) PROVE ImportInv'
  BY <1>1, CreateJobKeeps, CreateFailsKeeps, RepeatCreateKeeps,
     RetryFailedKeeps,
     CancelJobKeeps DEF ClientCall
<1>2. ASSUME NEW j \in Jobs, RunnerStep(j) PROVE ImportInv'
  BY <1>2, StartRunnerKeeps, MarkRunningKeeps, ReclaimOwnKeeps,
     LeaveCancelledKeeps, StartWaveKeeps, EndWaveKeeps, AttachFailsKeeps,
     FindNonePendingKeeps,
     CountItemsKeeps, FinishJobKeeps DEF RunnerStep
<1>3. ASSUME NEW i \in Items, ItemStep(i) PROVE ImportInv'
  BY <1>3, PassOverKeeps, ClaimKeeps, BeginItemKeeps, SkipDuplicateKeeps,
     StartDownloadKeeps, StoreTrackKeeps, RecordSuccessKeeps,
     ImportFailsKeeps DEF ItemStep
<1>4. CASE UNCHANGED importVars
  <2>1. ImportTypeOK' /\ setbacks' \in Nat /\ retryCalls' \in Nat
    BY <1>4 DEF ImportInv, ImportTypeOK, importVars, tableVars, memoryVars,
        boundVars, callVars, historyVars
  <2>2. (CoroutinesInWave /\ JobsOfRunners /\ AbsentItems)'
    BY <1>4 DEF ImportInv, CoroutinesInWave, JobsOfRunners, AbsentItems,
        ItemsOf, Having, importVars, tableVars, memoryVars, boundVars,
        callVars, historyVars
  <2>3. (RetriesLeft /\ TracksStored /\ CallOfJob)'
    BY <1>4 DEF ImportInv, RetriesLeft, TracksStored, HasTrack, CallOfJob,
        ItemsOf, importVars, tableVars, memoryVars, boundVars, callVars,
        historyVars
  <2>4. (NothingPending /\ RunningHasCoroutine /\ TracksOfAlbum)'
    BY <1>4 DEF ImportInv, NothingPending, RunningHasCoroutine, TracksOfAlbum,
        ItemsOf, Having, importVars, tableVars, memoryVars, boundVars,
        callVars, historyVars
  <2> QED
    BY <2>1, <2>2, <2>3, <2>4 DEF ImportInv
<1> QED
  BY <1>1, <1>2, <1>3, <1>4, CommitCancelKeeps, CancelFailsKeeps,
     RunnerFailsKeeps, PollKeeps, ItemDiesKeeps, GrowStaleKeeps,
     KillWorkerKeeps DEF ImportNext

-----------------------------------------------------------------------------
(* The invariant holds throughout.                                         *)
THEOREM ImportInvariant == ImportSpec => []ImportInv
BY ImportInitially, ImportStep, PTL DEF ImportSpec

(* The variables keep their types: a retry count never passes the limit by *)
(* more than the failure that reached it, and only running items go stale. *)
THEOREM ImportTypeCorrect == ImportSpec => []ImportTypeOK
<1>1. ImportInv => ImportTypeOK
  BY DEF ImportInv
<1> QED
  BY <1>1, ImportInvariant, PTL

(* A link becomes one track, through any number of setbacks: only one      *)
(* whose success was not recorded, or was overwritten, is stored again.    *)
THEOREM LinkImportedOnce == ImportSpec => []ImportedOnce
<1>1. ImportInv => ImportedOnce
  BY DEF ImportInv, ImportTypeOK, TracksStored, ImportedOnce
<1> QED
  BY <1>1, ImportInvariant, PTL

(* No wave is open in a job that says it is completed.                     *)
LEMMA CompletedHasNoWave ==
    ASSUME ImportInv, NEW j \in Jobs, job[j] \in Completed
    PROVE  /\ wave[j] = {}
           /\ \A i \in Items : JobOf[i] = j => proc[i] = "none"
<1>1. runner[j] # "wave"
  BY DEF ImportInv, JobsOfRunners, Working
<1> QED
  BY <1>1 DEF ImportInv, CoroutinesInWave

(* Nothing imports for a job that says it is completed.                    *)
THEOREM CompletedIsIdle == ImportSpec => []NoWorkInCompletedJob
<1>1. ImportInv => NoWorkInCompletedJob
  BY ImportAssumption, CompletedHasNoWave DEF NoWorkInCompletedJob
<1> QED
  BY <1>1, ImportInvariant, PTL

(* A completed job has dealt with all its items, if no setback occurred,   *)
(* up to a retry that came while an external runner was finishing.         *)
THEOREM CompletedDone == ImportSpec => []CompletedIsDone
<1>1. ASSUME ImportInv, NEW j \in Jobs, job[j] \in Completed, setbacks = 0
      PROVE  /\ Having(j, "running") = {}
             /\ Having(j, "pending") # {} => external /\ retryCalls > 0
  <2>1. \A i \in ItemsOf(j) : proc[i] = "none"
    BY <1>1, CompletedHasNoWave DEF ItemsOf
  <2>2. \A i \in Items : item[i] = "running" => proc[i] # "none"
    BY <1>1 DEF ImportInv, RunningHasCoroutine
  <2>3. Having(j, "running") = {}
    BY <2>1, <2>2 DEF Having, ItemsOf
  <2> QED
    BY <1>1, <2>3 DEF ImportInv, NothingPending
<1>2. ImportInv => CompletedIsDone
  BY <1>1 DEF CompletedIsDone
<1> QED
  BY <1>2, ImportInvariant, PTL

(* What a completed job imported is in its album, through any number of    *)
(* setbacks, or in a wave whose attach was swallowed or lost with a kill.  *)
THEOREM AlbumFilled == ImportSpec => []AttachedToAlbum
<1>1. ASSUME ImportInv, NEW j \in WithAlbum, job[j] \in Completed
      PROVE  Having(j, "success") \subseteq attached \cup unattached
  <2>1. j \in Jobs /\ wave[j] = {}
    BY <1>1, ImportAssumption, CompletedHasNoWave
  <2> QED
    BY <1>1, <2>1 DEF ImportInv, TracksOfAlbum, Having, ItemsOf
<1>2. ImportInv => AttachedToAlbum
  BY <1>1 DEF AttachedToAlbum
<1> QED
  BY <1>2, ImportInvariant, PTL

-----------------------------------------------------------------------------
(* Only these steps write the status of a job.                             *)
LEMMA JobWriters ==
    ASSUME [ImportNext]_importVars, job' # job
    PROVE  \/ \E j \in Jobs : \/ Book(j) \/ RetryFailed(j)
                              \/ MarkRunning(j) \/ FinishJob(j)
                              \/ RunnerFails(j)
           \/ CommitCancel
<1>1. ~UNCHANGED importVars
  BY DEF importVars, tableVars
<1>2. ASSUME NEW j \in Jobs, ClientCall(j)
      PROVE  Book(j) \/ RetryFailed(j)
  BY <1>2 DEF ClientCall, CreateJob, CreateFails, RepeatCreate, CancelJob,
      tableVars
<1>3. ASSUME NEW j \in Jobs, RunnerStep(j)
      PROVE  MarkRunning(j) \/ FinishJob(j)
  BY <1>3 DEF RunnerStep, StartRunner, ReclaimOwn, LeaveCancelled, StartWave,
              EndWave, AttachFails, FindNonePending, CountItems, tableVars
<1>4. ASSUME NEW i \in Items 
      PROVE  ~ItemStep(i) /\ ~ItemDies(i) /\ ~GrowStale(i)
  BY DEF ItemStep, PassOver, Claim, BeginItem, SkipDuplicate, StartDownload,
         StoreTrack, RecordSuccess, ImportFails, ItemDies, GrowStale,
         tableVars
<1>5. ~Poll /\ ~KillWorker /\ ~CancelFails
  BY DEF Poll, KillWorker, CancelFails, tableVars
<1> QED
  BY <1>1, <1>2, <1>3, <1>4, <1>5 DEF ImportNext

(* A job is committed as "completed" only when none of its items has       *)
(* failed, whatever clients do between the count and the commit.           *)
THEOREM FailuresNotHidden == ImportSpec => CompletedHidesNoFailure
<1> DEFINE Step == \A j \in Jobs :
              job'[j] = "completed" /\ job[j] \in Active
                  => Having(j, "failed") = {}
<1>1. ImportInv /\ [ImportNext]_importVars => [Step]_importVars
  <2> SUFFICES ASSUME ImportInv, [ImportNext]_importVars, NEW j \in Jobs,
                      job'[j] = "completed", job[j] \in Active
               PROVE  Having(j, "failed") = {}
    OBVIOUS
  <2>1. job' # job
    BY DEF Active
  <2>2. ASSUME NEW k \in Jobs, FinishJob(k) PROVE Having(j, "failed") = {}
    BY <2>1, <2>2 DEF FinishJob, ImportInv, ImportTypeOK, JobsOfRunners, Active
  <2>3. ASSUME NEW k \in Jobs, \/ Book(k) \/ RetryFailed(k) \/ MarkRunning(k)
                               \/ RunnerFails(k)
        PROVE  FALSE
    BY <2>3 DEF Book, RetryFailed, MarkRunning, RunnerFails, ImportInv,
                ImportTypeOK, Active
  <2>4. ~CommitCancel
    BY DEF CommitCancel, ImportInv, ImportTypeOK, Active
  <2> QED
    BY <2>1, <2>2, <2>3, <2>4, JobWriters
<1> QED
  BY <1>1, ImportInvariant, PTL DEF ImportSpec, CompletedHidesNoFailure

(* A cancelled job stays cancelled, except that an external runner which   *)
(* read the job before the cancel overwrites it, or a runner fails.        *)
THEOREM CancelIsFinal == ImportSpec => CancelledIsFinal
<1> DEFINE Step == \A j \in Jobs :
              job[j] = "cancelled" /\ job'[j] # "cancelled"
                  => \/ external /\ runner[j] \in {"starting", "clean", "flawed"}
                     \/ job'[j] = "failed" /\ runner[j] \in MidBlock \cup {"loop"}
<1>1. ImportInv /\ [ImportNext]_importVars => [Step]_importVars
  <2> SUFFICES ASSUME ImportInv, [ImportNext]_importVars, NEW j \in Jobs,
                      job[j] = "cancelled", job'[j] # "cancelled"
               PROVE  \/ external /\ runner[j] \in {"starting", "clean", "flawed"}
                      \/ job'[j] = "failed" /\ runner[j] \in MidBlock \cup {"loop"}
    OBVIOUS
  <2>1. job' # job
    OBVIOUS
  <2>2. ASSUME NEW k \in Jobs, FinishJob(k) \/ MarkRunning(k)
        PROVE  external /\ runner[j] \in {"starting", "clean", "flawed"}
    <3>1. runner[j] \in {"starting", "clean", "flawed"}
      BY <2>2 DEF FinishJob, MarkRunning, ImportInv, ImportTypeOK
    <3> QED
      BY <3>1, ImportAssumption
         DEF ImportInv, ImportTypeOK, JobsOfRunners, MidBlock
  <2>3. ASSUME NEW k \in Jobs, Book(k) \/ RetryFailed(k) PROVE FALSE
    BY <2>3 DEF Book, RetryFailed, ImportInv, ImportTypeOK
  <2>4. ASSUME NEW k \in Jobs, RunnerFails(k)
        PROVE  job'[j] = "failed" /\ runner[j] \in MidBlock \cup {"loop"}
    BY <2>4 DEF RunnerFails, ImportInv, ImportTypeOK
  <2>5. ~CommitCancel
    BY DEF CommitCancel, ImportInv, ImportTypeOK
  <2> QED
    BY <2>1, <2>2, <2>3, <2>4, <2>5, JobWriters
<1> QED
  BY <1>1, ImportInvariant, PTL DEF ImportSpec, CancelledIsFinal
=============================================================================
