----------------------------- MODULE ImportJobs -----------------------------
(***************************************************************************)
(* Background imports (api/tracks.py, import_worker.py): a request books a *)
(* job with one item per link; a runner coroutine per job takes its        *)
(* pending items in waves, one coroutine per item, under a semaphore that  *)
(* all jobs share.                                                         *)
(*                                                                         *)
(* `external` is IMPORT_WORKER_EXTERNAL.  When it is set, the runners live *)
(* in a process of their own that polls the table every two seconds, and   *)
(* the API handlers interleave with every commit of theirs; otherwise they *)
(* live in the API process, which a handler re-enters only at an await.    *)
(* A runner or coroutine between two commits of one such block is in a     *)
(* stage of MidBlock.  Cancelling is two steps, what it reads and what it  *)
(* commits; for the other handlers and for the reclaiming of stale items   *)
(* the read and the commit are one.  One account owns all jobs: rows of    *)
(* different accounts meet only in the semaphore.  The counters of a job   *)
(* are recomputed from its items wherever they are read and are left out,  *)
(* and with them the GET handlers that do so.  Imported tracks are not     *)
(* deleted and accounts stay.                                              *)
(*                                                                         *)
(* A setback is a kill of the runners' process, or a commit or refresh     *)
(* that raises, as they do while another request holds SQLite's lock.  A   *)
(* session whose flush has failed raises again in the handler's "except",  *)
(* which then writes nothing either; hence the two outcomes of ItemDies    *)
(* and RunnerFails.  A request whose only commit fails changes nothing.    *)
(*                                                                         *)
(* Bounds of the model: MaxSetbacks, MaxRetryCalls.                        *)
(***************************************************************************)
EXTENDS Integers, FiniteSets

CONSTANTS
    Deployments,    \* values of IMPORT_WORKER_EXTERNAL to consider
    Jobs, Items,    \* ids; item ids are numbers, in order of position
    JobOf, UrlOf,   \* item -> its job, its normalized_url
    WithAlbum,      \* jobs that carry an album_id
    BatchSize,      \* YOUTUBE_IMPORT_BATCH_SIZE
    Concurrency,    \* YOUTUBE_IMPORT_CONCURRENCY
    AutoRetries,    \* JOB_ITEM_AUTO_RETRIES
    MaxActive,      \* MAX_ACTIVE_IMPORT_JOBS_PER_USER
    MaxSetbacks, MaxRetryCalls

ASSUME ImportAssumption ==
    /\ Deployments \subseteq BOOLEAN
    /\ Items \subseteq Nat /\ IsFiniteSet(Items)
    /\ JobOf \in [Items -> Jobs] /\ DOMAIN UrlOf = Items
    /\ WithAlbum \subseteq Jobs
    /\ BatchSize \in Nat \ {0} /\ Concurrency \in Nat \ {0}
    /\ AutoRetries \in Nat /\ MaxActive \in Nat \ {0}
    /\ MaxSetbacks \in Nat /\ MaxRetryCalls \in Nat

VARIABLES
    external,  \* where the runners live
    job,       \* ImportJob.status
    item,      \* ImportJobItem.status
    retries,   \* ImportJobItem.retry_count
    stale,     \* running items not updated for IMPORT_ITEM_STALE_RUNNING_MINUTES
    runner,    \* job -> stage of its runner; "none": not in _running_import_jobs
    wave,      \* job -> items its runner has gathered and waits for
    proc,      \* item -> stage of its coroutine
    gathered,  \* items whose coroutine returned a track id to the open wave
    stored,    \* item -> tracks that were inserted for it
    attached,  \* items whose track was added to the album of the job
    call,      \* what a cancel handler of the API has read, or NoCall
    undone,    \* history: items whose track is stored, but whose success a
               \* setback kept from being recorded or a cancel overwrote
    unattached, \* history: items whose track the album was not given
    setbacks, retryCalls

tableVars == <<job, item, retries, stale, stored, attached>>
memoryVars == <<runner, wave, proc, gathered>>
boundVars == <<external, setbacks, retryCalls>>
historyVars == <<undone, unattached>>
callVars == <<call, historyVars>>
importVars == <<tableVars, memoryVars, boundVars, callVars>>

Active == {"pending", "running"}
Ended == {"completed", "completed_with_errors", "cancelled", "failed"}
MidBlock == {"starting", "restarting", "reclaiming", "counting", "clean",
             "flawed", "claimed", "checking", "stored"}
NoCall == [job |-> {}]

ImportTypeOK ==
    /\ external \in Deployments
    /\ job \in [Jobs -> {"absent"} \cup Active \cup Ended]
    /\ item \in [Items -> {"absent", "pending", "running", "success",
                           "failed", "skipped"}]
    /\ retries \in [Items -> 0..(AutoRetries + 1)]
    /\ stale \subseteq {i \in Items : item[i] = "running"}
    /\ runner \in [Jobs -> {"none", "scheduled", "starting", "restarting",
                            "reclaiming", "loop", "wave", "counting",
                            "clean", "flawed"}]
    /\ wave \in [Jobs -> SUBSET Items]
    /\ proc \in [Items -> {"none", "waiting", "claimed", "checking",
                           "importing", "stored"}]
    /\ gathered \subseteq Items
    /\ stored \in [Items -> Nat]
    /\ attached \subseteq Items
    /\ \/ call = NoCall
       \/ call \in [job : Jobs, running : SUBSET Items, pending : SUBSET Items]
    /\ undone \subseteq Items
    /\ unattached \subseteq Items

ImportInit ==
    /\ external \in Deployments
    /\ job = [j \in Jobs |-> "absent"]
    /\ item = [i \in Items |-> "absent"]
    /\ retries = [i \in Items |-> 0]
    /\ stale = {}
    /\ runner = [j \in Jobs |-> "none"]
    /\ wave = [j \in Jobs |-> {}]
    /\ proc = [i \in Items |-> "none"]
    /\ gathered = {}
    /\ stored = [i \in Items |-> 0]
    /\ attached = {}
    /\ call = NoCall
    /\ undone = {}
    /\ unattached = {}
    /\ setbacks = 0
    /\ retryCalls = 0

ItemsOf(j) == {i \in Items : JobOf[i] = j}
Having(j, status) == {i \in ItemsOf(j) : item[i] = status}

(* No code of the runners' process stands between two commits.             *)
WorkerFree ==
    /\ external \/ call = NoCall
    /\ \A j \in Jobs : runner[j] \notin MidBlock
    /\ \A i \in Items : proc[i] \notin MidBlock

ApiMayRun == call = NoCall /\ (external \/ WorkerFree)

Setback ==
    /\ setbacks < MaxSetbacks
    /\ setbacks' = setbacks + 1
    /\ UNCHANGED <<external, retryCalls>>

(* _schedule_import_job: only the in-process deployment starts a runner.   *)
Schedule(j) ==
    runner' = IF ~external /\ runner[j] = "none"
              THEN [runner EXCEPT ![j] = "scheduled"] ELSE runner

-----------------------------------------------------------------------------
(* POST /import/youtube/jobs and /import/direct/jobs.                      *)
RepeatsInRequest(i) ==
    \E k \in ItemsOf(JobOf[i]) : k < i /\ UrlOf[k] = UrlOf[i]

Book(j) ==
    /\ ApiMayRun
    /\ job[j] = "absent"
    /\ Cardinality({k \in Jobs : job[k] \in Active}) < MaxActive
    /\ job' = [job EXCEPT ![j] = "pending"]
    /\ item' = [i \in Items |->
                   IF JobOf[i] # j THEN item[i]
                   ELSE IF RepeatsInRequest(i) THEN "skipped" ELSE "pending"]
    /\ UNCHANGED <<retries, stale, stored, attached, wave, proc, gathered,
                   callVars>>

CreateJob(j) ==
    /\ Book(j)
    /\ Schedule(j)
    /\ UNCHANGED boundVars

(* The commit of the counters, after the one that books, raises.           *)
CreateFails(j) ==
    /\ Setback
    /\ Book(j)
    /\ UNCHANGED runner

(* The same request again, with the client_request_id of an active job.    *)
RepeatCreate(j) ==
    /\ ApiMayRun
    /\ job[j] \in Active
    /\ Schedule(j)
    /\ UNCHANGED <<tableVars, wave, proc, gathered, boundVars, callVars>>

(* Mutant of RetryFailed: cancelled jobs are not refused.                  *)
RetryFailed_EvenCancelled(j) ==
    /\ ApiMayRun
    /\ retryCalls < MaxRetryCalls
    /\ job[j] # "absent"
    /\ item' = [i \in Items |->
                   IF i \in Having(j, "failed") THEN "pending" ELSE item[i]]
    /\ job' = [job EXCEPT ![j] = IF Having(j, "failed") # {} THEN "pending" ELSE @]
    /\ Schedule(j)
    /\ retryCalls' = retryCalls + 1
    /\ UNCHANGED <<retries, stale, stored, attached, wave, proc, gathered,
                   external, setbacks, callVars>>

(* POST /import/direct/jobs/{id}/retry-failed                              *)
RetryFailed(j) ==
    /\ ApiMayRun
    /\ retryCalls < MaxRetryCalls
    /\ job[j] \notin {"absent", "cancelled"}
    /\ item' = [i \in Items |->
                   IF i \in Having(j, "failed") THEN "pending" ELSE item[i]]
    /\ retries' = [i \in Items |->
                      IF i \in Having(j, "failed") THEN 0 ELSE retries[i]]
    /\ job' = [job EXCEPT ![j] = IF Having(j, "failed") # {} THEN "pending" ELSE @]
    /\ Schedule(j)
    /\ retryCalls' = retryCalls + 1
    /\ UNCHANGED <<stale, stored, attached, wave, proc, gathered, external,
                   setbacks, callVars>>

(* POST /import/direct/jobs/{id}/cancel reads the job and its items ...    *)
CancelJob(j) ==
    /\ ApiMayRun
    /\ job[j] \in Active
    /\ call' = [job |-> j, running |-> Having(j, "running"),
                pending |-> Having(j, "pending")]
    /\ UNCHANGED <<tableVars, memoryVars, boundVars, historyVars>>

(* ... and commits what follows from that (_fail_running_items_for_job).   *)
CommitCancel ==
    /\ call # NoCall
    /\ job' = [job EXCEPT ![call.job] = "cancelled"]
    /\ item' = [i \in Items |-> IF i \in call.running THEN "failed"
                               ELSE IF i \in call.pending THEN "skipped"
                               ELSE item[i]]
    /\ stale' = stale \ (call.running \cup call.pending)
    /\ undone' = undone \cup {i \in call.running : item[i] = "success"}
    /\ call' = NoCall
    /\ UNCHANGED <<retries, stored, attached, memoryVars, boundVars, unattached>>

(* ... or that commit raises.                                              *)
CancelFails ==
    /\ Setback
    /\ call # NoCall
    /\ call' = NoCall
    /\ UNCHANGED <<tableVars, memoryVars, historyVars>>

-----------------------------------------------------------------------------
(* _reclaim_stale_running_items over a set of stale items.                 *)
Reclaimed(is) ==
    [i \in Items |-> IF i \notin is THEN item[i]
                     ELSE IF job[JobOf[i]] \in Ended THEN "failed"
                     ELSE "pending"]

(* Mutant of Poll: a restarted worker does not look for running jobs.      *)
Poll_PendingOnly ==
    /\ external
    /\ WorkerFree
    /\ item' = Reclaimed(stale)
    /\ stale' = {}
    /\ runner' = [j \in Jobs |->
                    IF job[j] = "pending" /\ runner[j] = "none" THEN "scheduled"
                    ELSE runner[j]]
    /\ UNCHANGED <<job, retries, stored, attached, wave, proc, gathered,
                   boundVars, callVars>>

(* One turn of run_import_worker_loop.                                     *)
Poll ==
    /\ external
    /\ WorkerFree
    /\ item' = Reclaimed(stale)
    /\ stale' = {}
    /\ runner' = [j \in Jobs |->
                    IF job[j] \in Active /\ runner[j] = "none" THEN "scheduled"
                    ELSE runner[j]]
    /\ UNCHANGED <<job, retries, stored, attached, wave, proc, gathered,
                   boundVars, callVars>>

(* _run_import_job reads the status of the job ...                         *)
StartRunner(j) ==
    /\ WorkerFree
    /\ runner[j] = "scheduled"
    /\ runner' = [runner EXCEPT ![j] =
                    IF job[j] \in {"cancelled", "completed"} THEN "none"
                    ELSE IF job[j] = "running" THEN "restarting"
                    ELSE "starting"]
    /\ UNCHANGED <<tableVars, wave, proc, gathered, boundVars, callVars>>

(* ... commits "running" unless that is what it read ...                   *)
MarkRunning(j) ==
    /\ runner[j] \in {"starting", "restarting"}
    /\ job' = [job EXCEPT ![j] = IF runner[j] = "starting" THEN "running" ELSE @]
    /\ runner' = [runner EXCEPT ![j] = "reclaiming"]
    /\ UNCHANGED <<item, retries, stale, stored, attached, wave, proc,
                   gathered, boundVars, callVars>>

(* ... and reclaims the stale items of the job.                            *)
ReclaimOwn(j) ==
    /\ runner[j] = "reclaiming"
    /\ item' = Reclaimed(stale \cap ItemsOf(j))
    /\ stale' = stale \ ItemsOf(j)
    /\ runner' = [runner EXCEPT ![j] = "loop"]
    /\ UNCHANGED <<job, retries, stored, attached, wave, proc, gathered,
                   boundVars, callVars>>

(* The loop of the runner finds the job cancelled.                         *)
LeaveCancelled(j) ==
    /\ WorkerFree
    /\ runner[j] = "loop"
    /\ job[j] = "cancelled"
    /\ runner' = [runner EXCEPT ![j] = "none"]
    /\ UNCHANGED <<tableVars, wave, proc, gathered, boundVars, callVars>>

(* The next wave: the first BatchSize pending items.                       *)
StartWave(j) ==
    /\ WorkerFree
    /\ runner[j] = "loop"
    /\ job[j] # "cancelled"
    /\ Having(j, "pending") # {}
    /\ LET first == {i \in Having(j, "pending") :
                        Cardinality({k \in Having(j, "pending") : k < i})
                            < BatchSize} IN
        /\ wave' = [wave EXCEPT ![j] = first]
        /\ proc' = [i \in Items |-> IF i \in first THEN "waiting" ELSE proc[i]]
    /\ runner' = [runner EXCEPT ![j] = "wave"]
    /\ UNCHANGED <<tableVars, gathered, boundVars, callVars>>

(* Mutant of EndWave: the items of the wave are not awaited.               *)
EndWave_Early(j) ==
    /\ WorkerFree
    /\ runner[j] = "wave"
    /\ attached' = IF j \in WithAlbum THEN attached \cup (gathered \cap wave[j])
                   ELSE attached
    /\ gathered' = gathered \ wave[j]
    /\ wave' = [wave EXCEPT ![j] = {}]
    /\ runner' = [runner EXCEPT ![j] = "loop"]
    /\ UNCHANGED <<job, item, retries, stale, stored, proc, boundVars, callVars>>

(* Mutant of EndWave: the new tracks replace those of the album.           *)
EndWave_Replaces(j) ==
    /\ WorkerFree
    /\ runner[j] = "wave"
    /\ \A i \in wave[j] : proc[i] = "none"
    /\ attached' = IF j \in WithAlbum THEN gathered \cap wave[j] ELSE attached
    /\ gathered' = gathered \ wave[j]
    /\ wave' = [wave EXCEPT ![j] = {}]
    /\ runner' = [runner EXCEPT ![j] = "loop"]
    /\ UNCHANGED <<job, item, retries, stale, stored, proc, boundVars, callVars>>

(* asyncio.gather returned: attach the new tracks, look for more items.    *)
EndWave(j) ==
    /\ WorkerFree
    /\ runner[j] = "wave"
    /\ \A i \in wave[j] : proc[i] = "none"
    /\ attached' = IF j \in WithAlbum THEN attached \cup (gathered \cap wave[j])
                   ELSE attached
    /\ gathered' = gathered \ wave[j]
    /\ wave' = [wave EXCEPT ![j] = {}]
    /\ runner' = [runner EXCEPT ![j] = "loop"]
    /\ UNCHANGED <<job, item, retries, stale, stored, proc, boundVars, callVars>>

(* The user is gone, or the attach raises (an album that does not exist,   *)
(* which no request checks, or a failed commit): the error is swallowed.   *)
AttachFails(j) ==
    /\ WorkerFree
    /\ runner[j] = "wave"
    /\ \A i \in wave[j] : proc[i] = "none"
    /\ j \in WithAlbum /\ gathered \cap wave[j] # {}
    /\ unattached' = unattached \cup (gathered \cap wave[j])
    /\ gathered' = gathered \ wave[j]
    /\ wave' = [wave EXCEPT ![j] = {}]
    /\ runner' = [runner EXCEPT ![j] = "loop"]
    /\ UNCHANGED <<tableVars, proc, boundVars, call, undone>>

(* Mutant of FindNonePending: the job ends after its first wave.           *)
FindNonePending_AnyRest(j) ==
    /\ WorkerFree
    /\ runner[j] = "loop"
    /\ job[j] # "cancelled"
    /\ runner' = [runner EXCEPT ![j] = "counting"]
    /\ UNCHANGED <<tableVars, wave, proc, gathered, boundVars, callVars>>

(* No pending item was found ...                                           *)
FindNonePending(j) ==
    /\ WorkerFree
    /\ runner[j] = "loop"
    /\ job[j] # "cancelled"
    /\ Having(j, "pending") = {}
    /\ runner' = [runner EXCEPT ![j] = "counting"]
    /\ UNCHANGED <<tableVars, wave, proc, gathered, boundVars, callVars>>

(* Mutant of CountItems: one imported link hides the failed ones.          *)
CountItems_AnySuccess(j) ==
    /\ runner[j] = "counting"
    /\ runner' = [runner EXCEPT ![j] = IF Having(j, "success") = {}
                                       THEN "flawed" ELSE "clean"]
    /\ UNCHANGED <<tableVars, wave, proc, gathered, boundVars, callVars>>

(* ... so the failed items are counted ...                                 *)
CountItems(j) ==
    /\ runner[j] = "counting"
    /\ runner' = [runner EXCEPT ![j] = IF Having(j, "failed") # {}
                                       THEN "flawed" ELSE "clean"]
    /\ UNCHANGED <<tableVars, wave, proc, gathered, boundVars, callVars>>

(* ... and the job is committed as completed.                              *)
FinishJob(j) ==
    /\ runner[j] \in {"clean", "flawed"}
    /\ job' = [job EXCEPT ![j] = IF runner[j] = "flawed"
                                 THEN "completed_with_errors" ELSE "completed"]
    /\ runner' = [runner EXCEPT ![j] = "none"]
    /\ UNCHANGED <<item, retries, stale, stored, attached, wave, proc,
                   gathered, boundVars, callVars>>

(* A commit or a refresh of the runner raises outside a wave: its job is   *)
(* committed as failed, or that is not possible either.                    *)
RunnerFails(j) ==
    /\ Setback
    /\ \/ runner[j] \in MidBlock
       \/ WorkerFree /\ runner[j] = "loop"
    /\ job' \in {job, [job EXCEPT ![j] = "failed"]}
    /\ runner' = [runner EXCEPT ![j] = "none"]
    /\ UNCHANGED <<item, retries, stale, stored, attached, wave, proc,
                   gathered, callVars>>

-----------------------------------------------------------------------------
(* _process_import_job_item, once it holds one of the slots, reads the     *)
(* item and the status of the job ...                                      *)
SlotFree ==
    Cardinality({i \in Items : proc[i] \notin {"none", "waiting"}})
        < Concurrency

MayBegin(i) ==
    /\ WorkerFree
    /\ proc[i] = "waiting"
    /\ SlotFree

PassOver(i) ==
    /\ MayBegin(i)
    /\ item[i] # "pending" \/ job[JobOf[i]] = "cancelled"
    /\ proc' = [proc EXCEPT ![i] = "none"]
    /\ UNCHANGED <<tableVars, runner, wave, gathered, boundVars, callVars>>

Claim(i) ==
    /\ MayBegin(i)
    /\ item[i] = "pending" /\ job[JobOf[i]] # "cancelled"
    /\ proc' = [proc EXCEPT ![i] = "claimed"]
    /\ UNCHANGED <<tableVars, runner, wave, gathered, boundVars, callVars>>

(* ... commits the item as running ...                                     *)
BeginItem(i) ==
    /\ proc[i] = "claimed"
    /\ item' = [item EXCEPT ![i] = "running"]
    /\ proc' = [proc EXCEPT ![i] = "checking"]
    /\ UNCHANGED <<job, retries, stale, stored, attached, runner, wave,
                   gathered, boundVars, callVars>>

(* ... and skips it if another job has imported the link, or awaits the    *)
(* download.                                                               *)
ImportedElsewhere(i) ==
    \E k \in Items : /\ JobOf[k] # JobOf[i]
                     /\ UrlOf[k] = UrlOf[i]
                     /\ item[k] = "success"

SkipDuplicate(i) ==
    /\ proc[i] = "checking"
    /\ ImportedElsewhere(i)
    /\ item' = [item EXCEPT ![i] = "skipped"]
    /\ stale' = stale \ {i}
    /\ proc' = [proc EXCEPT ![i] = "none"]
    /\ UNCHANGED <<job, retries, stored, attached, runner, wave, gathered,
                   boundVars, callVars>>

StartDownload(i) ==
    /\ proc[i] = "checking"
    /\ ~ImportedElsewhere(i)
    /\ proc' = [proc EXCEPT ![i] = "importing"]
    /\ UNCHANGED <<tableVars, runner, wave, gathered, boundVars, callVars>>

(* _create_track_from_remote / _from_direct_url commits the track ...      *)
StoreTrack(i) ==
    /\ WorkerFree
    /\ proc[i] = "importing"
    /\ stored' = [stored EXCEPT ![i] = @ + 1]
    /\ proc' = [proc EXCEPT ![i] = "stored"]
    /\ UNCHANGED <<job, item, retries, stale, attached, runner, wave,
                   gathered, boundVars, callVars>>

(* Mutant of RecordSuccess: an item reclaimed meanwhile is left pending.   *)
RecordSuccess_IfRunning(i) ==
    /\ proc[i] = "stored"
    /\ item' = [item EXCEPT ![i] = IF @ = "running" THEN "success" ELSE @]
    /\ stale' = stale \ {i}
    /\ gathered' = gathered \cup {i}
    /\ proc' = [proc EXCEPT ![i] = "none"]
    /\ UNCHANGED <<job, retries, stored, attached, runner, wave,
                   boundVars, callVars>>

(* ... and the item is committed after it, whatever it says by now.        *)
RecordSuccess(i) ==
    /\ proc[i] = "stored"
    /\ item' = [item EXCEPT ![i] = "success"]
    /\ stale' = stale \ {i}
    /\ gathered' = gathered \cup {i}
    /\ proc' = [proc EXCEPT ![i] = "none"]
    /\ UNCHANGED <<job, retries, stored, attached, runner, wave,
                   boundVars, callVars>>

(* Mutant of ImportFails: the retries are not counted against a limit.     *)
ImportFails_Unlimited(i, final) ==
    /\ WorkerFree
    /\ proc[i] = "importing"
    /\ retries' = [retries EXCEPT ![i] = @ + 1]
    /\ item' = [item EXCEPT ![i] = IF final THEN "failed" ELSE "pending"]
    /\ stale' = stale \ {i}
    /\ proc' = [proc EXCEPT ![i] = "none"]
    /\ UNCHANGED <<job, stored, attached, runner, wave, gathered,
                   boundVars, callVars>>

(* An exception: no quota and the like are final, the rest is retried.     *)
CountFailure(i, final) ==
    /\ retries' = [retries EXCEPT ![i] = @ + 1]
    /\ item' = [item EXCEPT ![i] = IF final \/ retries[i] + 1 > AutoRetries
                                   THEN "failed" ELSE "pending"]
    /\ stale' = stale \ {i}

ImportFails(i, final) ==
    /\ WorkerFree
    /\ proc[i] = "importing"
    /\ CountFailure(i, final)
    /\ proc' = [proc EXCEPT ![i] = "none"]
    /\ UNCHANGED <<job, stored, attached, runner, wave, gathered,
                   boundVars, callVars>>

(* A commit or a refresh of the coroutine raises, after the commit of the  *)
(* track as well; the handler of the exception may not get further.        *)
ItemDies(i) ==
    /\ Setback
    /\ \/ proc[i] \in MidBlock
       \/ WorkerFree /\ proc[i] = "importing"
    /\ \/ \E final \in BOOLEAN : CountFailure(i, final)
       \/ UNCHANGED <<retries, item, stale>>
    /\ proc' = [proc EXCEPT ![i] = "none"]
    /\ undone' = IF proc[i] = "stored" THEN undone \cup {i} ELSE undone
    /\ UNCHANGED <<job, stored, attached, runner, wave, gathered, call,
                   unattached>>

(* The item has been running for IMPORT_ITEM_STALE_RUNNING_MINUTES: its    *)
(* process has died, or its download is slow.                              *)
GrowStale(i) ==
    /\ item[i] = "running"
    /\ proc[i] \in {"none", "importing"}
    /\ i \notin stale
    /\ stale' = stale \cup {i}
    /\ UNCHANGED <<job, item, retries, stored, attached, memoryVars,
                   boundVars, callVars>>

(* The process of the runners is killed, or a commit of its poll raises,   *)
(* which ends it, and it is restarted; if it runs no job, that changes     *)
(* nothing.                                                                *)
KillWorker ==
    /\ Setback
    /\ \E j \in Jobs : runner[j] # "none"
    /\ runner' = [j \in Jobs |-> "none"]
    /\ wave' = [j \in Jobs |-> {}]
    /\ proc' = [i \in Items |-> "none"]
    /\ gathered' = {}
    /\ call' = IF external THEN call ELSE NoCall
    /\ undone' = undone \cup {i \in Items : proc[i] = "stored"}
    /\ unattached' = unattached \cup gathered
    /\ UNCHANGED tableVars

-----------------------------------------------------------------------------
ClientCall(j) ==
    \/ CreateJob(j)
    \/ CreateFails(j)
    \/ RepeatCreate(j)
    \/ RetryFailed(j)
    \/ CancelJob(j)

RunnerStep(j) ==
    \/ StartRunner(j)
    \/ MarkRunning(j)
    \/ ReclaimOwn(j)
    \/ LeaveCancelled(j)
    \/ StartWave(j)
    \/ EndWave(j)
    \/ AttachFails(j)
    \/ FindNonePending(j)
    \/ CountItems(j)
    \/ FinishJob(j)

ItemStep(i) ==
    \/ PassOver(i)
    \/ Claim(i)
    \/ BeginItem(i)
    \/ SkipDuplicate(i)
    \/ StartDownload(i)
    \/ StoreTrack(i)
    \/ RecordSuccess(i)
    \/ ImportFails(i, TRUE)
    \/ ImportFails(i, FALSE)

ImportNext ==
    \/ \E j \in Jobs : ClientCall(j) \/ RunnerStep(j) \/ RunnerFails(j)
    \/ CommitCancel
    \/ CancelFails
    \/ \E i \in Items : ItemStep(i) \/ ItemDies(i) \/ GrowStale(i)
    \/ Poll
    \/ KillWorker

ImportSpec == ImportInit /\ [][ImportNext]_importVars

(* The worker polls for ever, asyncio resumes every coroutine that can go  *)
(* on, and every download or upload ends by its timeout.  A coroutine is   *)
(* disabled while another one is inside a block and while the slots are    *)
(* taken; the ready queue and the semaphore are first come, first served,  *)
(* hence strong fairness.                                                  *)
ImportFairness ==
    /\ WF_importVars(CommitCancel)
    /\ SF_importVars(Poll)
    /\ \A j \in Jobs : SF_importVars(RunnerStep(j))
    /\ \A i \in Items : SF_importVars(ItemStep(i))

FairImportSpec == ImportSpec /\ ImportFairness

-----------------------------------------------------------------------------
Completed == {"completed", "completed_with_errors"}

(* A link of a job becomes one track: retries, slow downloads reclaimed as *)
(* stale, cancellation, a second runner, kills and failed commits never    *)
(* store it again, except that of a link whose success was not recorded: a *)
(* kill or an exception came between the commit of its track and that of   *)
(* its item, or a cancel overwrote the success of an external runner.      *)
ImportedOnce ==
    \A i \in Items : stored[i] <= 1 \/ i \in undone

(* No coroutine still imports for a job that says it is completed.         *)
NoWorkInCompletedJob ==
    \A i \in Items : proc[i] # "none" => job[JobOf[i]] \notin Completed

(* As long as no setback occurs, a completed job has dealt with all its    *)
(* items, except for a retry that the API commits while an external runner *)
(* is finishing the job.                                                   *)
CompletedIsDone ==
    \A j \in Jobs :
        job[j] \in Completed /\ setbacks = 0 =>
            /\ Having(j, "running") = {}
            /\ Having(j, "pending") # {} => external /\ retryCalls > 0

(* "completed" hides no failure when it is committed, whatever clients do  *)
(* between the count and the commit; only a cancel that an external runner *)
(* overwrites leaves failed items behind.                                  *)
CompletedHidesNoFailure ==
    [][\A j \in Jobs :
        job'[j] = "completed" /\ job[j] \in Active
            => Having(j, "failed") = {}]_importVars

(* Every track that a completed job imported is in the album it was meant  *)
(* for, over all waves, retries, kills and failed commits, except those of *)
(* a wave whose attach was swallowed or that a kill ended.                 *)
AttachedToAlbum ==
    \A j \in WithAlbum :
        job[j] \in Completed
            => Having(j, "success") \subseteq attached \cup unattached

(* A cancelled job stays cancelled, whatever its runner and the client do; *)
(* only an external runner that read the job before can overwrite it, and  *)
(* a runner that fails before it has left the job.                         *)
CancelledIsFinal ==
    [][\A j \in Jobs :
        job[j] = "cancelled" /\ job'[j] # "cancelled"
            => \/ external /\ runner[j] \in {"starting", "clean", "flawed"}
               \/ job'[j] = "failed" /\ runner[j] \in MidBlock \cup {"loop"}
       ]_importVars

(* An active job ends, through failures, retries, lost races, and kills    *)
(* and failed commits of the external worker; only those of the API        *)
(* process strand its jobs.                                                *)
JobEnds ==
    \A j \in Jobs :
        job[j] \in Active ~> (job[j] \in Ended \/ (~external /\ setbacks > 0))

(* context/change_log.md:115, "cancel clears running items": a cancelled   *)
(* job keeps no item that is running or waits to run.                      *)
CancelClearsItems ==
    \A j \in Jobs :
        job[j] = "cancelled" =>
            Having(j, "running") = {} /\ Having(j, "pending") = {}
=============================================================================
