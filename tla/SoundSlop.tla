----------------------------- MODULE SoundSlop ------------------------------
(***************************************************************************)
(* Music generation: POST /soundslop/generate (api/soundslop.py), which    *)
(* books a job and charges for it, and the background task of the same     *)
(* process that carries it out (soundslop_worker.process_job).             *)
(*                                                                         *)
(* jobs is the table soundslop_jobs in order of insertion, tasks the tasks *)
(* that exist only in the memory of the process.  Job j inserts at most    *)
(* one track, so j also names that track.  The ledger ref_id of the charge *)
(* of job j is j; the ref_id of its refund, "{j}:refund", is j again,      *)
(* under another reason.                                                   *)
(*                                                                         *)
(* Bound of the model: MaxJobs.                                            *)
(***************************************************************************)
EXTENDS TokenLedger

CONSTANTS
    CostPerGeneration,  \* SOUNDSLOP_COST_PER_TRACK (10)
    MaxJobs

ASSUME SlopAssumption ==
    /\ CostPerGeneration \in Nat \ {0}
    /\ MaxJobs \in Nat

VARIABLES
    jobs,     \* rows of soundslop_jobs
    tracks,   \* generated tracks that exist in table tracks
    tasks,    \* job -> phase of its background task
    lost,     \* history: jobs whose handler or task a kill or a failed
              \* commit ended
    forsaken  \* history: jobs whose account was deleted after them

slopVars == <<jobs, tracks, tasks, lost, forsaken>>
allSlopVars == <<tokenVars, slopVars>>

JobIds == 1..MaxJobs
NoSource == 0

Job == [user : UserIds,
        source : JobIds \cup {NoSource},  \* generated track to extend, or none
        status : {"queued", "running", "succeeded", "failed", "deleted"}]

SlopContinuation == [at : {"charge", "refund"}, job : JobIds]

SlopTypeOK ==
    /\ LedgerTypeOK
    /\ loop \in {Idle} \cup RedeemContinuation \cup SlopContinuation
    /\ jobs \in Seq(Job) /\ Len(jobs) <= MaxJobs
    /\ tracks \subseteq JobIds
    /\ tasks \in [JobIds -> {"none", "scheduled", "generating"}]
    /\ lost \subseteq JobIds
    /\ forsaken \subseteq JobIds

SlopInit ==
    /\ LedgerInit
    /\ jobs = <<>>
    /\ tracks = {}
    /\ tasks = [j \in JobIds |-> "none"]
    /\ lost = {}
    /\ forsaken = {}

Jobs == DOMAIN jobs
SetStatus(j, status) == jobs' = [jobs EXCEPT ![j].status = status]
EndTask(j) == tasks' = [tasks EXCEPT ![j] = "none"]

Owns(u, t) == t \in tracks /\ jobs[t].user = u
SourceMissing(j) ==
    jobs[j].source # NoSource /\ ~Owns(jobs[j].user, jobs[j].source)

-----------------------------------------------------------------------------
(* POST /soundslop/generate.  The job row is committed first ...           *)
Generate(u, source) ==
    /\ Len(jobs) < MaxJobs
    /\ source = NoSource \/ Owns(u, source)
    /\ Request(u)
    /\ jobs' = Append(jobs, [user |-> u, source |-> source,
                             status |-> "queued"])
    /\ Suspend([at |-> "charge", job |-> Len(jobs) + 1])
    /\ UNCHANGED <<ledgerVars, epoch, tracks, tasks, lost, forsaken>>

(* Mutant of Charge: the balance is not looked at.                         *)
Charge_Unchecked ==
    /\ Resume("charge")
    /\ LET u == jobs[loop.job].user IN
        /\ txns' = Append(txns, [user |-> u, delta |-> -CostPerGeneration,
                                 reason |-> "generation", ref |-> loop.job,
                                 day |-> Today])
        /\ balance' = [balance EXCEPT ![u] = @ - CostPerGeneration]
    /\ tasks' = [tasks EXCEPT ![loop.job] = "scheduled"]
    /\ Release
    /\ UNCHANGED <<accountVars, epoch, jobs, tracks, lost, forsaken>>

(* ... then charged; the task is scheduled once the response is out ...    *)
Charge ==
    /\ Resume("charge")
    /\ LET j == loop.job IN
        /\ ApplyTransaction(jobs[j].user, -CostPerGeneration, "generation", j)
        /\ tasks' = [tasks EXCEPT ![j] = "scheduled"]
    /\ Release
    /\ UNCHANGED <<accountVars, epoch, jobs, tracks, lost, forsaken>>

(* Mutant of Uncharge: the task of the unpaid job is scheduled as well.    *)
Uncharge_RunsJob ==
    /\ Resume("charge")
    /\ Insufficient(jobs[loop.job].user, -CostPerGeneration)
    /\ tasks' = [tasks EXCEPT ![loop.job] = "scheduled"]
    /\ Release
    /\ UNCHANGED <<accountVars, ledgerVars, epoch, jobs, tracks, lost, forsaken>>

(* ... or deleted again, with a 402, when the tokens do not suffice.       *)
Uncharge ==
    /\ Resume("charge")
    /\ Insufficient(jobs[loop.job].user, -CostPerGeneration)
    /\ SetStatus(loop.job, "deleted")
    /\ Release
    /\ UNCHANGED <<accountVars, ledgerVars, epoch, tracks, tasks, lost, forsaken>>

(* soundslop_worker.process_job, up to its first await.                    *)
StartJob(j) ==
    /\ loop = Idle
    /\ tasks[j] = "scheduled"
    /\ jobs[j].status \in {"queued", "running"}
    /\ ~SourceMissing(j)
    /\ SetStatus(j, "running")
    /\ tasks' = [tasks EXCEPT ![j] = "generating"]
    /\ UNCHANGED <<accountVars, hostVars, ledgerVars, epoch, tracks, lost, forsaken>>

(* Mutant of Fail: no refund.                                              *)
Fail_StatusOnly(j) ==
    /\ SetStatus(j, "failed")
    /\ EndTask(j)
    /\ UNCHANGED <<accountVars, hostVars, ledgerVars, epoch, tracks, lost, forsaken>>

(* _fail_and_refund: the status is committed before the refund is booked.  *)
Fail(j) ==
    /\ SetStatus(j, "failed")
    /\ EndTask(j)
    /\ Suspend([at |-> "refund", job |-> j])
    /\ UNCHANGED <<accountVars, ledgerVars, epoch, tracks, lost, forsaken>>

(* Mutant of StartWithoutSource: the task waits for the source track.      *)
StartWithoutSource_Waits(j) == FALSE

(* The source track of an audio or extend job was deleted meanwhile.       *)
StartWithoutSource(j) ==
    /\ loop = Idle
    /\ tasks[j] = "scheduled"
    /\ jobs[j].status \in {"queued", "running"}
    /\ SourceMissing(j)
    /\ Fail(j)

(* Mutant of GenerationFails: the task tries again after the refund.       *)
GenerationFails_Retries(j) ==
    /\ loop = Idle
    /\ tasks[j] = "generating"
    /\ SetStatus(j, "failed")
    /\ Suspend([at |-> "refund", job |-> j])
    /\ UNCHANGED <<accountVars, ledgerVars, epoch, tracks, tasks, lost, forsaken>>

(* The provider, the download, the upload or the commit of the track       *)
(* failed or timed out.                                                    *)
GenerationFails(j) ==
    /\ loop = Idle
    /\ tasks[j] = "generating"
    /\ Fail(j)

(* Mutant of GenerationSucceeds: work after the commit can still fail.     *)
GenerationSucceeds_GoesOn(j) ==
    /\ loop = Idle
    /\ tasks[j] = "generating"
    /\ SetStatus(j, "succeeded")
    /\ tracks' = tracks \cup {j}
    /\ UNCHANGED <<accountVars, hostVars, ledgerVars, epoch, tasks, lost, forsaken>>

(* Track row and job status are one commit.                                *)
GenerationSucceeds(j) ==
    /\ loop = Idle
    /\ tasks[j] = "generating"
    /\ SetStatus(j, "succeeded")
    /\ tracks' = tracks \cup {j}
    /\ EndTask(j)
    /\ UNCHANGED <<accountVars, hostVars, ledgerVars, epoch, lost, forsaken>>

(* The refund is skipped when the account has been deleted.                *)
Refund ==
    /\ Resume("refund")
    /\ LET u == jobs[loop.job].user IN
        IF u \in users
        THEN ApplyTransaction(u, CostPerGeneration, "refund", loop.job)
        ELSE UNCHANGED ledgerVars
    /\ Release
    /\ UNCHANGED <<accountVars, epoch, slopVars>>

-----------------------------------------------------------------------------
(* DELETE /tracks/{id} on a generated track.                               *)
DeleteTrack(u, t) ==
    /\ Owns(u, t)
    /\ ReadOnlyRequest(u)
    /\ tracks' = tracks \ {t}
    /\ UNCHANGED <<ledgerVars, epoch, jobs, tasks, lost, forsaken>>

(* Deleting an account deletes its tracks; its jobs stay behind.           *)
DeleteAccount(u) ==
    /\ DeleteMe(u)
    /\ tracks' = {t \in tracks : jobs[t].user # u}
    /\ forsaken' = forsaken \cup {j \in Jobs : jobs[j].user = u}
    /\ UNCHANGED <<jobs, tasks, lost>>

(* The jobs in `gone` are dropped as their rows are: no restart and no     *)
(* later request looks for one that is queued, running or not refunded.    *)
Drop(gone) ==
    /\ tasks' = [j \in JobIds |-> IF j \in gone THEN "none" ELSE tasks[j]]
    /\ lost' = lost \cup gone
    /\ UNCHANGED <<jobs, tracks, forsaken>>

HandledJob == IF loop.at \in {"charge", "refund"} THEN {loop.job} ELSE {}

SlopCrash ==
    /\ Crash
    /\ Drop(HandledJob \cup {j \in JobIds : tasks[j] # "none"})

(* The commit of the charge, of the withdrawal or of the refund raises.    *)
JobHandlerFails ==
    /\ HandlerFails
    /\ Drop(HandledJob)

(* A task raises outside its try block or in the except branch: at the     *)
(* commit of "running", or of "failed".                                    *)
TaskFails(j) ==
    /\ loop = Idle
    /\ tasks[j] # "none"
    /\ Interrupt
    /\ Drop({j})
    /\ UNCHANGED <<accountVars, ledgerVars, epoch>>

-----------------------------------------------------------------------------
RunTask(j) ==
    \/ StartJob(j)
    \/ StartWithoutSource(j)
    \/ GenerationFails(j)
    \/ GenerationSucceeds(j)

ContinueHandler == Charge \/ Uncharge \/ Refund

SlopRequest(u) ==
    \/ \E source \in Jobs \cup {NoSource} : Generate(u, source)
    \/ \E t \in Jobs : DeleteTrack(u, t)
    \/ DeleteAccount(u)

SlopNext ==
    \/ \E u \in UserIds :
        \/ SlopRequest(u)
        \/ Register(u) /\ UNCHANGED slopVars
        \/ TokenRequest(u) /\ UNCHANGED slopVars
    \/ RedeemGrant /\ UNCHANGED slopVars
    \/ TimePasses /\ UNCHANGED slopVars
    \/ ContinueHandler
    \/ \E j \in Jobs : RunTask(j) \/ TaskFails(j)
    \/ SlopCrash
    \/ JobHandlerFails

SlopSpec == SlopInit /\ [][SlopNext]_allSlopVars

(* asyncio resumes every ready task and the provider calls have timeouts   *)
(* (httpx, 300 s), so a task that can go on goes on; requests are up to    *)
(* the clients.                                                            *)
SlopFairness ==
    /\ WF_allSlopVars(ContinueHandler)
    /\ WF_allSlopVars(RedeemGrant /\ UNCHANGED slopVars)
    /\ \A j \in JobIds : WF_allSlopVars(j \in Jobs /\ RunTask(j))

FairSlopSpec == SlopSpec /\ SlopFairness

-----------------------------------------------------------------------------
Charged(j) == Recorded("generation", j)
Refunded(j) == Recorded("refund", j)
InHand(j) == tasks[j] # "none" \/ j \in HandledJob

(* The row of the payer still is the one that was charged for job j.       *)
PayerRemains(j) ==
    /\ jobs[j].user \in users
    /\ \E i \in DOMAIN txns : /\ i > epoch[jobs[j].user]
                             /\ txns[i].reason = "generation"
                             /\ txns[i].ref = j

(* Rows i and k of user u count for the same account with that id.         *)
SameAccount(u, i, k) == i > epoch[u] <=> k > epoch[u]

(* A refund is booked only for a failed job, only after a charge of the    *)
(* same amount to the same user id, and to the account that was charged    *)
(* unless that was deleted: concurrent tasks, repeated failures, kills and *)
(* registrations never pay out tokens nobody paid, nor to somebody else    *)
(* while the payer is there.  Once he is gone, _fail_and_refund pays the   *)
(* account that was registered under his id.                               *)
RefundMatchesCharge ==
    \A i \in DOMAIN txns :
        txns[i].reason = "refund" =>
            /\ jobs[txns[i].ref].status = "failed"
            /\ \E c \in 1..(i - 1) :
                  /\ txns[c].reason = "generation"
                  /\ txns[c].ref = txns[i].ref
                  /\ txns[c].user = txns[i].user
                  /\ txns[c].delta = -txns[i].delta
                  /\ \/ SameAccount(txns[i].user, c, i)
                     \/ txns[i].ref \in forsaken

(* A generated track was paid for and is never refunded as well, also when *)
(* the task ends after its account is gone or its source was deleted.      *)
DeliveredIsPaid ==
    \A j \in Jobs :
        (j \in tracks \/ jobs[j].status = "succeeded")
            => Charged(j) /\ ~Refunded(j)

(* Unless a kill or a failed commit ended its handler or its task, a job   *)
(* that nothing is working on is settled: delivered, or failed and         *)
(* refunded to a payer who still exists, or withdrawn without a charge.    *)
(* What happens to other jobs, accounts and requests drops none.           *)
EveryJobSettled ==
    \A j \in Jobs \ lost :
        \/ InHand(j)
        \/ jobs[j].status = "succeeded"
        \/ jobs[j].status = "failed" /\ (PayerRemains(j) => Refunded(j))
        \/ jobs[j].status = "deleted" /\ ~Charged(j)

(* soundslop_worker.py:3-6 promises a refund with every failure: whenever  *)
(* the process is idle, a failed job whose payer exists is refunded.       *)
FailedMeansRefunded ==
    loop = Idle =>
        \A j \in Jobs :
            jobs[j].status = "failed" /\ PayerRemains(j) => Refunded(j)

(* The deal that job j stands for.                                         *)
DealOf(j) ==
    IF j \notin Jobs \/ ~Charged(j) THEN "open"
    ELSE IF jobs[j].status = "succeeded" THEN "delivered"
    ELSE IF Refunded(j) THEN "refunded"
    ELSE IF InHand(j) THEN "paid"
    ELSE "forfeited"

Contract == INSTANCE GenerationContract
                WITH Deals <- JobIds, deal <- [j \in JobIds |-> DealOf(j)]

(* The handlers, tasks and failures of this module implement the contract: *)
(* no job is charged twice, delivered and refunded, or settled twice.      *)
ImplementsContract == Contract!Spec

(* A charged job leaves the hands of the process: it is delivered,         *)
(* refunded or, after a kill, a failed commit or without a payer,          *)
(* forfeited.                                                              *)
JobsEnd == Contract!Ends
=============================================================================
