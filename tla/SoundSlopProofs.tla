-------------------------- MODULE SoundSlopProofs ---------------------------
(***************************************************************************)
(* What TLAPS proves of module SoundSlop for every value of its constants: *)
(* type correctness, the three invariants about charges, refunds and the   *)
(* end of jobs, that the ledger stays in step with its cache while jobs    *)
(* run, and that the handlers, tasks and failures implement                *)
(* GenerationContract.                                                     *)
(***************************************************************************)
EXTENDS SoundSlop, TokenLedgerProofs

-----------------------------------------------------------------------------
(* The inductive invariant.                                                *)

(* A charge is booked for a job, to its payer, at the price, and counts    *)
(* for the payer's account until that is deleted.                          *)
ChargeRows ==
    \A i \in DOMAIN txns :
        txns[i].reason = "generation" =>
            /\ txns[i].ref \in Jobs
            /\ txns[i].user = jobs[txns[i].ref].user
            /\ txns[i].delta = -CostPerGeneration
            /\ txns[i].ref \notin forsaken => i > epoch[txns[i].user]

(* A refund is booked for a job, after a charge that it matches.           *)
RefundRows ==
    \A i \in DOMAIN txns :
        txns[i].reason = "refund" =>
            /\ txns[i].ref \in Jobs
            /\ \E c \in 1..(i - 1) : /\ txns[c].reason = "generation"
                                     /\ txns[c].ref = txns[i].ref
                                     /\ txns[c].user = txns[i].user
                                     /\ txns[c].delta = -txns[i].delta

(* What a suspended handler can rely on: nothing else ran since it         *)
(* committed the job row or the failure.                                   *)
HandOK ==
    /\ loop.at = "charge" =>
          /\ loop.job \in Jobs
          /\ jobs[loop.job].user \in users
          /\ jobs[loop.job].status = "queued"
          /\ tasks[loop.job] = "none"
          /\ ~Charged(loop.job)
    /\ loop.at = "refund" =>
          /\ loop.job \in Jobs
          /\ jobs[loop.job].status = "failed"

(* The account that ordered a job exists until it is deleted.              *)
PayersExist == \A j \in Jobs \ forsaken : jobs[j].user \in users

(* Tasks and tracks are those of jobs.                                     *)
OnlyJobs ==
    /\ \A j \in JobIds : tasks[j] # "none" => j \in Jobs
    /\ \A t \in tracks : t \in Jobs /\ jobs[t].status = "succeeded"

(* How the status of a job, its rows in the ledger, and who holds it go    *)
(* together.                                                               *)
JobOK(j) ==
    /\ tasks[j] = "scheduled" => jobs[j].status = "queued" /\ Charged(j)
    /\ tasks[j] = "generating" => jobs[j].status = "running" /\ Charged(j)
    /\ jobs[j].status \in {"queued", "running"} => InHand(j) \/ j \in lost
    /\ jobs[j].status = "succeeded" => Charged(j) /\ ~InHand(j)
    /\ jobs[j].status = "deleted" => ~Charged(j) /\ ~InHand(j)
    /\ jobs[j].status = "failed" =>
          /\ Charged(j) /\ tasks[j] = "none"
          /\ InHand(j) \/ j \in lost \/ Refunded(j) \/ ~PayerRemains(j)
    /\ Refunded(j) => jobs[j].status = "failed" /\ ~InHand(j)

JobsOK == \A j \in Jobs : JobOK(j)

SlopInv ==
    /\ LedgerCore
    /\ SlopTypeOK
    /\ ChargeRows /\ RefundRows /\ PayersExist
    /\ HandOK /\ OnlyJobs /\ JobsOK

-----------------------------------------------------------------------------
(* Jobs and rows.                                                          *)

(* The types that the steps need.                                          *)
LEMMA SlopTypes ==
    ASSUME SlopTypeOK
    PROVE  /\ LedgerTypeOK /\ RedeemInHand
           /\ txns \in Seq(Txn) /\ Len(txns) \in Nat /\ now \in Nat
           /\ balance \in [UserIds -> Nat] /\ users \subseteq UserIds
           /\ epoch \in [UserIds -> Nat]
           /\ jobs \in Seq(Job) /\ Len(jobs) \in Nat /\ MaxJobs \in Nat
           /\ Jobs = 1..Len(jobs) /\ Jobs \subseteq JobIds
           /\ \A j \in Jobs : /\ jobs[j].user \in UserIds
                              /\ jobs[j].status \in {"queued", "running", "succeeded",
                                                     "failed", "deleted"}
           /\ tasks \in [JobIds -> {"none", "scheduled", "generating"}]
           /\ CostPerGeneration \in Nat
<1>1. \A x \in Job : /\ x.user \in UserIds
                     /\ x.status \in {"queued", "running", "succeeded",
                                      "failed", "deleted"}
  BY DEF Job
<1>2. jobs \in Seq(Job) /\ Len(jobs) \in Nat /\ Jobs = 1..Len(jobs) /\ Len(jobs) <= MaxJobs
  BY DEF SlopTypeOK, Jobs
<1>3. \A j \in Jobs : jobs[j] \in Job
  BY <1>2
<1>4. Jobs \subseteq JobIds
  BY <1>2, SlopAssumption DEF JobIds
<1>5. RedeemInHand
  BY DEF SlopTypeOK, RedeemInHand, SlopContinuation, Idle
<1> QED
  BY <1>1, <1>2, <1>3, <1>4, <1>5, SlopAssumption
     DEF SlopTypeOK, LedgerTypeOK, AccountsTypeOK

(* Setting the status of a job changes nothing else.                       *)
LEMMA SetStatusKeeps ==
    ASSUME SlopTypeOK, NEW j \in Jobs,
           NEW status \in {"queued", "running", "succeeded", "failed", "deleted"},
           SetStatus(j, status)
    PROVE  /\ jobs' \in Seq(Job) /\ Len(jobs') = Len(jobs) /\ Jobs' = Jobs
           /\ jobs'[j].status = status
           /\ \A k \in Jobs : jobs'[k].user = jobs[k].user
           /\ \A k \in Jobs \ {j} : jobs'[k].status = jobs[k].status
<1>1. /\ jobs \in Seq(Job) /\ Len(jobs) \in Nat /\ Jobs = 1..Len(jobs)
      /\ Jobs' = DOMAIN jobs'
  BY SlopTypes DEF Jobs
<1>2. jobs[j] \in Job
  BY <1>1
<1> DEFINE row == [jobs[j] EXCEPT !.status = status]
<1>3. row \in Job /\ row.user = jobs[j].user /\ row.status = status
  BY <1>2 DEF Job
<1>4. jobs' = [jobs EXCEPT ![j] = row]
  BY DEF SetStatus
<1> HIDE DEF row
<1>5. jobs' \in Seq(Job) /\ Len(jobs') = Len(jobs) /\ DOMAIN jobs' = 1..Len(jobs)
  BY <1>1, <1>3, <1>4
<1> QED
  BY <1>1, <1>3, <1>4, <1>5

(* What an appended row adds to what is recorded.                          *)
LEMMA RecordedAfter ==
    ASSUME LedgerTypeOK, NEW row \in Txn, txns' = Append(txns, row),
           NEW reason, NEW ref
    PROVE  Recorded(reason, ref)' <=>
              Recorded(reason, ref) \/ (row.reason = reason /\ row.ref = ref)
<1>1. /\ Len(txns) \in Nat /\ DOMAIN txns = 1..Len(txns)
      /\ DOMAIN txns' = 1..(Len(txns) + 1) /\ txns'[Len(txns) + 1] = row
      /\ \A i \in 1..Len(txns) : txns'[i] = txns[i]
  BY AppendedRows DEF LedgerTypeOK
<1> QED
  BY <1>1 DEF Recorded

(* A step forsakes the jobs whose payers it removes, and gives no other    *)
(* payer a new row.                                                        *)
PayersKept ==
    /\ forsaken \subseteq forsaken' /\ forsaken' \subseteq JobIds
    /\ \A j \in Jobs \ forsaken' : /\ jobs[j].user \in users'
                                   /\ epoch'[jobs[j].user] = epoch[jobs[j].user]

(* A step that leaves accounts alone does.                                 *)
LEMMA PayersStay ==
    ASSUME SlopInv, UNCHANGED <<users, epoch, forsaken>>
    PROVE  PayersKept
  BY DEF SlopInv, SlopTypeOK, PayersExist, PayersKept

(* The rows of jobs, as long as no row is booked for one.                  *)
LEMMA JobRowsKept ==
    ASSUME SlopTypeOK, ChargeRows, RefundRows, PayersKept,
           Jobs \subseteq Jobs', \A j \in Jobs : jobs'[j].user = jobs[j].user,
           \/ txns' = txns
           \/ \E row \in Txn : /\ row.reason \notin {"generation", "refund"}
                               /\ txns' = Append(txns, row)
    PROVE  /\ ChargeRows' /\ RefundRows'
           /\ \A j : (Charged(j)' <=> Charged(j)) /\ (Refunded(j)' <=> Refunded(j))
<1>1. CASE txns' = txns
  BY <1>1 DEF ChargeRows, RefundRows, PayersKept, Charged, Refunded, Recorded
<1>2. ASSUME NEW row \in Txn, row.reason \notin {"generation", "refund"},
             txns' = Append(txns, row)
      PROVE  /\ ChargeRows' /\ RefundRows'
             /\ \A j : (Charged(j)' <=> Charged(j)) /\ (Refunded(j)' <=> Refunded(j))
  <2>1. LedgerTypeOK
    BY SlopTypes
  <2>2. /\ Len(txns) \in Nat /\ DOMAIN txns = 1..Len(txns)
        /\ DOMAIN txns' = 1..(Len(txns) + 1) /\ txns'[Len(txns) + 1] = row
        /\ \A i \in 1..Len(txns) : txns'[i] = txns[i]
    BY <1>2, <2>1, AppendedRows DEF LedgerTypeOK
  <2>3. \A j : (Charged(j)' <=> Charged(j)) /\ (Refunded(j)' <=> Refunded(j))
    BY <1>2, <2>1, RecordedAfter DEF Charged, Refunded
  <2>6. ASSUME NEW i \in DOMAIN txns', txns'[i].reason \in {"generation", "refund"}
        PROVE  i \in 1..Len(txns) /\ txns'[i] = txns[i]
    <3>1. CASE i = Len(txns) + 1
      <4>1. txns'[i].reason = row.reason
        BY <2>2, <3>1
      <4> QED
        BY <1>2, <2>6, <4>1
    <3>2. CASE i # Len(txns) + 1
      BY <2>2, <3>2
    <3> QED
      BY <3>1, <3>2
  <2>4. ChargeRows'
    <3>1. SUFFICES ASSUME NEW i \in DOMAIN txns', txns'[i].reason = "generation"
                   PROVE  /\ txns'[i].ref \in Jobs'
                          /\ txns'[i].user = jobs'[txns'[i].ref].user
                          /\ txns'[i].delta = -CostPerGeneration
                          /\ txns'[i].ref \notin forsaken' => i > epoch'[txns'[i].user]
      BY DEF ChargeRows
    <3>2. i \in 1..Len(txns) /\ txns'[i] = txns[i]
      BY <2>6, <3>1
    <3> QED
      BY <2>2, <3>1, <3>2 DEF ChargeRows, PayersKept
  <2>5. RefundRows'
    <3>1. SUFFICES ASSUME NEW i \in DOMAIN txns', txns'[i].reason = "refund"
                   PROVE  /\ txns'[i].ref \in Jobs'
                          /\ \E c \in 1..(i - 1) :
                                /\ txns'[c].reason = "generation"
                                /\ txns'[c].ref = txns'[i].ref
                                /\ txns'[c].user = txns'[i].user
                                /\ txns'[c].delta = -txns'[i].delta
      BY DEF RefundRows
    <3>2. i \in 1..Len(txns) /\ txns'[i] = txns[i]
      BY <2>6, <3>1
    <3>3. \A c \in 1..(i - 1) : txns'[c] = txns[c]
      BY <2>2, <3>2
    <3> QED
      BY <2>2, <3>1, <3>2, <3>3 DEF RefundRows
  <2> QED
    BY <2>3, <2>4, <2>5
<1> QED
  BY <1>1, <1>2

-----------------------------------------------------------------------------
(* Jobs that a step does not concern.                                      *)

JobUntouched(j) ==
    /\ jobs'[j].status = jobs[j].status
    /\ tasks'[j] = tasks[j]
    /\ Charged(j)' <=> Charged(j)
    /\ Refunded(j)' <=> Refunded(j)
    /\ InHand(j)' <=> InHand(j)
    /\ j \in lost => j \in lost'
    /\ PayerRemains(j)' => PayerRemains(j)

(* Such a job stays in order.                                              *)
LEMMA UntouchedOK == ASSUME NEW j, JobOK(j), JobUntouched(j) PROVE JobOK(j)'
  BY DEF JobOK, JobUntouched

(* A payer does not come back: the new row of a freed id has an epoch      *)
(* after all charges.                                                      *)
LEMMA PayerGone ==
    ASSUME SlopInv, NEW j \in Jobs, jobs'[j].user = jobs[j].user,
           \/ /\ \A u \in users' : u \in users /\ epoch'[u] = epoch[u]
              /\ \/ txns' = txns
                 \/ \E row \in Txn : /\ ~(row.reason = "generation" /\ row.ref = j)
                                     /\ txns' = Append(txns, row)
           \/ \E u \in UserIds : Register(u)
    PROVE  PayerRemains(j)' => PayerRemains(j)
<1>0. /\ LedgerTypeOK /\ txns \in Seq(Txn) /\ Len(txns) \in Nat /\ DOMAIN txns = 1..Len(txns)
      /\ epoch \in [UserIds -> Nat] /\ users \subseteq UserIds
      /\ jobs[j].user \in UserIds
  BY SlopTypes DEF SlopInv
<1>1. CASE /\ \A u \in users' : u \in users /\ epoch'[u] = epoch[u]
           /\ txns' = txns
  BY <1>1 DEF PayerRemains
<1>2. ASSUME NEW row \in Txn, ~(row.reason = "generation" /\ row.ref = j),
             txns' = Append(txns, row),
             \A u \in users' : u \in users /\ epoch'[u] = epoch[u],
             PayerRemains(j)'
      PROVE  PayerRemains(j)
  <2>1. /\ DOMAIN txns' = 1..(Len(txns) + 1) /\ txns'[Len(txns) + 1] = row
        /\ \A i \in 1..Len(txns) : txns'[i] = txns[i]
    BY <1>0, <1>2, AppendedRows
  <2>2. PICK i \in DOMAIN txns' : /\ i > epoch'[jobs[j].user]
                                  /\ txns'[i].reason = "generation"
                                  /\ txns'[i].ref = j
    BY <1>2 DEF PayerRemains
  <2>3. i # Len(txns) + 1
    BY <1>2, <2>1, <2>2
  <2>4. i \in DOMAIN txns /\ txns'[i] = txns[i]
    BY <1>0, <2>1, <2>3
  <2>5. jobs[j].user \in users /\ epoch'[jobs[j].user] = epoch[jobs[j].user]
    BY <1>2 DEF PayerRemains
  <2> QED
    BY <2>2, <2>4, <2>5 DEF PayerRemains
<1>3. ASSUME NEW u \in UserIds, Register(u), PayerRemains(j)'
      PROVE  PayerRemains(j)
  <2>1. /\ txns' = txns /\ users' = users \cup {u}
        /\ epoch' = [epoch EXCEPT ![u] = Len(txns)]
    BY <1>3 DEF Register, InsertUser
  <2>2. jobs[j].user \in users'
    BY <1>3 DEF PayerRemains
  <2>3. PICK i \in DOMAIN txns : /\ i > epoch'[jobs[j].user]
                                 /\ txns[i].reason = "generation"
                                 /\ txns[i].ref = j
    BY <1>3, <2>1 DEF PayerRemains
  <2>4. jobs[j].user # u
    BY <1>0, <2>1, <2>3
  <2> QED
    BY <1>0, <2>1, <2>2, <2>3, <2>4 DEF PayerRemains
<1> QED
  BY <1>1, <1>2, <1>3

-----------------------------------------------------------------------------
(* The steps of the ledger and of the accounts, seen from the jobs.        *)

OutsideStep ==
    \/ \E u \in UserIds : Register(u) \/ DeleteMe(u) \/ TokenRequest(u)
    \/ RedeemGrant
    \/ TimePasses

(* They run while no handler of a job is suspended, or only move the clock.*)
LEMMA OutsideHand ==
    ASSUME SlopInv, OutsideStep
    PROVE  /\ loop' = loop \/ (loop.at \notin {"charge", "refund"}
                               /\ loop'.at \notin {"charge", "refund"})
           /\ loop' \in {Idle} \cup RedeemContinuation \cup SlopContinuation
           /\ HandledJob' = HandledJob
           /\ loop'.at \in {"charge", "refund"} => users' = users
<1>1. LedgerTypeOK /\ RedeemInHand /\ TokenNext
  BY SlopTypes DEF SlopInv, OutsideStep, TokenNext
<1>2. loop' = loop \/ loop' \in {Idle} \cup RedeemContinuation
  BY <1>1, LedgerStepType
<1>3. loop' = loop \/ loop = Idle \/ loop.at = "redeem"
  BY DEF OutsideStep, Register, InsertUser, DeleteMe, RemoveUser, TokenRequest,
         ReadOnlyRequest, Request, AdRewardReplayed, AdRewardRefused,
         AdRewardGranted, RedeemRefused, RedeemCharge, RedeemGrant, Resume,
         TimePasses, Tick, hostVars
<1>4. loop' = loop \/ (loop.at \notin {"charge", "refund"}
                       /\ loop'.at \notin {"charge", "refund"})
  BY <1>2, <1>3 DEF RedeemContinuation, Idle
<1>5. loop' \in {Idle} \cup RedeemContinuation \cup SlopContinuation
  BY <1>2 DEF SlopInv, SlopTypeOK
<1>6. loop'.at \in {"charge", "refund"} => users' = users
  <2>1. users' = users \/ loop' = Idle
    BY DEF OutsideStep, Register, InsertUser, DeleteMe, RemoveUser, TokenRequest,
           ReadOnlyRequest, Request, SettlePremium, AdRewardReplayed,
           AdRewardRefused, AdRewardGranted, RedeemRefused, RedeemCharge,
           RedeemGrant, TimePasses, accountVars, hostVars
  <2> QED
    BY <2>1 DEF Idle
<1> QED
  BY <1>4, <1>5, <1>6 DEF HandledJob

(* They touch no job.                                                      *)
LEMMA OutsideJobs ==
    ASSUME SlopInv, OutsideStep, UNCHANGED <<jobs, tasks, lost>>,
           tracks' \subseteq tracks, PayersKept
    PROVE  SlopInv' /\ \A j \in Jobs : JobUntouched(j)
<1>1. /\ LedgerTypeOK /\ RedeemInHand /\ TokenNext /\ LedgerCore /\ SlopTypeOK
      /\ Jobs' = Jobs
  BY SlopTypes DEF SlopInv, OutsideStep, TokenNext, Jobs
<1>2. LedgerCore'
  BY <1>1, LedgerStepCore
<1>3. SlopTypeOK' /\ PayersExist'
  BY <1>1, <1>2, OutsideHand DEF SlopInv, SlopTypeOK, LedgerCore, PayersKept, PayersExist
<1>4. \/ txns' = txns
      \/ \E row \in Txn : row.reason \in OwnReasons /\ txns' = Append(txns, row)
  BY <1>1, OwnRows
<1>5. /\ ChargeRows' /\ RefundRows'
      /\ \A j : (Charged(j)' <=> Charged(j)) /\ (Refunded(j)' <=> Refunded(j))
  <2>1. \/ txns' = txns
        \/ \E row \in Txn : /\ row.reason \notin {"generation", "refund"}
                            /\ txns' = Append(txns, row)
    BY <1>4 DEF OwnReasons
  <2> QED
    BY <1>1, <2>1, JobRowsKept DEF SlopInv
<1>6. ASSUME NEW j \in Jobs PROVE JobUntouched(j)
  <2>1. PayerRemains(j)' => PayerRemains(j)
    <3>1. \/ \A u \in users' : u \in users /\ epoch'[u] = epoch[u]
          \/ \E u \in UserIds : Register(u)
      <4>1. ASSUME NEW u \in UserIds, DeleteMe(u)
            PROVE  \A v \in users' : v \in users /\ epoch'[v] = epoch[v]
        BY <1>1, <4>1, SlopTypes DEF DeleteMe, RemoveUser, SlopInv
      <4>2. ASSUME NEW u \in UserIds, TokenRequest(u)
            PROVE  users' = users /\ epoch' = epoch
        BY <4>2 DEF TokenRequest, ReadOnlyRequest, Request, SettlePremium,
                    AdRewardReplayed, AdRewardRefused, AdRewardGranted,
                    RedeemRefused, RedeemCharge
      <4>3. ASSUME RedeemGrant \/ TimePasses PROVE users' = users /\ epoch' = epoch
        BY <4>3 DEF RedeemGrant, TimePasses, accountVars
      <4> QED
        BY <4>1, <4>2, <4>3 DEF OutsideStep
    <3>2. \/ txns' = txns
          \/ \E row \in Txn : /\ ~(row.reason = "generation" /\ row.ref = j)
                              /\ txns' = Append(txns, row)
      BY <1>4 DEF OwnReasons
    <3> QED
      BY <3>1, <3>2, PayerGone
  <2>2. InHand(j)' <=> InHand(j)
    BY OutsideHand DEF InHand
  <2> QED
    BY <1>5, <2>1, <2>2 DEF JobUntouched
<1>7. JobsOK'
  BY <1>1, <1>6, UntouchedOK DEF SlopInv, JobsOK
<1>8. HandOK'
  BY <1>1, <1>5, OutsideHand DEF SlopInv, HandOK
<1>9. OnlyJobs'
  BY <1>1 DEF SlopInv, OnlyJobs
<1> QED
  BY <1>2, <1>3, <1>5, <1>6, <1>7, <1>8, <1>9 DEF SlopInv

-----------------------------------------------------------------------------
(* The steps of jobs.  Each lemma says that the invariant is kept, and     *)
(* which deal of GenerationContract the step moves.                        *)

(* The deal of a job that a step does not concern stays what it is.        *)
LEMMA UntouchedDeal ==
    ASSUME NEW j, j \in Jobs' <=> j \in Jobs, JobUntouched(j)
    PROVE  DealOf(j)' = DealOf(j)
  BY DEF DealOf, JobUntouched

(* A step that writes the status of job j and books nothing.               *)
LEMMA StatusStep ==
    ASSUME SlopInv, NEW j \in Jobs,
           NEW status \in {"queued", "running", "succeeded", "failed", "deleted"},
           SetStatus(j, status),
           UNCHANGED <<accountVars, now, setbacks, ledgerVars, epoch, lost, forsaken>>,
           \A k \in JobIds \ {j} : tasks'[k] = tasks[k],
           HandledJob' \ {j} = HandledJob \ {j}
    PROVE  /\ LedgerCore' /\ Jobs' = Jobs /\ jobs' \in Seq(Job)
           /\ Len(jobs') = Len(jobs) /\ jobs'[j].status = status
           /\ \A k \in Jobs : jobs'[k].user = jobs[k].user
           /\ \A k \in Jobs \ {j} : jobs'[k].status = jobs[k].status
           /\ ChargeRows' /\ RefundRows' /\ PayersExist'
           /\ \A k \in Jobs \ {j} : JobUntouched(k)
           /\ \A k : (Charged(k)' <=> Charged(k)) /\ (Refunded(k)' <=> Refunded(k))
           /\ PayerRemains(j)' => PayerRemains(j)
<1>1. /\ SlopTypeOK /\ Jobs \subseteq JobIds /\ LedgerCore
      /\ UNCHANGED <<users, txns, balance, epoch>>
  BY SlopTypes DEF SlopInv, accountVars, ledgerVars
<1>2. LedgerCore'
  <2>1. LedgerTypeOK'
    BY <1>1 DEF LedgerCore, LedgerTypeOK, AccountsTypeOK, accountVars
  <2> QED
    BY <1>1, <2>1, LedgerUntouched DEF LedgerCore
<1>3. /\ jobs' \in Seq(Job) /\ Len(jobs') = Len(jobs) /\ Jobs' = Jobs
      /\ jobs'[j].status = status
      /\ \A k \in Jobs : jobs'[k].user = jobs[k].user
      /\ \A k \in Jobs \ {j} : jobs'[k].status = jobs[k].status
  BY <1>1, SetStatusKeeps
<1>4. /\ ChargeRows' /\ RefundRows' /\ PayersExist'
      /\ \A k : (Charged(k)' <=> Charged(k)) /\ (Refunded(k)' <=> Refunded(k))
  BY <1>1, <1>3, JobRowsKept, PayersStay DEF SlopInv, PayersExist
<1>5. ASSUME NEW k \in Jobs PROVE PayerRemains(k)' => PayerRemains(k)
  BY <1>1, <1>3, PayerGone
<1>6. ASSUME NEW k \in Jobs \ {j} PROVE JobUntouched(k)
  <2>1. tasks'[k] = tasks[k] /\ (k \in HandledJob' <=> k \in HandledJob)
    BY <1>1
  <2> QED
    BY <1>3, <1>4, <1>5, <2>1 DEF JobUntouched, InHand
<1> QED
  BY <1>2, <1>3, <1>4, <1>5, <1>6

(* Where a status step leads: the rest of the invariant, when job j is in  *)
(* order again and no handler but one of j is suspended.                   *)
LEMMA StatusStepKeeps ==
    ASSUME SlopInv, NEW j \in Jobs, LedgerCore', Jobs' = Jobs, jobs' \in Seq(Job),
           Len(jobs') = Len(jobs), ChargeRows', RefundRows', PayersExist',
           lost' = lost, forsaken' = forsaken,
           loop' \in {Idle} \cup SlopContinuation, HandOK',
           tasks' \in [JobIds -> {"none", "scheduled", "generating"}],
           \A k \in JobIds \ {j} : tasks'[k] = tasks[k],
           tracks' \subseteq JobIds,
           \A k \in Jobs \ {j} : JobUntouched(k),
           \A t \in tracks' : t \in Jobs /\ jobs'[t].status = "succeeded",
           JobOK(j)'
    PROVE  SlopInv'
<1>1. SlopTypeOK'
  BY DEF SlopInv, SlopTypeOK, LedgerCore
<1>2. OnlyJobs'
  BY SlopTypes DEF SlopInv, OnlyJobs
<1>3. JobsOK'
  BY UntouchedOK DEF SlopInv, JobsOK
<1> QED
  BY <1>1, <1>2, <1>3 DEF SlopInv

(* Uncharge withdraws a job that was never paid.                           *)
LEMMA UnchargeKeeps ==
    ASSUME SlopInv, Uncharge
    PROVE  /\ SlopInv' /\ Jobs' = Jobs
           /\ \A k \in Jobs : DealOf(k)' = DealOf(k)
<1>1. PICK j \in Jobs : j = loop.job
  BY DEF SlopInv, HandOK, Uncharge, Resume
<1>2. /\ loop.at = "charge" /\ jobs[j].status = "queued"
      /\ tasks[j] = "none" /\ ~Charged(j)
  BY <1>1 DEF SlopInv, HandOK, Uncharge, Resume
<1>3. /\ SetStatus(j, "deleted") /\ loop' = Idle /\ HandledJob = {j} /\ HandledJob' = {}
      /\ UNCHANGED <<accountVars, now, setbacks, ledgerVars, epoch, tracks, tasks, lost, forsaken>>
  BY <1>1, <1>2 DEF Uncharge, Release, HandledJob, Idle
<1>4. /\ LedgerCore' /\ Jobs' = Jobs /\ jobs' \in Seq(Job)
      /\ Len(jobs') = Len(jobs) /\ jobs'[j].status = "deleted"
      /\ \A k \in Jobs \ {j} : jobs'[k].status = jobs[k].status
      /\ ChargeRows' /\ RefundRows' /\ PayersExist'
      /\ \A k \in Jobs \ {j} : JobUntouched(k)
      /\ \A k : (Charged(k)' <=> Charged(k)) /\ (Refunded(k)' <=> Refunded(k))
  BY <1>3, StatusStep
<1>5. JobOK(j)'
  BY <1>2, <1>3, <1>4 DEF SlopInv, JobsOK, JobOK, InHand
<1>6. SlopInv'
  <2>1. HandOK'
    BY <1>3 DEF HandOK, Idle
  <2>2. /\ tasks' \in [JobIds -> {"none", "scheduled", "generating"}]
        /\ tracks' \subseteq JobIds
        /\ \A t \in tracks' : t \in Jobs /\ jobs'[t].status = "succeeded"
    BY <1>2, <1>3, <1>4 DEF SlopInv, SlopTypeOK, OnlyJobs
  <2> QED
    BY <1>2, <1>3, <1>4, <1>5, <2>1, <2>2, StatusStepKeeps
<1>7. ASSUME NEW k \in Jobs PROVE DealOf(k)' = DealOf(k)
  <2>1. CASE k = j
    BY <1>2, <1>4, <2>1 DEF DealOf
  <2>2. CASE k # j
    BY <1>4, <2>2, UntouchedDeal
  <2> QED
    BY <2>1, <2>2
<1> QED
  BY <1>4, <1>6, <1>7

(* A task that starts keeps the deal paid.                                 *)
LEMMA StartJobKeeps ==
    ASSUME SlopInv, NEW j \in Jobs, StartJob(j)
    PROVE  /\ SlopInv' /\ Jobs' = Jobs
           /\ \A k \in Jobs : DealOf(k)' = DealOf(k)
<1>1. /\ tasks[j] = "scheduled" /\ loop = Idle /\ loop' = Idle
      /\ HandledJob = {} /\ HandledJob' = {} /\ j \in JobIds
      /\ SetStatus(j, "running") /\ tasks' = [tasks EXCEPT ![j] = "generating"]
      /\ UNCHANGED <<accountVars, now, setbacks, ledgerVars, epoch, tracks, lost, forsaken>>
  BY SlopTypes DEF SlopInv, StartJob, hostVars, HandledJob, Idle
<1>2. tasks'[j] = "generating" /\ \A k \in JobIds \ {j} : tasks'[k] = tasks[k]
  BY <1>1, SlopTypes DEF SlopInv
<1>3. /\ LedgerCore' /\ Jobs' = Jobs /\ jobs' \in Seq(Job)
      /\ Len(jobs') = Len(jobs) /\ jobs'[j].status = "running"
      /\ \A k \in Jobs \ {j} : jobs'[k].status = jobs[k].status
      /\ ChargeRows' /\ RefundRows' /\ PayersExist'
      /\ \A k \in Jobs \ {j} : JobUntouched(k)
      /\ \A k : (Charged(k)' <=> Charged(k)) /\ (Refunded(k)' <=> Refunded(k))
  BY <1>1, <1>2, StatusStep
<1>4. JobOK(j) /\ Charged(j) /\ jobs[j].status = "queued" /\ ~Refunded(j)
  BY <1>1 DEF SlopInv, JobsOK, JobOK
<1>5. JobOK(j)' /\ InHand(j)'
  BY <1>1, <1>2, <1>3, <1>4 DEF JobOK, InHand
<1>6. SlopInv'
  <2>1. HandOK'
    BY <1>1 DEF HandOK, Idle
  <2>2. /\ tasks' \in [JobIds -> {"none", "scheduled", "generating"}]
        /\ tracks' \subseteq JobIds
        /\ \A t \in tracks' : t \in Jobs /\ jobs'[t].status = "succeeded"
    BY <1>1, <1>3, <1>4 DEF SlopInv, SlopTypeOK, OnlyJobs
  <2> QED
    BY <1>1, <1>2, <1>3, <1>5, <2>1, <2>2, StatusStepKeeps
<1>7. ASSUME NEW k \in Jobs PROVE DealOf(k)' = DealOf(k)
  <2>1. CASE k = j
    BY <1>1, <1>3, <1>4, <1>5, <2>1 DEF DealOf, InHand
  <2>2. CASE k # j
    BY <1>3, <2>2, UntouchedDeal
  <2> QED
    BY <2>1, <2>2
<1> QED
  BY <1>3, <1>6, <1>7

(* A failure hands the paid job to the refund.                             *)
LEMMA FailKeeps ==
    ASSUME SlopInv, NEW j \in Jobs, StartWithoutSource(j) \/ GenerationFails(j)
    PROVE  /\ SlopInv' /\ Jobs' = Jobs
           /\ \A k \in Jobs : DealOf(k)' = DealOf(k)
<1>1. /\ tasks[j] # "none" /\ loop = Idle /\ loop' = [at |-> "refund", job |-> j]
      /\ HandledJob = {} /\ HandledJob' = {j} /\ j \in JobIds
      /\ SetStatus(j, "failed") /\ tasks' = [tasks EXCEPT ![j] = "none"]
      /\ UNCHANGED <<accountVars, now, setbacks, ledgerVars, epoch, tracks, lost, forsaken>>
  BY SlopTypes
     DEF SlopInv, StartWithoutSource, GenerationFails, Fail, EndTask, Suspend,
         HandledJob, Idle
<1>2. tasks'[j] = "none" /\ \A k \in JobIds \ {j} : tasks'[k] = tasks[k]
  BY <1>1, SlopTypes DEF SlopInv
<1>3. /\ LedgerCore' /\ Jobs' = Jobs /\ jobs' \in Seq(Job)
      /\ Len(jobs') = Len(jobs) /\ jobs'[j].status = "failed"
      /\ \A k \in Jobs \ {j} : jobs'[k].status = jobs[k].status
      /\ ChargeRows' /\ RefundRows' /\ PayersExist'
      /\ \A k \in Jobs \ {j} : JobUntouched(k)
      /\ \A k : (Charged(k)' <=> Charged(k)) /\ (Refunded(k)' <=> Refunded(k))
  BY <1>1, <1>2, StatusStep
<1>4. /\ JobOK(j) /\ Charged(j) /\ jobs[j].status \in {"queued", "running"}
      /\ ~Refunded(j)
  BY <1>1, SlopTypes DEF SlopInv, JobsOK, JobOK
<1>5. JobOK(j)' /\ InHand(j)' /\ InHand(j)
  BY <1>1, <1>2, <1>3, <1>4 DEF JobOK, InHand
<1>6. SlopInv'
  <2>1. HandOK'
    BY <1>1, <1>3 DEF HandOK
  <2>2. /\ tasks' \in [JobIds -> {"none", "scheduled", "generating"}]
        /\ tracks' \subseteq JobIds /\ loop' \in SlopContinuation
        /\ \A t \in tracks' : t \in Jobs /\ jobs'[t].status = "succeeded"
    BY <1>1, <1>3, <1>4 DEF SlopInv, SlopTypeOK, OnlyJobs, SlopContinuation
  <2> QED
    BY <1>1, <1>2, <1>3, <1>5, <2>1, <2>2, StatusStepKeeps
<1>7. ASSUME NEW k \in Jobs PROVE DealOf(k)' = DealOf(k)
  <2>1. CASE k = j
    BY <1>3, <1>4, <1>5, <2>1 DEF DealOf
  <2>2. CASE k # j
    BY <1>3, <2>2, UntouchedDeal
  <2> QED
    BY <2>1, <2>2
<1> QED
  BY <1>3, <1>6, <1>7

(* A track delivers the deal.                                              *)
LEMMA SucceedsKeeps ==
    ASSUME SlopInv, NEW j \in Jobs, GenerationSucceeds(j)
    PROVE  /\ SlopInv' /\ Jobs' = Jobs
           /\ \A k \in Jobs \ {j} : DealOf(k)' = DealOf(k)
           /\ DealOf(j) = "paid" /\ DealOf(j)' = "delivered"
<1>1. /\ tasks[j] = "generating" /\ loop = Idle /\ loop' = Idle
      /\ HandledJob = {} /\ HandledJob' = {} /\ j \in JobIds
      /\ SetStatus(j, "succeeded") /\ tasks' = [tasks EXCEPT ![j] = "none"]
      /\ tracks' = tracks \cup {j}
      /\ UNCHANGED <<accountVars, now, setbacks, ledgerVars, epoch, lost, forsaken>>
  BY SlopTypes DEF SlopInv, GenerationSucceeds, EndTask, hostVars, HandledJob, Idle
<1>2. tasks'[j] = "none" /\ \A k \in JobIds \ {j} : tasks'[k] = tasks[k]
  BY <1>1, SlopTypes DEF SlopInv
<1>3. /\ LedgerCore' /\ Jobs' = Jobs /\ jobs' \in Seq(Job)
      /\ Len(jobs') = Len(jobs) /\ jobs'[j].status = "succeeded"
      /\ \A k \in Jobs \ {j} : jobs'[k].status = jobs[k].status
      /\ ChargeRows' /\ RefundRows' /\ PayersExist'
      /\ \A k \in Jobs \ {j} : JobUntouched(k)
      /\ \A k : (Charged(k)' <=> Charged(k)) /\ (Refunded(k)' <=> Refunded(k))
  BY <1>1, <1>2, StatusStep
<1>4. JobOK(j) /\ Charged(j) /\ jobs[j].status = "running" /\ ~Refunded(j) /\ InHand(j)
  BY <1>1 DEF SlopInv, JobsOK, JobOK, InHand
<1>5. JobOK(j)'
  BY <1>1, <1>2, <1>3, <1>4 DEF JobOK, InHand
<1>6. SlopInv'
  <2>1. HandOK'
    BY <1>1 DEF HandOK, Idle
  <2>2. /\ tasks' \in [JobIds -> {"none", "scheduled", "generating"}]
        /\ tracks' \subseteq JobIds
        /\ \A t \in tracks' : t \in Jobs /\ jobs'[t].status = "succeeded"
    BY <1>1, <1>3, <1>4 DEF SlopInv, SlopTypeOK, OnlyJobs
  <2> QED
    BY <1>1, <1>2, <1>3, <1>5, <2>1, <2>2, StatusStepKeeps
<1>7. \A k \in Jobs \ {j} : DealOf(k)' = DealOf(k)
  BY <1>3, UntouchedDeal
<1>8. DealOf(j) = "paid" /\ DealOf(j)' = "delivered"
  BY <1>3, <1>4 DEF DealOf
<1> QED
  BY <1>3, <1>6, <1>7, <1>8

(* A new job is an open deal.                                              *)
LEMMA GenerateKeeps ==
    ASSUME SlopInv, NEW u \in UserIds, NEW source \in Jobs \cup {NoSource},
           Generate(u, source)
    PROVE  /\ SlopInv'
           /\ \A k \in JobIds : DealOf(k)' = DealOf(k)
<1>1. PICK n \in Nat : n = Len(jobs) + 1
  BY SlopTypes DEF SlopInv
<1>2. /\ loop = Idle /\ u \in users /\ users' = users
      /\ loop' = [at |-> "charge", job |-> n]
      /\ HandledJob = {} /\ HandledJob' = {n} /\ n \in JobIds /\ n \notin Jobs
      /\ UNCHANGED <<now, setbacks, txns, balance, epoch, tracks, tasks, lost, forsaken>>
  BY <1>1, SlopTypes
     DEF SlopInv, Generate, Request, SettlePremium, Suspend, HandledJob, Idle,
         ledgerVars, JobIds
<1>3. PICK row \in Job : /\ jobs' = Append(jobs, row)
                         /\ row.user = u /\ row.status = "queued"
  <2> DEFINE r == [user |-> u, source |-> source, status |-> "queued"]
  <2>1. r \in Job
    BY SlopTypes DEF Job, SlopInv
  <2>2. jobs' = Append(jobs, r) /\ r.user = u /\ r.status = "queued"
    BY DEF Generate
  <2> HIDE DEF r
  <2> QED
    BY <2>1, <2>2
<1>4. /\ jobs' \in Seq(Job) /\ Len(jobs') = n /\ Jobs' = Jobs \cup {n}
      /\ jobs'[n] = row /\ \A k \in Jobs : jobs'[k] = jobs[k]
  <2>1. jobs \in Seq(Job) /\ Len(jobs) \in Nat /\ Jobs = 1..Len(jobs)
    BY SlopTypes DEF SlopInv
  <2>2. jobs' \in Seq(Job) /\ Len(jobs') = n /\ DOMAIN jobs' = 1..n
    BY <1>1, <1>3, <2>1
  <2> QED
    BY <1>1, <1>3, <2>1, <2>2 DEF Jobs
<1>5. LedgerCore'
  <2>1. LedgerTypeOK'
    BY <1>2, RequestType
       DEF SlopInv, LedgerCore, LedgerTypeOK, AccountsTypeOK, Generate
  <2> QED
    BY <1>2, <2>1, LedgerUntouched DEF SlopInv, LedgerCore
<1>6. SlopTypeOK'
  <2>1. Len(jobs') <= MaxJobs
    BY <1>1, <1>4, SlopTypes DEF SlopInv, Generate
  <2>2. loop' \in SlopContinuation
    BY <1>2 DEF SlopContinuation
  <2> QED
    BY <1>2, <1>4, <1>5, <2>1, <2>2 DEF SlopInv, SlopTypeOK, LedgerCore
<1>7. /\ ChargeRows' /\ RefundRows' /\ PayersExist'
      /\ \A k : (Charged(k)' <=> Charged(k)) /\ (Refunded(k)' <=> Refunded(k))
  <2>1. PayersKept
    BY <1>2, PayersStay
  <2>2. \A k \in Jobs : jobs'[k].user = jobs[k].user
    BY <1>4
  <2>3. ChargeRows' /\ RefundRows'
        /\ \A k : (Charged(k)' <=> Charged(k)) /\ (Refunded(k)' <=> Refunded(k))
    BY <1>2, <1>4, <2>1, <2>2, JobRowsKept DEF SlopInv
  <2>4. PayersExist'
    BY <1>2, <1>3, <1>4 DEF SlopInv, PayersExist
  <2> QED
    BY <2>3, <2>4
<1>8. ~Charged(n) /\ ~Refunded(n)
  BY <1>2 DEF SlopInv, ChargeRows, RefundRows, Charged, Refunded, Recorded
<1>9. ASSUME NEW k \in Jobs PROVE JobUntouched(k)
  <2>1. PayerRemains(k)' => PayerRemains(k)
    BY <1>2, <1>4, PayerGone
  <2>2. InHand(k)' <=> InHand(k)
    BY <1>2 DEF InHand
  <2> QED
    BY <1>2, <1>4, <1>7, <2>1, <2>2 DEF JobUntouched
<1>10. tasks[n] = "none"
  BY <1>2 DEF SlopInv, OnlyJobs
<1>11. JobsOK'
  <2>1. JobOK(n)'
    BY <1>2, <1>3, <1>4, <1>7, <1>8, <1>10 DEF JobOK, InHand
  <2> QED
    BY <1>4, <1>9, <2>1, UntouchedOK DEF SlopInv, JobsOK
<1>12. HandOK'
  BY <1>2, <1>3, <1>4, <1>7, <1>8, <1>10 DEF HandOK
<1>13. OnlyJobs'
  BY <1>2, <1>4 DEF SlopInv, OnlyJobs
<1>14. ASSUME NEW k \in JobIds PROVE DealOf(k)' = DealOf(k)
  <2>1. CASE k \in Jobs
    BY <1>4, <1>9, <2>1, UntouchedDeal
  <2>2. CASE k \notin Jobs
    BY <1>2, <1>4, <1>7, <1>8, <2>2 DEF DealOf
  <2> QED
    BY <2>1, <2>2
<1> QED
  BY <1>5, <1>6, <1>7, <1>11, <1>12, <1>13, <1>14 DEF SlopInv

(* A kill or a failed commit takes jobs out of the hands of the process:   *)
(* those of their deals that were paid are forfeited.                      *)
LEMMA DropKeeps ==
    ASSUME SlopInv, NEW gone \in SUBSET JobIds, HandledJob \subseteq gone, Drop(gone),
           loop' = Idle, setbacks' \in Nat,
           UNCHANGED <<accountVars, now, ledgerVars, epoch>>
    PROVE  /\ SlopInv' /\ Jobs' = Jobs
           /\ \A k \in JobIds : DealOf(k)' = IF k \in gone /\ DealOf(k) = "paid"
                                             THEN "forfeited" ELSE DealOf(k)
<1>1. /\ UNCHANGED <<txns, balance, jobs, tracks, forsaken, users>> /\ HandledJob' = {}
      /\ tasks' = [j \in JobIds |-> IF j \in gone THEN "none" ELSE tasks[j]]
      /\ lost' = lost \cup gone
  BY DEF Drop, accountVars, ledgerVars, HandledJob, Idle
<1>2. Jobs' = Jobs /\ Jobs \subseteq JobIds
      /\ tasks \in [JobIds -> {"none", "scheduled", "generating"}]
  BY <1>1, SlopTypes DEF Jobs, SlopInv
<1>3. LedgerCore'
  <2>1. LedgerTypeOK'
    BY <1>1 DEF SlopInv, LedgerCore, LedgerTypeOK, AccountsTypeOK, accountVars
  <2> QED
    BY <1>1, <2>1, LedgerUntouched DEF SlopInv, LedgerCore
<1>4. SlopTypeOK' /\ PayersExist'
  BY <1>1, <1>2, <1>3 DEF SlopInv, SlopTypeOK, LedgerCore, PayersExist
<1>5. /\ ChargeRows' /\ RefundRows'
      /\ \A k : (Charged(k)' <=> Charged(k)) /\ (Refunded(k)' <=> Refunded(k))
  BY <1>1, <1>2, JobRowsKept, PayersStay DEF SlopInv
<1>6. ASSUME NEW k \in JobIds
      PROVE  /\ k \in gone => ~InHand(k)' /\ k \in lost'
             /\ k \notin gone => (InHand(k)' <=> InHand(k)) /\ tasks'[k] = tasks[k]
  BY <1>1 DEF InHand
<1>7. ASSUME NEW k \in Jobs PROVE JobOK(k)'
  <2>1. PayerRemains(k)' => PayerRemains(k)
    BY <1>1, PayerGone
  <2>2. JobOK(k) /\ k \in JobIds
    BY <1>2 DEF SlopInv, JobsOK
  <2>3. CASE k \in gone
    <3>1. tasks'[k] = "none"
      BY <1>1, <2>2, <2>3
    <3> QED
      BY <1>1, <1>5, <1>6, <2>1, <2>2, <2>3, <3>1 DEF JobOK
  <2>4. CASE k \notin gone
    BY <1>1, <1>5, <1>6, <2>1, <2>2, <2>4 DEF JobOK
  <2> QED
    BY <2>3, <2>4
<1>8. HandOK' /\ OnlyJobs'
  BY <1>1, <1>2 DEF SlopInv, HandOK, OnlyJobs, Idle
<1>9. ASSUME NEW k \in JobIds
      PROVE  DealOf(k)' = IF k \in gone /\ DealOf(k) = "paid" THEN "forfeited"
                          ELSE DealOf(k)
  BY <1>1, <1>2, <1>5, <1>6 DEF DealOf
<1> QED
  BY <1>2, <1>3, <1>4, <1>5, <1>7, <1>8, <1>9 DEF SlopInv, JobsOK

(* The rows of jobs and the jobs other than j, when a row is booked for j. *)
LEMMA BookedForJob ==
    ASSUME SlopInv, NEW j \in Jobs, NEW row \in Txn, txns' = Append(txns, row),
           row.ref = j, row.user = jobs[j].user,
           \/ row.reason = "generation" /\ row.delta = -CostPerGeneration
           \/ /\ row.reason = "refund" /\ row.delta = CostPerGeneration
              /\ Charged(j),
           UNCHANGED <<users, epoch, jobs, lost, forsaken>>,
           \A k \in JobIds \ {j} : tasks'[k] = tasks[k],
           HandledJob' \ {j} = HandledJob \ {j}
    PROVE  /\ ChargeRows' /\ RefundRows' /\ PayersExist' /\ Jobs' = Jobs
           /\ \A k \in Jobs \ {j} : JobUntouched(k)
<1>1. /\ LedgerTypeOK /\ Len(txns) \in Nat /\ DOMAIN txns = 1..Len(txns)
      /\ DOMAIN txns' = 1..(Len(txns) + 1) /\ txns'[Len(txns) + 1] = row
      /\ \A i \in 1..Len(txns) : txns'[i] = txns[i]
      /\ Jobs' = Jobs /\ Jobs \subseteq JobIds
      /\ \A i \in 1..Len(txns) : txns[i].delta \in Int
  BY SlopTypes, AppendedRows, DeltaIsInt DEF SlopInv, Jobs
<1>2. ChargeRows'
  <2>1. SUFFICES ASSUME NEW i \in DOMAIN txns', txns'[i].reason = "generation"
                 PROVE  /\ txns'[i].ref \in Jobs
                        /\ txns'[i].user = jobs[txns'[i].ref].user
                        /\ txns'[i].delta = -CostPerGeneration
                        /\ txns'[i].ref \notin forsaken' => i > epoch'[txns'[i].user]
    BY <1>1 DEF ChargeRows
  <2>2. CASE i = Len(txns) + 1
    <3>1. row.reason = "generation"
      BY <1>1, <2>1, <2>2
    <3>2. epoch[jobs[j].user] <= Len(txns) /\ epoch[jobs[j].user] \in Nat
      BY SlopTypes DEF SlopInv, LedgerCore, EpochsInLedger
    <3> QED
      BY <1>1, <2>2, <3>1, <3>2
  <2>3. CASE i # Len(txns) + 1
    <3>1. i \in DOMAIN txns /\ txns'[i] = txns[i]
      BY <1>1, <2>3
    <3> QED
      BY <2>1, <3>1 DEF SlopInv, ChargeRows
  <2> QED
    BY <2>2, <2>3
<1>3. RefundRows'
  <2>1. SUFFICES ASSUME NEW i \in DOMAIN txns', txns'[i].reason = "refund"
                 PROVE  /\ txns'[i].ref \in Jobs
                        /\ \E c \in 1..(i - 1) :
                              /\ txns'[c].reason = "generation"
                              /\ txns'[c].ref = txns'[i].ref
                              /\ txns'[c].user = txns'[i].user
                              /\ txns'[c].delta = -txns'[i].delta
    BY <1>1 DEF RefundRows
  <2>2. CASE i = Len(txns) + 1
    <3>1. row.reason = "refund"
      BY <1>1, <2>1, <2>2
    <3>2. row.delta = CostPerGeneration /\ Charged(j)
      BY <3>1
    <3>3. PICK c \in DOMAIN txns : txns[c].reason = "generation" /\ txns[c].ref = j
      BY <3>2 DEF Charged, Recorded
    <3>4. txns[c].user = jobs[j].user /\ txns[c].delta = -CostPerGeneration
      BY <3>3 DEF SlopInv, ChargeRows
    <3>5. c \in 1..(i - 1) /\ txns'[c] = txns[c] /\ txns'[i] = row
      BY <1>1, <2>2
    <3> QED
      BY <3>2, <3>3, <3>4, <3>5
  <2>3. CASE i # Len(txns) + 1
    <3>1. i \in DOMAIN txns /\ txns'[i] = txns[i]
      BY <1>1, <2>3
    <3>2. \A c \in 1..(i - 1) : txns'[c] = txns[c]
      BY <1>1, <3>1
    <3> QED
      BY <2>1, <3>1, <3>2 DEF SlopInv, RefundRows
  <2> QED
    BY <2>2, <2>3
<1>5. PayersExist'
  BY <1>1 DEF SlopInv, PayersExist
<1>4. ASSUME NEW k \in Jobs \ {j} PROVE JobUntouched(k)
  <2>1. (Charged(k)' <=> Charged(k)) /\ (Refunded(k)' <=> Refunded(k))
    BY <1>1, RecordedAfter DEF Charged, Refunded
  <2>2. PayerRemains(k)' => PayerRemains(k)
    BY PayerGone
  <2>3. tasks'[k] = tasks[k] /\ (k \in HandledJob' <=> k \in HandledJob)
    BY <1>1
  <2> QED
    BY <2>1, <2>2, <2>3 DEF JobUntouched, InHand
<1> QED
  BY <1>1, <1>2, <1>3, <1>4, <1>5

(* A charge pays the deal.                                                 *)
LEMMA ChargeKeeps ==
    ASSUME SlopInv, Charge
    PROVE  /\ SlopInv' /\ Jobs' = Jobs
           /\ \E j \in Jobs : /\ DealOf(j) = "open" /\ DealOf(j)' = "paid"
                              /\ \A k \in Jobs \ {j} : DealOf(k)' = DealOf(k)
<1>1. PICK j \in Jobs : j = loop.job
  BY DEF SlopInv, HandOK, Charge, Resume
<1>2. /\ loop.at = "charge" /\ jobs[j].status = "queued" /\ jobs[j].user \in users
      /\ tasks[j] = "none" /\ ~Charged(j) /\ j \in JobIds /\ j \in Nat
      /\ jobs[j].user \in UserIds /\ -CostPerGeneration \in Int
      /\ "generation" \in Reasons
  BY <1>1, SlopTypes DEF SlopInv, HandOK, Charge, Resume, Reasons, JobIds
<1>3. /\ ApplyTransaction(jobs[j].user, -CostPerGeneration, "generation", j)
      /\ tasks' = [tasks EXCEPT ![j] = "scheduled"] /\ loop' = Idle
      /\ HandledJob = {j} /\ HandledJob' = {} /\ users' = users
      /\ UNCHANGED <<accountVars, now, setbacks, epoch, jobs, tracks, lost, forsaken>>
  BY <1>1, <1>2 DEF Charge, Release, HandledJob, Idle, accountVars
<1>4. tasks'[j] = "scheduled" /\ \A k \in JobIds \ {j} : tasks'[k] = tasks[k]
  BY <1>2, <1>3, SlopTypes DEF SlopInv
<1>5. PICK row \in Txn : /\ txns' = Append(txns, row) /\ row.user = jobs[j].user
                         /\ row.delta = -CostPerGeneration
                         /\ row.reason = "generation" /\ row.ref = j
  BY <1>2, <1>3, ApplyTransactionBooks, SlopTypes DEF SlopInv, Charged
<1>6. /\ ChargeRows' /\ RefundRows' /\ PayersExist' /\ Jobs' = Jobs
      /\ \A k \in Jobs \ {j} : JobUntouched(k)
  BY <1>3, <1>4, <1>5, BookedForJob
<1>7. Charged(j)' /\ ~Refunded(j)' /\ ~Refunded(j)
  <2>1. ~Refunded(j)
    BY <1>2 DEF SlopInv, JobsOK, JobOK
  <2> QED
    BY <1>5, <2>1, RecordedAfter, SlopTypes DEF SlopInv, Charged, Refunded
<1>8. LedgerCore'
  <2>1. RefsAreUnique' /\ EpochsInLedger' /\ BalanceIsLedgerSum'
    BY <1>2, <1>3, ApplyTransactionLedger DEF SlopInv
  <2>2. txns' \in Seq(Txn) /\ balance' \in [UserIds -> Nat]
    BY <1>2, <1>3, ApplyTransactionType, SlopTypes DEF SlopInv
  <2>3. LedgerTypeOK'
    BY <1>3, <2>2 DEF SlopInv, LedgerCore, LedgerTypeOK, AccountsTypeOK, accountVars
  <2> QED
    BY <2>1, <2>3 DEF LedgerCore
<1>9. SlopTypeOK'
  BY <1>3, <1>8 DEF SlopInv, SlopTypeOK, LedgerCore
<1>10. JobOK(j)' /\ InHand(j)'
  BY <1>2, <1>3, <1>4, <1>7 DEF JobOK, InHand
<1>11. HandOK' /\ OnlyJobs' /\ JobsOK'
  <2>1. HandOK'
    BY <1>3 DEF HandOK, Idle
  <2>2. OnlyJobs'
    BY <1>3, <1>4, <1>6 DEF SlopInv, OnlyJobs
  <2>3. JobsOK'
    BY <1>6, <1>10, UntouchedOK DEF SlopInv, JobsOK
  <2> QED
    BY <2>1, <2>2, <2>3
<1>12. DealOf(j) = "open" /\ DealOf(j)' = "paid"
  BY <1>2, <1>3, <1>6, <1>7, <1>10 DEF DealOf
<1>13. \A k \in Jobs \ {j} : DealOf(k)' = DealOf(k)
  BY <1>6, UntouchedDeal
<1> QED
  BY <1>6, <1>8, <1>9, <1>11, <1>12, <1>13 DEF SlopInv

(* A refund ends the deal; without a payer it is forfeited.                *)
LEMMA RefundKeeps ==
    ASSUME SlopInv, Refund
    PROVE  /\ SlopInv' /\ Jobs' = Jobs
           /\ \E j \in Jobs : /\ DealOf(j) = "paid"
                              /\ DealOf(j)' \in {"refunded", "forfeited"}
                              /\ \A k \in Jobs \ {j} : DealOf(k)' = DealOf(k)
<1>1. PICK j \in Jobs : j = loop.job
  BY DEF SlopInv, HandOK, Refund, Resume
<1>2. /\ loop.at = "refund" /\ jobs[j].status = "failed" /\ JobOK(j)
      /\ j \in JobIds /\ j \in Nat /\ jobs[j].user \in UserIds
      /\ CostPerGeneration \in Int /\ "refund" \in Reasons
  BY <1>1, SlopTypes DEF SlopInv, HandOK, JobsOK, Refund, Resume, Reasons, JobIds
<1>3. /\ HandledJob = {j} /\ HandledJob' = {} /\ loop' = Idle /\ users' = users
      /\ UNCHANGED <<accountVars, now, setbacks, epoch, jobs, tasks, tracks, lost, forsaken>>
  BY <1>1, <1>2 DEF Refund, Release, HandledJob, Idle, accountVars, slopVars
<1>4. InHand(j) /\ ~InHand(j)' /\ Charged(j) /\ ~Refunded(j) /\ tasks[j] = "none"
  BY <1>2, <1>3 DEF JobOK, InHand
<1>5. Jobs' = Jobs
  BY <1>3 DEF Jobs
<1> DEFINE Booked == /\ LedgerCore' /\ ChargeRows' /\ RefundRows' /\ PayersExist'
                     /\ Charged(j)'
                     /\ Refunded(j)' \/ ~PayerRemains(j)'
                     /\ \A k \in Jobs \ {j} : JobUntouched(k)
<1>6. ASSUME jobs[j].user \in users PROVE Booked
  <2>1. ApplyTransaction(jobs[j].user, CostPerGeneration, "refund", j)
    BY <1>1, <1>6 DEF Refund
  <2>2. PICK row \in Txn : /\ txns' = Append(txns, row) /\ row.user = jobs[j].user
                           /\ row.delta = CostPerGeneration
                           /\ row.reason = "refund" /\ row.ref = j
    <3>1. LedgerTypeOK /\ ~Recorded("refund", j)
      BY <1>4 DEF SlopInv, LedgerCore, Refunded
    <3> QED
      BY <1>2, <2>1, <3>1, ApplyTransactionBooks
  <2>3. /\ ChargeRows' /\ RefundRows' /\ PayersExist'
        /\ \A k \in Jobs \ {j} : JobUntouched(k)
    BY <1>3, <1>4, <2>2, BookedForJob
  <2>4. Charged(j)' /\ Refunded(j)'
    BY <1>4, <2>2, RecordedAfter, SlopTypes DEF SlopInv, Charged, Refunded
  <2>5. LedgerCore'
    <3>1. RefsAreUnique' /\ EpochsInLedger' /\ BalanceIsLedgerSum'
      BY <1>2, <1>3, <1>6, <2>1, ApplyTransactionLedger DEF SlopInv
    <3>2. txns' \in Seq(Txn) /\ balance' \in [UserIds -> Nat]
      BY <1>2, <2>1, ApplyTransactionType, SlopTypes DEF SlopInv
    <3>3. LedgerTypeOK'
      BY <1>3, <3>2
         DEF SlopInv, LedgerCore, LedgerTypeOK, AccountsTypeOK, accountVars
    <3> QED
      BY <3>1, <3>3 DEF LedgerCore
  <2> QED
    BY <2>3, <2>4, <2>5
<1>7. ASSUME jobs[j].user \notin users PROVE Booked
  <2>1. txns' = txns /\ balance' = balance
    BY <1>1, <1>7 DEF Refund, ledgerVars
  <2>2. LedgerCore'
    <3>1. LedgerTypeOK'
      BY <1>3, <2>1
         DEF SlopInv, LedgerCore, LedgerTypeOK, AccountsTypeOK, accountVars
    <3> QED
      BY <1>3, <2>1, <3>1, LedgerUntouched DEF SlopInv, LedgerCore
  <2>3. /\ ChargeRows' /\ RefundRows' /\ PayersExist'
        /\ \A k : (Charged(k)' <=> Charged(k)) /\ (Refunded(k)' <=> Refunded(k))
    BY <1>3, <1>5, <2>1, JobRowsKept, PayersStay DEF SlopInv, PayersExist
  <2>4. ASSUME NEW k \in Jobs \ {j} PROVE JobUntouched(k)
    <3>1. PayerRemains(k)' => PayerRemains(k)
      BY <1>3, <2>1, PayerGone
    <3> QED
      BY <1>3, <2>3, <3>1 DEF JobUntouched, InHand
  <2>5. ~PayerRemains(j)'
    BY <1>3, <1>7 DEF PayerRemains
  <2> QED
    BY <1>4, <2>2, <2>3, <2>4, <2>5
<1>8. Booked
  BY <1>6, <1>7
<1> HIDE DEF Booked
<1>9. JobOK(j)'
  BY <1>2, <1>3, <1>4, <1>8 DEF Booked, JobOK
<1>10. SlopTypeOK'
  BY <1>3, <1>8 DEF Booked, SlopInv, SlopTypeOK, LedgerCore
<1>11. HandOK' /\ OnlyJobs'
  BY <1>3, <1>5 DEF SlopInv, HandOK, OnlyJobs, Idle
<1>12. JobsOK'
  BY <1>5, <1>8, <1>9, UntouchedOK DEF Booked, SlopInv, JobsOK
<1>13. SlopInv'
  BY <1>8, <1>10, <1>11, <1>12 DEF Booked, SlopInv
<1>14. DealOf(j) = "paid" /\ DealOf(j)' \in {"refunded", "forfeited"}
  BY <1>2, <1>3, <1>4, <1>5, <1>8 DEF Booked, DealOf
<1>15. \A k \in Jobs \ {j} : DealOf(k)' = DealOf(k)
  BY <1>5, <1>8, UntouchedDeal DEF Booked
<1> QED
  BY <1>5, <1>13, <1>14, <1>15

-----------------------------------------------------------------------------
(* The whole next-state relation.                                          *)

DealsSame == \A k \in JobIds : DealOf(k)' = DealOf(k)

(* Job j's deal moves and no other.                                        *)
DealMoves(j, from, to) ==
    /\ DealOf(j) = from /\ DealOf(j)' = to
    /\ \A k \in JobIds \ {j} : DealOf(k)' = DealOf(k)

DealsLost ==
    \E gone \in SUBSET JobIds : \A k \in JobIds :
        DealOf(k)' = IF k \in gone /\ DealOf(k) = "paid" THEN "forfeited"
                     ELSE DealOf(k)

(* Every step keeps the invariant, and leaves the deals alone, moves one   *)
(* of them, or forfeits some that are paid.                                *)
LEMMA SlopStep ==
    ASSUME SlopInv, SlopNext
    PROVE  /\ SlopInv'
           /\ \/ DealsSame \/ DealsLost
              \/ \E j \in JobIds : \/ DealMoves(j, "open", "paid")
                                   \/ DealMoves(j, "paid", "delivered")
                                   \/ DealMoves(j, "paid", "refunded")
                                   \/ DealMoves(j, "paid", "forfeited")
<1> DEFINE Moved == \E j \in JobIds : \/ DealMoves(j, "open", "paid")
                                      \/ DealMoves(j, "paid", "delivered")
                                      \/ DealMoves(j, "paid", "refunded")
                                      \/ DealMoves(j, "paid", "forfeited")
           Goal == SlopInv' /\ (DealsSame \/ DealsLost \/ Moved)
<1>0. Jobs \subseteq JobIds
  BY SlopTypes DEF SlopInv
<1>1. ASSUME Jobs' = Jobs, \A k \in Jobs : DealOf(k)' = DealOf(k) PROVE DealsSame
  BY <1>1 DEF DealsSame, DealOf
<1>2. ASSUME OutsideStep, UNCHANGED <<jobs, tasks, lost>>, tracks' \subseteq tracks,
             PayersKept
      PROVE  Goal
  <2>1. Jobs' = Jobs /\ SlopInv' /\ \A j \in Jobs : JobUntouched(j)
    BY <1>2, OutsideJobs DEF Jobs
  <2>2. DealsSame
    BY <1>1, <2>1, UntouchedDeal
  <2> QED
    BY <2>1, <2>2
<1>3. ASSUME NEW u \in UserIds, NEW source \in Jobs \cup {NoSource},
             Generate(u, source)
      PROVE  Goal
  BY <1>3, GenerateKeeps DEF DealsSame
<1>4. ASSUME NEW u \in UserIds, NEW t \in Jobs, DeleteTrack(u, t) PROVE Goal
  <2>1. /\ OutsideStep /\ UNCHANGED <<jobs, tasks, lost>> /\ tracks' \subseteq tracks
        /\ UNCHANGED <<users, epoch, forsaken>>
    BY <1>4 DEF DeleteTrack, OutsideStep, TokenRequest, ReadOnlyRequest, Request,
                SettlePremium
  <2> QED
    BY <1>2, <2>1, PayersStay
<1>5. ASSUME NEW u \in UserIds, DeleteAccount(u) PROVE Goal
  <2>1. OutsideStep /\ UNCHANGED <<jobs, tasks, lost>> /\ tracks' \subseteq tracks
    BY <1>5 DEF DeleteAccount, OutsideStep
  <2>2. /\ users' = users \ {u} /\ epoch' = [epoch EXCEPT ![u] = 0]
        /\ forsaken' = forsaken \cup {j \in Jobs : jobs[j].user = u}
    BY <1>5 DEF DeleteAccount, DeleteMe, RemoveUser
  <2>3. PayersKept
    BY <1>0, <2>2, SlopTypes DEF SlopInv, SlopTypeOK, PayersExist, PayersKept
  <2> QED
    BY <1>2, <2>1, <2>3
<1>6. ASSUME \/ \E u \in UserIds : Register(u) \/ TokenRequest(u)
             \/ RedeemGrant \/ TimePasses,
             UNCHANGED slopVars
      PROVE  Goal
  <2>1. /\ OutsideStep /\ UNCHANGED <<jobs, tasks, lost, forsaken>>
        /\ tracks' \subseteq tracks
    BY <1>6 DEF OutsideStep, slopVars
  <2>2. PayersKept
    <3>1. ASSUME NEW u \in UserIds, Register(u) PROVE PayersKept
      <4>1. /\ users' = users \cup {u} /\ u \notin users
            /\ epoch' = [epoch EXCEPT ![u] = Len(txns)]
        BY <3>1, SlopTypes DEF SlopInv, Register, InsertUser, NextId, UserIds
      <4> QED
        BY <1>0, <2>1, <4>1, SlopTypes
           DEF SlopInv, SlopTypeOK, PayersExist, PayersKept
    <3>2. ASSUME \/ \E u \in UserIds : TokenRequest(u)
                 \/ RedeemGrant \/ TimePasses
          PROVE  UNCHANGED <<users, epoch>>
      BY <3>2 DEF TokenRequest, ReadOnlyRequest, Request, SettlePremium,
                  AdRewardReplayed, AdRewardRefused, AdRewardGranted,
                  RedeemRefused, RedeemCharge, RedeemGrant, TimePasses, accountVars
    <3> QED
      BY <1>6, <2>1, <3>1, <3>2, PayersStay
  <2> QED
    BY <1>2, <2>1, <2>2
<1>7. CASE Charge
  <2>1. /\ SlopInv' /\ Jobs' = Jobs
        /\ \E j \in Jobs : /\ DealOf(j) = "open" /\ DealOf(j)' = "paid"
                           /\ \A k \in Jobs \ {j} : DealOf(k)' = DealOf(k)
    BY <1>7, ChargeKeeps
  <2>2. Moved
    BY <1>0, <2>1 DEF DealMoves, DealOf
  <2> QED
    BY <2>1, <2>2
<1>8. CASE Uncharge
  BY <1>1, <1>8, UnchargeKeeps
<1>9. CASE Refund
  <2>1. /\ SlopInv' /\ Jobs' = Jobs
        /\ \E j \in Jobs : /\ DealOf(j) = "paid"
                           /\ DealOf(j)' \in {"refunded", "forfeited"}
                           /\ \A k \in Jobs \ {j} : DealOf(k)' = DealOf(k)
    BY <1>9, RefundKeeps
  <2>2. Moved
    BY <1>0, <2>1 DEF DealMoves, DealOf
  <2> QED
    BY <2>1, <2>2
<1>10. ASSUME NEW j \in Jobs, RunTask(j) PROVE Goal
  <2>1. CASE StartJob(j)
    BY <1>1, <2>1, StartJobKeeps
  <2>2. CASE StartWithoutSource(j) \/ GenerationFails(j)
    BY <1>1, <2>2, FailKeeps
  <2>3. CASE GenerationSucceeds(j)
    <3>1. /\ SlopInv' /\ Jobs' = Jobs
          /\ \A k \in Jobs \ {j} : DealOf(k)' = DealOf(k)
          /\ DealOf(j) = "paid" /\ DealOf(j)' = "delivered"
      BY <2>3, SucceedsKeeps
    <3>2. Moved
      BY <1>0, <3>1 DEF DealMoves, DealOf
    <3> QED
      BY <3>1, <3>2
  <2> QED
    BY <1>10, <2>1, <2>2, <2>3 DEF RunTask
<1>11. ASSUME \/ SlopCrash \/ JobHandlerFails
              \/ \E j \in Jobs : TaskFails(j)
       PROVE  Goal
  <2>1. HandledJob \subseteq JobIds
    BY <1>0 DEF SlopInv, HandOK, HandledJob
  <2>2. PICK gone \in SUBSET JobIds :
             HandledJob \subseteq gone /\ Drop(gone) /\ Interrupt
             /\ UNCHANGED <<accountVars, ledgerVars, epoch>>
    <3>1. ASSUME SlopCrash
          PROVE  \E gone \in SUBSET JobIds :
                    HandledJob \subseteq gone /\ Drop(gone) /\ Interrupt
                    /\ UNCHANGED <<accountVars, ledgerVars, epoch>>
      <4> DEFINE gone == HandledJob \cup {j \in JobIds : tasks[j] # "none"}
      <4>1. gone \in SUBSET JobIds /\ HandledJob \subseteq gone
        BY <2>1
      <4> QED
        BY <3>1, <4>1 DEF SlopCrash, Crash, KillProcess
    <3>2. ASSUME JobHandlerFails
          PROVE  HandledJob \in SUBSET JobIds /\ Drop(HandledJob) /\ Interrupt
                 /\ UNCHANGED <<accountVars, ledgerVars, epoch>>
      BY <2>1, <3>2 DEF JobHandlerFails, HandlerFails, CommitFails
    <3>3. ASSUME NEW j \in Jobs, TaskFails(j)
          PROVE  /\ {j} \in SUBSET JobIds /\ HandledJob \subseteq {j} /\ Drop({j})
                 /\ Interrupt /\ UNCHANGED <<accountVars, ledgerVars, epoch>>
      BY <1>0, <3>3 DEF TaskFails, HandledJob, Idle
    <3> QED
      BY <1>11, <3>1, <3>2, <3>3
  <2>3. /\ loop' = Idle /\ setbacks' \in Nat /\ now' = now
    BY <2>2 DEF Interrupt, SlopInv, SlopTypeOK, LedgerTypeOK, AccountsTypeOK
  <2>4. /\ SlopInv'
        /\ \A k \in JobIds : DealOf(k)' = IF k \in gone /\ DealOf(k) = "paid"
                                          THEN "forfeited" ELSE DealOf(k)
    BY <2>2, <2>3, DropKeeps
  <2> QED
    BY <2>4 DEF DealsLost
<1>12. Goal
  <2>1. ASSUME NEW u \in UserIds, SlopRequest(u) PROVE Goal
    BY <1>3, <1>4, <1>5, <2>1 DEF SlopRequest
  <2>2. ASSUME ContinueHandler PROVE Goal
    BY <1>7, <1>8, <1>9, <2>2 DEF ContinueHandler
  <2>3. ASSUME \/ \E u \in UserIds : Register(u) \/ TokenRequest(u)
               \/ RedeemGrant \/ TimePasses,
               UNCHANGED slopVars
        PROVE  Goal
    BY <1>6, <2>3
  <2> HIDE DEF Goal
  <2> QED
    BY <1>10, <1>11, <2>1, <2>2, <2>3 DEF SlopNext
<1> QED
  BY <1>12

(* SlopInv is inductive.                                                   *)
LEMMA SlopInductive == SlopInv /\ [SlopNext]_allSlopVars => SlopInv'
<1> SUFFICES ASSUME SlopInv, [SlopNext]_allSlopVars PROVE SlopInv'
  OBVIOUS
<1>1. CASE SlopNext
  BY <1>1, SlopStep
<1>2. CASE UNCHANGED allSlopVars
  <2>1. UNCHANGED <<accountVars, now, loop, setbacks, txns, balance, epoch,
                    jobs, tracks, tasks, lost, forsaken, users>>
    BY <1>2 DEF allSlopVars, tokenVars, accountVars, hostVars, ledgerVars, slopVars
  <2>2. LedgerTypeOK' /\ SlopTypeOK' /\ Jobs' = Jobs
    BY <2>1 DEF SlopInv, SlopTypeOK, LedgerTypeOK, AccountsTypeOK, accountVars, Jobs
  <2>3. LedgerCore'
    BY <2>1, <2>2, LedgerUntouched DEF SlopInv, LedgerCore
  <2>4. /\ ChargeRows' /\ RefundRows' /\ PayersExist'
        /\ HandOK' /\ OnlyJobs' /\ JobsOK'
    BY <2>1, <2>2
       DEF SlopInv, ChargeRows, RefundRows, PayersExist, HandOK, OnlyJobs, JobsOK, JobOK,
           Charged, Refunded, Recorded, InHand, HandledJob, PayerRemains
  <2> QED
    BY <2>2, <2>3, <2>4 DEF SlopInv
<1> QED
  BY <1>1, <1>2

(* It holds when the service is first started.                             *)
LEMMA SlopInitially == SlopInit => SlopInv
<1> SUFFICES ASSUME SlopInit PROVE SlopInv
  OBVIOUS
<1>1. LedgerCore /\ loop = Idle
  BY LedgerInitially DEF SlopInit, LedgerInv, LedgerInit, AccountsInit
<1>2. /\ jobs = <<>> /\ tracks = {} /\ lost = {} /\ forsaken = {} /\ txns = <<>>
      /\ tasks = [j \in JobIds |-> "none"] /\ Jobs = {}
  BY DEF SlopInit, LedgerInit, Jobs
<1>3. SlopTypeOK
  <2>1. jobs \in Seq(Job) /\ Len(jobs) = 0
    BY <1>2
  <2> QED
    BY <1>1, <1>2, <2>1, SlopAssumption DEF SlopTypeOK, LedgerCore
<1>4. ChargeRows /\ RefundRows /\ PayersExist /\ HandOK /\ OnlyJobs /\ JobsOK
  BY <1>1, <1>2 DEF ChargeRows, RefundRows, PayersExist, HandOK, OnlyJobs, JobsOK, Idle
<1> QED
  BY <1>1, <1>3, <1>4 DEF SlopInv

(* SlopInv holds in every state.                                           *)
THEOREM SlopInvariant == SlopSpec => []SlopInv
  BY SlopInitially, SlopInductive, PTL DEF SlopSpec

(* Every state of the service is well-formed.                              *)
THEOREM SlopTypeCorrect == SlopSpec => []SlopTypeOK
<1>1. SlopInv => SlopTypeOK
  BY DEF SlopInv
<1> QED
  BY <1>1, SlopInvariant, PTL

(* The cached balance stays the sum of the ledger while jobs are charged   *)
(* and refunded.                                                           *)
THEOREM BalanceCorrectWithJobs == SlopSpec => []BalanceIsLedgerSum
<1>1. SlopInv => BalanceIsLedgerSum
  BY DEF SlopInv, LedgerCore
<1> QED
  BY <1>1, SlopInvariant, PTL

(* Every refund follows a charge of the same job, user id and amount, for  *)
(* any number of jobs and accounts, and counts for the account that was    *)
(* charged unless that was deleted.                                        *)
THEOREM RefundsMatch == SlopSpec => []RefundMatchesCharge
<1>1. SlopInv => RefundMatchesCharge
  <2> SUFFICES ASSUME SlopInv, NEW i \in DOMAIN txns, txns[i].reason = "refund"
               PROVE  /\ jobs[txns[i].ref].status = "failed"
                      /\ \E c \in 1..(i - 1) :
                            /\ txns[c].reason = "generation"
                            /\ txns[c].ref = txns[i].ref
                            /\ txns[c].user = txns[i].user
                            /\ txns[c].delta = -txns[i].delta
                            /\ \/ SameAccount(txns[i].user, c, i)
                               \/ txns[i].ref \in forsaken
    BY DEF RefundMatchesCharge
  <2>1. /\ txns \in Seq(Txn) /\ DOMAIN txns = 1..Len(txns) /\ Len(txns) \in Nat
        /\ epoch \in [UserIds -> Nat]
    BY SlopTypes DEF SlopInv
  <2>2. txns[i].user \in UserIds
    <3>1. txns[i] \in Txn
      BY <2>1
    <3> QED
      BY <3>1 DEF Txn
  <2>3. jobs[txns[i].ref].status = "failed"
    BY DEF SlopInv, RefundRows, JobsOK, JobOK, Refunded, Recorded
  <2>4. PICK c \in 1..(i - 1) : /\ txns[c].reason = "generation"
                                /\ txns[c].ref = txns[i].ref
                                /\ txns[c].user = txns[i].user
                                /\ txns[c].delta = -txns[i].delta
    BY DEF SlopInv, RefundRows
  <2>5. c \in DOMAIN txns /\ c < i /\ c \in Nat /\ i \in Nat
    BY <2>1
  <2>6. txns[i].ref \notin forsaken => c > epoch[txns[i].user]
    BY <2>4, <2>5 DEF SlopInv, ChargeRows
  <2>7. txns[i].ref \notin forsaken => SameAccount(txns[i].user, c, i)
    <3>1. epoch[txns[i].user] \in Nat
      BY <2>1, <2>2
    <3> QED
      BY <2>5, <2>6, <3>1 DEF SameAccount
  <2> QED
    BY <2>3, <2>4, <2>7
<1> QED
  BY <1>1, SlopInvariant, PTL

(* Whatever was generated is paid for and stays paid for.                  *)
THEOREM DeliveriesPaid == SlopSpec => []DeliveredIsPaid
<1>1. SlopInv => DeliveredIsPaid
  BY DEF SlopInv, OnlyJobs, JobsOK, JobOK, DeliveredIsPaid
<1> QED
  BY <1>1, SlopInvariant, PTL

(* A job that nobody holds, and that neither a kill nor a failed commit    *)
(* dropped, is settled.                                                    *)
THEOREM JobsSettled == SlopSpec => []EveryJobSettled
<1>1. SlopInv => EveryJobSettled
  <2> SUFFICES ASSUME SlopInv, NEW j \in Jobs \ lost
               PROVE  \/ InHand(j)
                      \/ jobs[j].status = "succeeded"
                      \/ jobs[j].status = "failed" /\ (PayerRemains(j) => Refunded(j))
                      \/ jobs[j].status = "deleted" /\ ~Charged(j)
    BY DEF EveryJobSettled
  <2>1. jobs[j].status \in {"queued", "running", "succeeded", "failed", "deleted"}
    BY SlopTypes DEF SlopInv
  <2>2. JobOK(j)
    BY DEF SlopInv, JobsOK
  <2> QED
    BY <2>1, <2>2 DEF JobOK
<1> QED
  BY <1>1, SlopInvariant, PTL

(* The service implements GenerationContract under the mapping DealOf: a   *)
(* job is charged at most once, and a charged job is delivered, refunded   *)
(* or forfeited, never two of these.                                       *)
THEOREM ContractImplemented == SlopSpec => ImplementsContract
<1> DEFINE deals == [j \in JobIds |-> DealOf(j)]
<1>1. SlopInit => Contract!Init
  <2> SUFFICES ASSUME SlopInit PROVE deals = [j \in JobIds |-> "open"]
    BY DEF Contract!Init
  <2>1. Jobs = {}
    BY DEF SlopInit, Jobs
  <2> QED
    BY <2>1 DEF DealOf
<1>2. SlopInv /\ [SlopNext]_allSlopVars => [Contract!Next]_deals
  <2> SUFFICES ASSUME SlopInv, [SlopNext]_allSlopVars
               PROVE  Contract!Next \/ deals' = deals
    OBVIOUS
  <2>1. ASSUME DealsSame PROVE deals' = deals
    BY <2>1 DEF DealsSame
  <2>2. ASSUME DealsLost PROVE Contract!Next
    <3>0. PICK gone \in SUBSET JobIds : \A k \in JobIds :
              DealOf(k)' = IF k \in gone /\ DealOf(k) = "paid" THEN "forfeited"
                           ELSE DealOf(k)
      BY <2>2 DEF DealsLost
    <3> DEFINE paid == {k \in gone : DealOf(k) = "paid"}
    <3>1. deals' = [k \in JobIds |-> IF k \in paid THEN "forfeited" ELSE deals[k]]
      BY <3>0
    <3>2. Contract!Forfeit(paid) /\ paid \in SUBSET JobIds
      BY <3>1 DEF Contract!Forfeit
    <3> QED
      BY <3>2 DEF Contract!Next
  <2>3. ASSUME NEW j \in JobIds, NEW from, NEW to, DealMoves(j, from, to)
        PROVE  Contract!Move(j, from, to)
    BY <2>3 DEF DealMoves, Contract!Move
  <2>4. ASSUME NEW j \in JobIds, DealMoves(j, "paid", "forfeited")
        PROVE  Contract!Next
    <3>1. Contract!Forfeit({j}) /\ {j} \in SUBSET JobIds
      BY <2>4 DEF DealMoves, Contract!Forfeit
    <3> QED
      BY <3>1 DEF Contract!Next
  <2>5. CASE SlopNext
    <3>1. \/ DealsSame \/ DealsLost
          \/ \E j \in JobIds : \/ DealMoves(j, "open", "paid")
                               \/ DealMoves(j, "paid", "delivered")
                               \/ DealMoves(j, "paid", "refunded")
                               \/ DealMoves(j, "paid", "forfeited")
      BY <2>5, SlopStep
    <3> QED
      BY <2>1, <2>2, <2>3, <2>4, <3>1 DEF Contract!Next
  <2>6. CASE UNCHANGED allSlopVars
    <3>1. UNCHANGED <<txns, jobs, tasks, loop>>
      BY <2>6 DEF allSlopVars, tokenVars, hostVars, ledgerVars, slopVars
    <3> QED
      BY <3>1 DEF DealOf, Jobs, Charged, Refunded, Recorded, InHand, HandledJob
  <2> QED
    BY <2>5, <2>6
<1> QED
  BY <1>1, <1>2, SlopInvariant, PTL DEF SlopSpec, ImplementsContract, Contract!Spec
=============================================================================
