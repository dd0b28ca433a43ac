---------------------------- MODULE TokenLedger -----------------------------
(***************************************************************************)
(* The token ledger: table token_transactions, its cached sum              *)
(* users.tokens_balance (token_service.py) and the handlers of             *)
(* api/tokens.py that write them.                                          *)
(*                                                                         *)
(* A ledger row is [user, delta, reason, ref, day]; the table is the       *)
(* sequence of its rows in insertion order.  A ref_id is a number, unique  *)
(* for its reason: the idempotency key of an advert, the id of a job or of *)
(* a payment, a fresh number for a uuid4.  `epoch` is a history variable:  *)
(* the length of the ledger when the current row of an id was inserted.    *)
(*                                                                         *)
(* Credits come from the finite set AdKeys, so the ledger is finite.       *)
(***************************************************************************)
EXTENDS Accounts, FiniteSets

CONSTANTS
    AdKeys,          \* idempotency keys that clients send
    AdReward,        \* SOUNDSLOP_AD_REWARD_TOKENS (1)
    AdDailyLimit,    \* SOUNDSLOP_AD_DAILY_LIMIT (10)
    TokensPerGb,     \* TOKENS_PER_GB_PERMANENT (40)
    RedeemSizes      \* gigabytes a client asks for

ASSUME LedgerAssumption ==
    /\ AdKeys \subseteq Nat
    /\ AdReward \in Nat \ {0}
    /\ AdDailyLimit \in Nat
    /\ TokensPerGb \in Nat \ {0}
    /\ RedeemSizes \subseteq Nat \ {0}

VARIABLES
    txns,     \* table token_transactions
    balance,  \* User.tokens_balance
    epoch     \* history: Len(txns) when the row of the id was inserted

ledgerVars == <<txns, balance>>
tokenVars == <<accountVars, hostVars, ledgerVars, epoch>>

Reasons == {"ad_reward", "storage_redeem", "generation", "refund",
            "subscription", "token_purchase"}

Txn == [user : UserIds, delta : Int, reason : Reasons, ref : Nat, day : Nat]

RedeemContinuation ==
    [at : {"redeem"}, user : UserIds, gb : Nat]

LedgerTypeOK ==
    /\ AccountsTypeOK
    /\ txns \in Seq(Txn)
    /\ balance \in [UserIds -> Nat]
    /\ epoch \in [UserIds -> Nat]

TokenTypeOK ==
    /\ LedgerTypeOK
    /\ loop \in {Idle} \cup RedeemContinuation

LedgerInit ==
    /\ AccountsInit
    /\ txns = <<>>
    /\ balance = [u \in UserIds |-> 0]
    /\ epoch = [u \in UserIds |-> 0]

-----------------------------------------------------------------------------
(* token_service.apply_transaction                                         *)
Recorded(reason, ref) ==
    \E i \in DOMAIN txns : txns[i].reason = reason /\ txns[i].ref = ref

(* Mutant of Insufficient: a charge does not look at the balance.          *)
Insufficient_Unchecked(u, delta) == FALSE

Insufficient(u, delta) == balance[u] + delta < 0

(* Mutant of ApplyTransaction: a charge beyond the balance is booked and   *)
(* the cache stops at zero.                                                *)
ApplyTransaction_Clamped(u, delta, reason, ref) ==
    IF Recorded(reason, ref)
    THEN UNCHANGED ledgerVars
    ELSE /\ txns' = Append(txns, [user |-> u, delta |-> delta,
                                  reason |-> reason, ref |-> ref, day |-> Today])
         /\ balance' = [balance EXCEPT ![u] = IF @ + delta < 0 THEN 0
                                              ELSE @ + delta]

(* The unique constraint on (reason, ref_id) makes the commit of a repeat  *)
(* fail; the rollback undoes the new balance with it.                      *)
ApplyTransaction(u, delta, reason, ref) ==
    /\ ~Insufficient(u, delta)
    /\ IF Recorded(reason, ref)
       THEN UNCHANGED ledgerVars
       ELSE /\ txns' = Append(txns, [user |-> u, delta |-> delta,
                                     reason |-> reason, ref |-> ref,
                                     day |-> Today])
            /\ balance' = [balance EXCEPT ![u] = @ + delta]

FreshRef == Len(txns) + 1

AdRewardsOn(u, day) ==
    {i \in DOMAIN txns : /\ txns[i].user = u
                         /\ txns[i].reason = "ad_reward"
                         /\ txns[i].day = day}

-----------------------------------------------------------------------------
(* POST /auth/register and DELETE /users/me, seen from the ledger: its     *)
(* rows have no cascade and outlive the account.                           *)
Register(u) ==
    /\ InsertUser(u)
    /\ balance' = [balance EXCEPT ![u] = 0]
    /\ epoch' = [epoch EXCEPT ![u] = Len(txns)]
    /\ UNCHANGED txns

DeleteMe(u) ==
    /\ RemoveUser(u)
    /\ balance' = [balance EXCEPT ![u] = 0]
    /\ epoch' = [epoch EXCEPT ![u] = 0]
    /\ UNCHANGED txns

(* POST /tokens/ad-reward                                                  *)
AdRewardReplayed(u, key) ==
    /\ Recorded("ad_reward", key)
    /\ ReadOnlyRequest(u)
    /\ UNCHANGED <<ledgerVars, epoch>>

AdRewardRefused(u, key) ==
    /\ ~Recorded("ad_reward", key)
    /\ Cardinality(AdRewardsOn(u, Today)) >= AdDailyLimit
    /\ ReadOnlyRequest(u)
    /\ UNCHANGED <<ledgerVars, epoch>>

(* Mutant of AdRewardGranted: the limit is off by one.                     *)
AdRewardGranted_OneMore(u, key) ==
    /\ ~Recorded("ad_reward", key)
    /\ Cardinality(AdRewardsOn(u, Today)) <= AdDailyLimit
    /\ ReadOnlyRequest(u)
    /\ ApplyTransaction(u, AdReward, "ad_reward", key)
    /\ UNCHANGED epoch

AdRewardGranted(u, key) ==
    /\ ~Recorded("ad_reward", key)
    /\ Cardinality(AdRewardsOn(u, Today)) < AdDailyLimit
    /\ ReadOnlyRequest(u)
    /\ ApplyTransaction(u, AdReward, "ad_reward", key)
    /\ UNCHANGED epoch

(* POST /tokens/redeem-storage: the charge and the new limit are two       *)
(* commits; the ref_id is a new uuid, so the charge is never a repeat.     *)
RedeemRefused(u, gb) ==
    /\ Insufficient(u, -(gb * TokensPerGb))
    /\ ReadOnlyRequest(u)
    /\ UNCHANGED <<ledgerVars, epoch>>

(* Mutant of RedeemCharge: the price of one gigabyte for any number.       *)
RedeemCharge_OneGb(u, gb) ==
    /\ Request(u)
    /\ ApplyTransaction(u, -TokensPerGb, "storage_redeem", FreshRef)
    /\ Suspend([at |-> "redeem", user |-> u, gb |-> gb])
    /\ UNCHANGED epoch

RedeemCharge(u, gb) ==
    /\ Request(u)
    /\ ApplyTransaction(u, -(gb * TokensPerGb), "storage_redeem", FreshRef)
    /\ Suspend([at |-> "redeem", user |-> u, gb |-> gb])
    /\ UNCHANGED epoch

RedeemGrant ==
    /\ Resume("redeem")
    /\ storageLimit' = [storageLimit EXCEPT ![loop.user] = @ + loop.gb]
    /\ Release
    /\ UNCHANGED <<users, isAdmin, isPremium, premiumExpires, ledgerVars, epoch>>

TimePasses == Tick /\ UNCHANGED <<accountVars, ledgerVars, epoch>>

Crash == KillProcess /\ UNCHANGED <<accountVars, ledgerVars, epoch>>

(* A handler of several commits ends at one that fails.                    *)
HandlerFails == CommitFails /\ UNCHANGED <<accountVars, ledgerVars, epoch>>

-----------------------------------------------------------------------------
(* The requests of one account that only this module knows about.          *)
TokenRequest(u) ==
    \/ ReadOnlyRequest(u) /\ UNCHANGED <<ledgerVars, epoch>>
    \/ \E key \in AdKeys : \/ AdRewardReplayed(u, key)
                           \/ AdRewardRefused(u, key)
                           \/ AdRewardGranted(u, key)
    \/ \E gb \in RedeemSizes : \/ RedeemRefused(u, gb)
                               \/ RedeemCharge(u, gb)

TokenNext ==
    \/ \E u \in UserIds : Register(u) \/ DeleteMe(u) \/ TokenRequest(u)
    \/ RedeemGrant
    \/ TimePasses
    \/ Crash
    \/ HandlerFails

TokenSpec == LedgerInit /\ [][TokenNext]_tokenVars

-----------------------------------------------------------------------------
(* The sum of a sequence of integers.                                      *)
Total(gains) ==
    LET total[i \in 0..Len(gains)] ==
            IF i = 0 THEN 0 ELSE total[i - 1] + gains[i]
    IN  total[Len(gains)]

(* What the rows of u after position `from` add up to.                     *)
Gains(rows, u, from) ==
    [i \in 1..Len(rows) |->
        IF i > from /\ rows[i].user = u THEN rows[i].delta ELSE 0]

LedgerSum(u) == Total(Gains(txns, u, epoch[u]))

(* The cached balance of an account is what its own rows of the ledger     *)
(* add up to: no handler, repeat, refusal, failed commit or kill leaves    *)
(* the cache and the ledger apart (models.TokenTransaction,                *)
(* "users.tokens_balance is a cache").  Rows inherited from an earlier     *)
(* account with the same id are not counted.                               *)
BalanceIsLedgerSum ==
    \A u \in users : balance[u] = LedgerSum(u)

(* No id is credited more adverts in a UTC day than the daily limit,       *)
(* whatever keys, repeats, restarts and re-registrations come in between.  *)
AdDailyCap ==
    \A u \in UserIds : \A i \in DOMAIN txns :
        Cardinality(AdRewardsOn(u, txns[i].day)) <= AdDailyLimit

(* The tokens that the current row of u spent on storage.                  *)
StoragePayments(rows, u, from) ==
    [i \in 1..Len(rows) |->
        IF i > from /\ rows[i].user = u /\ rows[i].reason = "storage_redeem"
        THEN -rows[i].delta ELSE 0]

RedeemPaid(u) == Total(StoragePayments(txns, u, epoch[u]))

(* Storage above the initial quota was paid for out of the account's own   *)
(* tokens: a refused, repeated or interrupted redeem never hands out more  *)
(* gigabytes than it charged.                                              *)
StorageIsPaidFor ==
    \A u \in users :
        (storageLimit[u] - BaseQuota) * TokensPerGb <= RedeemPaid(u)
=============================================================================
