------------------------- MODULE TokenLedgerProofs --------------------------
(***************************************************************************)
(* What TLAPS proves of module TokenLedger for every value of its          *)
(* constants: type correctness, that the cached balance of an account is   *)
(* the sum of its rows, the daily limit of adverts, and that redeemed      *)
(* storage was paid for.                                                   *)
(***************************************************************************)
EXTENDS TokenLedger, SequenceTheorems, FiniteSetTheorems,
        WellFoundedInduction, TLAPS

-----------------------------------------------------------------------------
(* Sums of sequences.  Induction is over a set of naturals, so that no     *)
(* theorem with an operator parameter is needed.                           *)

(* A set of naturals that holds 0 and is closed under successor is Nat.    *)
LEMMA NatSetInduction ==
    ASSUME NEW S, S \subseteq Nat, 0 \in S, \A n \in S : n + 1 \in S
    PROVE  \A n \in Nat : n \in S
<1>1. SUFFICES ASSUME Nat \ S # {} PROVE FALSE
  OBVIOUS
<1>2. PICK m \in Nat \ S : \A y \in Nat \ S : <<y, m>> \notin OpToRel(<, Nat)
  BY <1>1, WFMin, NatLessThanWellFounded
<1>3. m # 0
  OBVIOUS
<1>4. m - 1 \in Nat \ S
  <2>1. m - 1 \in Nat
    BY <1>3
  <2>2. m = (m - 1) + 1
    OBVIOUS
  <2> QED
    BY <2>1, <2>2
<1>5. <<m - 1, m>> \in OpToRel(<, Nat)
  BY <1>4 DEF OpToRel
<1> QED
  BY <1>2, <1>4, <1>5

(* The partial sums of a sequence exist: the recursion of Total defines a  *)
(* function.                                                               *)
LEMMA PartialSumsExist ==
    ASSUME NEW n \in Nat, NEW g \in [1..n -> Int]
    PROVE  \E f \in [0..n -> Int] :
              f = [i \in 0..n |-> IF i = 0 THEN 0 ELSE f[i - 1] + g[i]]
<1> DEFINE Sums(f, m) ==
             \A i \in 0..m : f[i] = IF i = 0 THEN 0 ELSE f[i - 1] + g[i]
           S == {m \in Nat : m <= n => \E f \in [0..m -> Int] : Sums(f, m)}
<1>1. 0 \in S
  <2>1. [i \in 0..0 |-> 0] \in [0..0 -> Int] /\ Sums([i \in 0..0 |-> 0], 0)
    OBVIOUS
  <2> QED
    BY <2>1
<1>2. ASSUME NEW m \in S PROVE m + 1 \in S
  <2> HIDE DEF Sums
  <2>1. SUFFICES ASSUME m + 1 <= n
                 PROVE  \E h \in [0..(m + 1) -> Int] : Sums(h, m + 1)
    OBVIOUS
  <2>2. m \in Nat /\ m <= n
    BY <2>1
  <2> USE DEF Sums
  <2>3. PICK f \in [0..m -> Int] : Sums(f, m)
    BY <2>2
  <2> DEFINE h == [i \in 0..(m + 1) |-> IF i = m + 1 THEN f[m] + g[m + 1]
                                       ELSE f[i]]
  <2>4. h \in [0..(m + 1) -> Int]
    <3>1. f[m] \in Int /\ g[m + 1] \in Int
      BY <2>1, <2>2
    <3>2. ASSUME NEW i \in 0..(m + 1), i # m + 1 PROVE f[i] \in Int
      BY <2>2, <3>2
    <3> QED
      BY <3>1, <3>2
  <2>5. ASSUME NEW i \in 0..(m + 1)
        PROVE  h[i] = IF i = 0 THEN 0 ELSE h[i - 1] + g[i]
    <3>1. CASE i = m + 1
      BY <2>2, <3>1
    <3>2. CASE i # m + 1
      <4>1. i \in 0..m
        BY <2>2, <3>2
      <4>2. f[i] = IF i = 0 THEN 0 ELSE f[i - 1] + g[i]
        BY <4>1, <2>3
      <4>3. h[i] = f[i] /\ (i # 0 => h[i - 1] = f[i - 1])
        BY <2>2, <4>1
      <4> QED
        BY <4>2, <4>3
    <3> QED
      BY <3>1, <3>2
  <2> HIDE DEF h
  <2> QED
    BY <2>4, <2>5
<1>3. n \in S
  <2>1. S \subseteq Nat
    OBVIOUS
  <2> HIDE DEF S
  <2> QED
    BY <1>1, <1>2, <2>1, NatSetInduction
<1>4. PICK f \in [0..n -> Int] : Sums(f, n)
  BY <1>3
<1>5. f = [i \in 0..n |-> IF i = 0 THEN 0 ELSE f[i - 1] + g[i]]
  BY <1>4
<1> QED
  BY <1>5

(* f holds the partial sums of g.                                          *)
SumsOf(f, g, n) ==
    /\ f[0] = 0
    /\ \A i \in 1..n : f[i] = f[i - 1] + g[i]

(* Partial sums are unique.                                                *)
LEMMA PartialSumsAgree ==
    ASSUME NEW n \in Nat, NEW g, NEW e, NEW f, SumsOf(e, g, n), SumsOf(f, g, n)
    PROVE  \A i \in 0..n : e[i] = f[i]
<1> DEFINE S == {m \in Nat : m <= n => e[m] = f[m]}
<1>1. 0 \in S
  BY DEF SumsOf
<1>2. ASSUME NEW m \in S PROVE m + 1 \in S
  <2>1. SUFFICES ASSUME m + 1 <= n PROVE e[m + 1] = f[m + 1]
    OBVIOUS
  <2>2. e[m] = f[m] /\ m + 1 \in 1..n /\ (m + 1) - 1 = m
    BY <2>1
  <2> QED
    BY <2>2 DEF SumsOf
<1>3. \A m \in Nat : m \in S
  <2>1. S \subseteq Nat
    OBVIOUS
  <2> HIDE DEF S
  <2> QED
    BY <1>1, <1>2, <2>1, NatSetInduction
<1> QED
  BY <1>3

(* Total unfolds: it is the last of the partial sums.                      *)
LEMMA TotalUnfolds ==
    ASSUME NEW g \in Seq(Int)
    PROVE  \E f \in [0..Len(g) -> Int] : Total(g) = f[Len(g)] /\ SumsOf(f, g, Len(g))
<1> DEFINE Body(f) == [i \in 0..Len(g) |-> IF i = 0 THEN 0 ELSE f[i - 1] + g[i]]
           total == CHOOSE f : f = Body(f)
<1>1. Len(g) \in Nat /\ g \in [1..Len(g) -> Int]
  OBVIOUS
<1>2. PICK f \in [0..Len(g) -> Int] : f = Body(f)
  BY <1>1, PartialSumsExist
<1>3. total = Body(total)
  <2> HIDE DEF Body
  <2> QED
    BY <1>2
<1>4. Total(g) = total[Len(g)]
  BY DEF Total
<1> HIDE DEF total
<1>5. \A h : h = Body(h) => SumsOf(h, g, Len(g))
  <2>1. SUFFICES ASSUME NEW h, h = Body(h) PROVE SumsOf(h, g, Len(g))
    OBVIOUS
  <2>2. h[0] = 0
    BY <1>1, <2>1
  <2>3. ASSUME NEW i \in 1..Len(g) PROVE h[i] = h[i - 1] + g[i]
    <3>1. i \in 0..Len(g) /\ i # 0
      BY <1>1
    <3> QED
      BY <2>1, <3>1
  <2> QED
    BY <2>2, <2>3 DEF SumsOf
<1>6. SumsOf(f, g, Len(g)) /\ SumsOf(total, g, Len(g))
  <2> HIDE DEF Body
  <2> QED
    BY <1>2, <1>3, <1>5
<1>7. total[Len(g)] = f[Len(g)]
  <2>1. \A i \in 0..Len(g) : total[i] = f[i]
    BY <1>1, <1>6, PartialSumsAgree
  <2> QED
    BY <1>1, <2>1
<1> QED
  BY <1>4, <1>6, <1>7

(* Appending a number adds it to the total.                                *)
LEMMA TotalAppend ==
    ASSUME NEW g \in Seq(Int), NEW d \in Int
    PROVE  Total(g) \in Int /\ Total(Append(g, d)) = Total(g) + d
<1> DEFINE h == Append(g, d)
<1>1. /\ Len(g) \in Nat /\ h \in Seq(Int) /\ Len(h) = Len(g) + 1
      /\ h[Len(g) + 1] = d /\ \A i \in 1..Len(g) : h[i] = g[i]
  OBVIOUS
<1>2. PICK e \in [0..Len(g) -> Int] : Total(g) = e[Len(g)] /\ SumsOf(e, g, Len(g))
  BY TotalUnfolds
<1>3. PICK f \in [0..Len(h) -> Int] : Total(h) = f[Len(h)] /\ SumsOf(f, h, Len(h))
  BY <1>1, TotalUnfolds
<1> HIDE DEF h
<1>4. SumsOf(f, g, Len(g))
  BY <1>1, <1>3 DEF SumsOf
<1>5. e[Len(g)] = f[Len(g)]
  <2>1. \A i \in 0..Len(g) : e[i] = f[i]
    BY <1>1, <1>2, <1>4, PartialSumsAgree
  <2> QED
    BY <1>1, <2>1
<1>6. f[Len(g) + 1] = f[Len(g)] + d
  <2>1. \A i \in 1..Len(h) : f[i] = f[i - 1] + h[i]
    BY <1>3 DEF SumsOf
  <2>2. Len(g) + 1 \in 1..Len(h) /\ (Len(g) + 1) - 1 = Len(g)
    BY <1>1
  <2> QED
    BY <1>1, <2>1, <2>2
<1>7. Total(g) \in Int
  <2>1. Len(g) \in 0..Len(g)
    BY <1>1
  <2>2. e[Len(g)] \in Int
    BY <2>1
  <2> QED
    BY <1>2, <2>2
<1>8. Total(h) = Total(g) + d
  <2>1. Total(h) = f[Len(g) + 1]
    BY <1>1, <1>3
  <2>2. Total(g) = f[Len(g)]
    BY <1>2, <1>5
  <2> QED
    BY <1>6, <2>1, <2>2
<1> QED
  BY <1>7, <1>8 DEF h

(* A sequence of zeros adds up to zero.                                    *)
LEMMA TotalOfZeros ==
    ASSUME NEW g \in Seq(Int), \A i \in 1..Len(g) : g[i] = 0
    PROVE  Total(g) = 0
<1> DEFINE zero == [i \in 0..Len(g) |-> 0]
<1>1. Len(g) \in Nat
  OBVIOUS
<1>2. PICK f \in [0..Len(g) -> Int] : Total(g) = f[Len(g)] /\ SumsOf(f, g, Len(g))
  BY TotalUnfolds
<1>3. SumsOf(zero, g, Len(g))
  BY <1>1 DEF SumsOf
<1>4. \A i \in 0..Len(g) : f[i] = zero[i]
  <2> HIDE DEF zero
  <2> QED
    BY <1>1, <1>2, <1>3, PartialSumsAgree
<1> QED
  BY <1>1, <1>2, <1>4

-----------------------------------------------------------------------------
(* The rows of the ledger.                                                 *)

(* The delta of a row is a number.                                         *)
LEMMA DeltaIsInt == \A t \in Txn : t.delta \in Int
  BY DEF Txn

(* Days and references are naturals.                                       *)
LEMMA DayAndRefAreNat == \A t \in Txn : t.day \in Nat /\ t.ref \in Nat
  BY DEF Txn

(* A new row adds its delta to what its user has, and nothing to others.   *)
LEMMA GainsAppend ==
    ASSUME NEW rows \in Seq(Txn), NEW t \in Txn, NEW u, NEW from \in Nat,
           from <= Len(rows)
    PROVE  /\ Total(Gains(rows, u, from)) \in Int
           /\ Total(Gains(Append(rows, t), u, from))
                 = Total(Gains(rows, u, from))
                     + IF t.user = u THEN t.delta ELSE 0
<1> DEFINE d == IF t.user = u THEN t.delta ELSE 0
<1>1. t.delta \in Int /\ \A i \in 1..Len(rows) : rows[i].delta \in Int
  BY DeltaIsInt
<1>2. Gains(rows, u, from) \in Seq(Int) /\ d \in Int
  BY <1>1 DEF Gains
<1>3. Gains(Append(rows, t), u, from) = Append(Gains(rows, u, from), d)
  BY <1>1, <1>2 DEF Gains
<1> QED
  BY <1>2, <1>3, TotalAppend

(* An account that was just inserted has nothing in the ledger.            *)
LEMMA GainsOfNewAccount ==
    ASSUME NEW rows \in Seq(Txn), NEW u
    PROVE  Total(Gains(rows, u, Len(rows))) = 0
<1>1. \A i \in 1..Len(rows) : rows[i].delta \in Int
  BY DeltaIsInt
<1>2. /\ Gains(rows, u, Len(rows)) \in Seq(Int)
      /\ Len(Gains(rows, u, Len(rows))) = Len(rows)
      /\ \A i \in 1..Len(rows) : Gains(rows, u, Len(rows))[i] = 0
  BY <1>1 DEF Gains
<1> QED
  BY <1>2, TotalOfZeros

-----------------------------------------------------------------------------
(* Type correctness.                                                       *)

(* Days are counted by naturals.                                           *)
LEMMA TodayIsNat == now \in Nat => Today \in Nat
<1>1. SUFFICES ASSUME now \in Nat PROVE Today \in Nat
  OBVIOUS
<1>2. /\ UtcStart + now \in Nat /\ DayLength \in Nat /\ DayLength > 0
  BY <1>1, AccountsAssumption
<1>3. \A a \in Nat, d \in Nat : d > 0 => a \div d \in Nat
  OBVIOUS
<1> QED
  BY <1>2, <1>3 DEF Today, Utc

(* apply_transaction writes well-formed rows and keeps balances natural.   *)
LEMMA ApplyTransactionType ==
    ASSUME txns \in Seq(Txn), balance \in [UserIds -> Nat], now \in Nat,
           NEW u \in UserIds, NEW delta \in Int, NEW reason \in Reasons,
           NEW ref \in Nat, ApplyTransaction(u, delta, reason, ref)
    PROVE  txns' \in Seq(Txn) /\ balance' \in [UserIds -> Nat]
<1> DEFINE row == [user |-> u, delta |-> delta, reason |-> reason,
                   ref |-> ref, day |-> Today]
<1>1. CASE Recorded(reason, ref)
  BY <1>1 DEF ApplyTransaction, ledgerVars
<1>2. CASE ~Recorded(reason, ref)
  <2>1. /\ txns' = Append(txns, row)
        /\ balance' = [balance EXCEPT ![u] = @ + delta]
        /\ ~(balance[u] + delta < 0)
    BY <1>2 DEF ApplyTransaction, Insufficient
  <2>2. row \in Txn
    BY TodayIsNat DEF Txn
  <2>3. txns' \in Seq(Txn)
    <3> HIDE DEF row
    <3> QED
      BY <2>1, <2>2
  <2>4. balance[u] + delta \in Nat
    BY <2>1
  <2> QED
    BY <2>1, <2>3, <2>4
<1> QED
  BY <1>1, <1>2

(* get_current_user keeps the columns of an account well-formed.           *)
LEMMA RequestType ==
    ASSUME AccountsTypeOK, NEW u \in UserIds, Request(u)
    PROVE  /\ users' = users /\ users' \subseteq UserIds
           /\ isAdmin' \in [UserIds -> BOOLEAN]
           /\ isPremium' \in [UserIds -> BOOLEAN]
           /\ premiumExpires' \in [UserIds -> Nat \cup {Never}]
           /\ storageLimit' \in [UserIds -> Nat]
<1>1. Lapsed(u) \in BOOLEAN /\ BaseQuota \in Nat
  BY AccountsAssumption DEF Lapsed
<1> QED
  BY <1>1 DEF AccountsTypeOK, Request, SettlePremium

(* A continuation that says "redeem" is one of a redeem; modules that add  *)
(* continuations of their own keep that.                                   *)
RedeemInHand == loop.at = "redeem" => loop \in RedeemContinuation

(* The ledger's own steps keep all columns well-formed, also where other   *)
(* components add steps and continuations.                                 *)
LEMMA LedgerStepType ==
    ASSUME LedgerTypeOK, RedeemInHand, TokenNext
    PROVE  /\ LedgerTypeOK'
           /\ loop' = loop \/ loop' \in {Idle} \cup RedeemContinuation
<1> USE DEF LedgerTypeOK
<1> DEFINE Goal == /\ LedgerTypeOK'
                   /\ loop' = loop \/ loop' \in {Idle} \cup RedeemContinuation
<1>1. ASSUME NEW u \in UserIds, Register(u) PROVE Goal
  <2>1. BaseQuota \in Nat /\ Len(txns) \in Nat
    BY AccountsAssumption
  <2> QED
    BY <1>1, <2>1 DEF Register, InsertUser, AccountsTypeOK, hostVars
<1>2. ASSUME NEW u \in UserIds, DeleteMe(u) PROVE Goal
  <2>1. BaseQuota \in Nat
    BY AccountsAssumption
  <2> QED
    BY <1>2, <2>1 DEF DeleteMe, RemoveUser, AccountsTypeOK, hostVars
<1>3. ASSUME NEW u \in UserIds, ReadOnlyRequest(u), UNCHANGED <<ledgerVars, epoch>>
      PROVE  Goal
  BY <1>3, RequestType DEF ReadOnlyRequest, AccountsTypeOK, hostVars, ledgerVars
<1>4. ASSUME NEW u \in UserIds, NEW key \in AdKeys, AdRewardGranted(u, key)
      PROVE  Goal
  <2>1. key \in Nat /\ AdReward \in Int /\ "ad_reward" \in Reasons /\ now \in Nat
    BY LedgerAssumption DEF Reasons, AccountsTypeOK
  <2>2. txns' \in Seq(Txn) /\ balance' \in [UserIds -> Nat]
    BY <1>4, <2>1, ApplyTransactionType DEF AdRewardGranted
  <2> QED
    BY <1>4, <2>2, RequestType
       DEF AdRewardGranted, ReadOnlyRequest, AccountsTypeOK, hostVars
<1>5. ASSUME NEW u \in UserIds, NEW gb \in RedeemSizes, RedeemCharge(u, gb)
      PROVE  Goal
  <2>1. /\ gb \in Nat /\ -(gb * TokensPerGb) \in Int /\ now \in Nat
        /\ "storage_redeem" \in Reasons /\ FreshRef \in Nat
    BY LedgerAssumption DEF Reasons, AccountsTypeOK, FreshRef
  <2>2. txns' \in Seq(Txn) /\ balance' \in [UserIds -> Nat]
    BY <1>5, <2>1, ApplyTransactionType DEF RedeemCharge
  <2>3. loop' \in RedeemContinuation /\ now' = now /\ setbacks' = setbacks
    BY <1>5, <2>1 DEF RedeemCharge, Suspend, RedeemContinuation
  <2> QED
    BY <1>5, <2>2, <2>3, RequestType DEF RedeemCharge, AccountsTypeOK
<1>6. CASE RedeemGrant
  <2>1. loop \in RedeemContinuation
    BY <1>6 DEF RedeemGrant, Resume, RedeemInHand
  <2>2. loop.user \in UserIds /\ loop.gb \in Nat
    BY <2>1 DEF RedeemContinuation
  <2>3. storageLimit' \in [UserIds -> Nat]
    BY <1>6, <2>2 DEF RedeemGrant, AccountsTypeOK
  <2> QED
    BY <1>6, <2>3 DEF RedeemGrant, Release, AccountsTypeOK, ledgerVars
<1>7. CASE TimePasses
  BY <1>7 DEF TimePasses, Tick, AccountsTypeOK, accountVars, ledgerVars
<1>8. CASE Crash \/ HandlerFails
  BY <1>8 DEF Crash, KillProcess, HandlerFails, CommitFails, Interrupt,
              AccountsTypeOK, accountVars, ledgerVars
<1>9. ASSUME NEW u \in UserIds, TokenRequest(u) PROVE Goal
  BY <1>3, <1>4, <1>5, <1>9
     DEF TokenRequest, AdRewardReplayed, AdRewardRefused, RedeemRefused
<1> QED
  BY <1>1, <1>2, <1>6, <1>7, <1>8, <1>9 DEF TokenNext

(* TokenTypeOK is inductive.                                               *)
LEMMA TypeInductive == TokenTypeOK /\ [TokenNext]_tokenVars => TokenTypeOK'
<1> SUFFICES ASSUME TokenTypeOK, [TokenNext]_tokenVars
             PROVE  TokenTypeOK'
  OBVIOUS
<1>1. CASE TokenNext
  BY <1>1, LedgerStepType DEF TokenTypeOK, RedeemInHand, Idle
<1>2. CASE UNCHANGED tokenVars
  BY <1>2 DEF TokenTypeOK, LedgerTypeOK, AccountsTypeOK, tokenVars,
              accountVars, hostVars, ledgerVars
<1> QED
  BY <1>1, <1>2

(* Every state of the ledger is well-formed; in particular no balance is   *)
(* ever negative and no row has an unknown reason.                         *)
THEOREM TypeCorrect == TokenSpec => []TokenTypeOK
<1>1. LedgerInit => TokenTypeOK
  BY AccountsAssumption
     DEF LedgerInit, AccountsInit, TokenTypeOK, LedgerTypeOK, AccountsTypeOK,
         UserIds, Idle
<1> QED
  BY <1>1, TypeInductive, PTL DEF TokenSpec

-----------------------------------------------------------------------------
(* The ledger and its cache.                                               *)

(* No two rows of the ledger have the same reason and ref_id.              *)
RefsAreUnique ==
    \A i, j \in DOMAIN txns :
        (txns[i].reason = txns[j].reason /\ txns[i].ref = txns[j].ref)
            => i = j

(* An account is not older than the rows that count for it.                *)
EpochsInLedger == \A u \in UserIds : epoch[u] <= Len(txns)

(* The part of the invariant that all components share: the sum of an      *)
(* account's rows changes with the ledger as its balance does only if a    *)
(* row that is appended lies after the epoch of the account.               *)
LedgerCore ==
    /\ LedgerTypeOK
    /\ RefsAreUnique
    /\ EpochsInLedger
    /\ BalanceIsLedgerSum

LedgerInv == TokenTypeOK /\ LedgerCore

(* apply_transaction keeps references unique and the cache in step.        *)
LEMMA ApplyTransactionLedger ==
    ASSUME LedgerCore, NEW u \in users, NEW delta \in Int,
           NEW reason \in Reasons, NEW ref \in Nat,
           ApplyTransaction(u, delta, reason, ref), users' = users, epoch' = epoch
    PROVE  RefsAreUnique' /\ EpochsInLedger' /\ BalanceIsLedgerSum'
<1> USE DEF LedgerCore, LedgerTypeOK
<1> DEFINE row == [user |-> u, delta |-> delta, reason |-> reason,
                   ref |-> ref, day |-> Today]
<1>1. CASE Recorded(reason, ref)
  <2>1. UNCHANGED <<txns, balance, users, epoch>>
    BY <1>1 DEF ApplyTransaction, ledgerVars
  <2> QED
    BY <2>1 DEF RefsAreUnique, EpochsInLedger, BalanceIsLedgerSum, LedgerSum
<1>2. CASE ~Recorded(reason, ref)
  <2>1. /\ txns' = Append(txns, row)
        /\ balance' = [balance EXCEPT ![u] = @ + delta]
    BY <1>2 DEF ApplyTransaction
  <2>2. row \in Txn /\ row.user = u /\ row.delta = delta
    BY TodayIsNat DEF Txn, AccountsTypeOK
  <2>3. /\ Len(txns) \in Nat /\ txns' \in Seq(Txn) /\ Len(txns') = Len(txns) + 1
        /\ txns'[Len(txns) + 1] = row
        /\ \A i \in 1..Len(txns) : txns'[i] = txns[i]
    <3> HIDE DEF row
    <3> QED
      BY <2>1, <2>2
  <2>4. RefsAreUnique'
    <3>1. ASSUME NEW i \in 1..Len(txns)
          PROVE  ~(txns[i].reason = reason /\ txns[i].ref = ref)
      BY <1>2 DEF Recorded
    <3>2. row.reason = reason /\ row.ref = ref
      OBVIOUS
    <3> HIDE DEF row
    <3>3. DOMAIN txns = 1..Len(txns) /\ DOMAIN txns' = 1..(Len(txns) + 1)
      BY <2>3
    <3>4. ASSUME NEW i \in DOMAIN txns', NEW j \in DOMAIN txns', i # j,
                 txns'[i].reason = txns'[j].reason, txns'[i].ref = txns'[j].ref
          PROVE  FALSE
      <4>1. CASE i \in DOMAIN txns /\ j \in DOMAIN txns
        <5>1. txns'[i] = txns[i] /\ txns'[j] = txns[j]
          BY <2>3, <3>3, <4>1
        <5> QED
          BY <3>4, <4>1, <5>1 DEF RefsAreUnique
      <4>2. CASE i = Len(txns) + 1
        <5>1. j \in 1..Len(txns) /\ txns'[j] = txns[j] /\ txns'[i] = row
          BY <2>3, <3>3, <3>4, <4>2
        <5> QED
          BY <3>1, <3>2, <3>4, <5>1
      <4>3. CASE j = Len(txns) + 1
        <5>1. i \in 1..Len(txns) /\ txns'[i] = txns[i] /\ txns'[j] = row
          BY <2>3, <3>3, <3>4, <4>3
        <5> QED
          BY <3>1, <3>2, <3>4, <5>1
      <4> QED
        BY <2>3, <3>3, <4>1, <4>2, <4>3
    <3> QED
      BY <3>4 DEF RefsAreUnique
  <2>5. EpochsInLedger'
    BY <2>3 DEF EpochsInLedger
  <2>6. BalanceIsLedgerSum'
    <3>1. SUFFICES ASSUME NEW v \in users
                   PROVE  balance'[v] = Total(Gains(txns', v, epoch[v]))
      BY DEF BalanceIsLedgerSum, LedgerSum
    <3>2. /\ v \in UserIds /\ epoch[v] \in Nat /\ epoch[v] <= Len(txns)
          /\ balance[v] = Total(Gains(txns, v, epoch[v]))
      BY DEF AccountsTypeOK, EpochsInLedger, BalanceIsLedgerSum, LedgerSum
    <3>3. Total(Gains(txns', v, epoch[v]))
            = Total(Gains(txns, v, epoch[v])) + IF row.user = v THEN row.delta ELSE 0
      <4> HIDE DEF row
      <4> QED
        BY <2>1, <2>2, <3>2, GainsAppend
    <3>4. balance'[v] = balance[v] + IF u = v THEN delta ELSE 0
      BY <2>1, <3>2 DEF AccountsTypeOK
    <3> QED
      BY <2>2, <3>2, <3>3, <3>4
  <2> QED
    BY <2>4, <2>5, <2>6
<1> QED
  BY <1>1, <1>2

(* A step that leaves the ledger and the set of accounts alone.            *)
LEMMA LedgerUntouched ==
    ASSUME LedgerCore, UNCHANGED <<users, txns, balance, epoch>>
    PROVE  RefsAreUnique' /\ EpochsInLedger' /\ BalanceIsLedgerSum'
  BY DEF LedgerCore, RefsAreUnique, EpochsInLedger, BalanceIsLedgerSum, LedgerSum

(* The ledger's own steps keep the ledger and its cache in step, also      *)
(* where other components add steps and continuations.                     *)
LEMMA LedgerStepCore ==
    ASSUME LedgerCore, RedeemInHand, TokenNext
    PROVE  LedgerCore'
<1> DEFINE Goal == RefsAreUnique' /\ EpochsInLedger' /\ BalanceIsLedgerSum'
<1>1. ASSUME NEW u \in UserIds, Register(u) PROVE Goal
  <2>1. /\ txns' = txns /\ users' = users \cup {u} /\ u \notin users
        /\ balance' = [balance EXCEPT ![u] = 0]
        /\ epoch' = [epoch EXCEPT ![u] = Len(txns)]
    BY <1>1 DEF Register, InsertUser, NextId, LedgerCore,
                LedgerTypeOK, AccountsTypeOK, UserIds
  <2>2. /\ txns \in Seq(Txn) /\ balance \in [UserIds -> Nat]
        /\ epoch \in [UserIds -> Nat] /\ users \subseteq UserIds
    BY DEF LedgerCore, LedgerTypeOK, AccountsTypeOK
  <2>3. RefsAreUnique'
    BY <2>1 DEF LedgerCore, RefsAreUnique
  <2>4. EpochsInLedger'
    BY <2>1, <2>2 DEF LedgerCore, EpochsInLedger
  <2>5. ASSUME NEW v \in users'
        PROVE  balance'[v] = Total(Gains(txns', v, epoch'[v]))
    <3>1. CASE v = u
      <4>1. balance'[v] = 0 /\ epoch'[v] = Len(txns)
        BY <2>1, <2>2, <3>1
      <4> QED
        BY <2>1, <2>2, <4>1, GainsOfNewAccount
    <3>2. CASE v # u
      <4>1. v \in users /\ balance'[v] = balance[v] /\ epoch'[v] = epoch[v]
        BY <2>1, <2>2, <3>2
      <4> QED
        BY <2>1, <4>1 DEF LedgerCore, BalanceIsLedgerSum, LedgerSum
    <3> QED
      BY <3>1, <3>2
  <2> QED
    BY <2>3, <2>4, <2>5 DEF BalanceIsLedgerSum, LedgerSum
<1>2. ASSUME NEW u \in UserIds, DeleteMe(u) PROVE Goal
  <2>1. /\ txns' = txns /\ users' = users \ {u}
        /\ balance' = [balance EXCEPT ![u] = 0]
        /\ epoch' = [epoch EXCEPT ![u] = 0]
    BY <1>2 DEF DeleteMe, RemoveUser
  <2>2. /\ balance \in [UserIds -> Nat] /\ epoch \in [UserIds -> Nat]
        /\ users \subseteq UserIds /\ Len(txns) \in Nat
    BY DEF LedgerCore, LedgerTypeOK, AccountsTypeOK
  <2>3. RefsAreUnique'
    BY <2>1 DEF LedgerCore, RefsAreUnique
  <2>4. EpochsInLedger'
    BY <2>1, <2>2 DEF LedgerCore, EpochsInLedger
  <2>5. \A v \in users' : v \in users /\ balance'[v] = balance[v] /\ epoch'[v] = epoch[v]
    BY <2>1, <2>2
  <2> QED
    BY <2>1, <2>3, <2>4, <2>5 DEF LedgerCore, BalanceIsLedgerSum, LedgerSum
<1>3. ASSUME NEW u \in UserIds, ReadOnlyRequest(u), UNCHANGED <<ledgerVars, epoch>>
      PROVE  Goal
  <2>1. UNCHANGED <<users, txns, balance, epoch>>
    BY <1>3 DEF ReadOnlyRequest, Request, SettlePremium, ledgerVars
  <2> QED
    BY <2>1, LedgerUntouched
<1>4. ASSUME NEW u \in UserIds, NEW key \in AdKeys, AdRewardGranted(u, key)
      PROVE  Goal
  <2>1. key \in Nat /\ AdReward \in Int /\ "ad_reward" \in Reasons
    BY LedgerAssumption DEF Reasons
  <2>2. u \in users /\ users' = users /\ epoch' = epoch
    BY <1>4 DEF AdRewardGranted, ReadOnlyRequest, Request, SettlePremium
  <2> QED
    BY <1>4, <2>1, <2>2, ApplyTransactionLedger DEF AdRewardGranted
<1>5. ASSUME NEW u \in UserIds, NEW gb \in RedeemSizes, RedeemCharge(u, gb)
      PROVE  Goal
  <2>1. /\ -(gb * TokensPerGb) \in Int /\ "storage_redeem" \in Reasons
        /\ FreshRef \in Nat
    BY LedgerAssumption
       DEF Reasons, FreshRef, LedgerCore, LedgerTypeOK
  <2>2. u \in users /\ users' = users /\ epoch' = epoch
    BY <1>5 DEF RedeemCharge, Request, SettlePremium
  <2> QED
    BY <1>5, <2>1, <2>2, ApplyTransactionLedger DEF RedeemCharge
<1>6. ASSUME RedeemGrant \/ TimePasses \/ Crash \/ HandlerFails
      PROVE  Goal
  <2>1. UNCHANGED <<users, txns, balance, epoch>>
    BY <1>6 DEF RedeemGrant, TimePasses, Crash, HandlerFails, accountVars, ledgerVars
  <2> QED
    BY <2>1, LedgerUntouched
<1>7. ASSUME NEW u \in UserIds, TokenRequest(u) PROVE Goal
  BY <1>3, <1>4, <1>5, <1>7
     DEF TokenRequest, AdRewardReplayed, AdRewardRefused, RedeemRefused
<1>8. Goal
  BY <1>1, <1>2, <1>6, <1>7 DEF TokenNext
<1> QED
  BY <1>8, LedgerStepType DEF LedgerCore

(* LedgerInv is inductive.                                                 *)
LEMMA LedgerInductive == LedgerInv /\ [TokenNext]_tokenVars => LedgerInv'
<1> SUFFICES ASSUME LedgerInv, [TokenNext]_tokenVars
             PROVE  LedgerInv'
  OBVIOUS
<1>1. TokenTypeOK'
  BY TypeInductive DEF LedgerInv
<1>2. CASE TokenNext
  BY <1>1, <1>2, LedgerStepCore
     DEF LedgerInv, TokenTypeOK, RedeemInHand, Idle
<1>3. CASE UNCHANGED tokenVars
  <2>1. UNCHANGED <<users, txns, balance, epoch>>
    BY <1>3 DEF tokenVars, accountVars, ledgerVars
  <2> QED
    BY <1>1, <2>1, LedgerUntouched DEF LedgerInv, LedgerCore, TokenTypeOK
<1> QED
  BY <1>2, <1>3

(* A ledger without rows is in step with its cache.                        *)
LEMMA LedgerInitially == LedgerInit => LedgerInv
<1> SUFFICES ASSUME LedgerInit PROVE LedgerInv
  OBVIOUS
<1>1. TokenTypeOK
  BY AccountsAssumption
     DEF LedgerInit, AccountsInit, TokenTypeOK, LedgerTypeOK, AccountsTypeOK,
         UserIds, Idle
<1>2. txns = <<>> /\ txns \in Seq(Txn) /\ Len(txns) = 0
  BY DEF LedgerInit
<1>3. \A u \in UserIds : balance[u] = 0 /\ epoch[u] = 0
  BY DEF LedgerInit
<1>4. users \subseteq UserIds
  BY <1>1 DEF TokenTypeOK, LedgerTypeOK, AccountsTypeOK
<1>5. BalanceIsLedgerSum
  BY <1>2, <1>3, <1>4, GainsOfNewAccount DEF BalanceIsLedgerSum, LedgerSum
<1>6. RefsAreUnique /\ EpochsInLedger
  BY <1>2, <1>3 DEF RefsAreUnique, EpochsInLedger
<1> QED
  BY <1>1, <1>5, <1>6 DEF LedgerInv, LedgerCore, TokenTypeOK

(* LedgerInv holds in every state.                                         *)
THEOREM LedgerInvariant == TokenSpec => []LedgerInv
  BY LedgerInitially, LedgerInductive, PTL DEF TokenSpec

(* The cached balance of every account is the sum of its ledger rows.      *)
THEOREM BalanceCorrect == TokenSpec => []BalanceIsLedgerSum
<1>1. LedgerInv => BalanceIsLedgerSum
  BY DEF LedgerInv, LedgerCore
<1> QED
  BY <1>1, LedgerInvariant, PTL

-----------------------------------------------------------------------------
(* What the ledger's own steps book.                                       *)

(* The rows of a ledger that was appended to.                              *)
LEMMA AppendedRows ==
    ASSUME txns \in Seq(Txn), NEW row \in Txn, txns' = Append(txns, row)
    PROVE  /\ Len(txns) \in Nat /\ DOMAIN txns = 1..Len(txns)
           /\ DOMAIN txns' = 1..(Len(txns) + 1) /\ Len(txns') = Len(txns) + 1
           /\ txns'[Len(txns) + 1] = row
           /\ \A i \in 1..Len(txns) : txns'[i] = txns[i]
  OBVIOUS

(* apply_transaction books its row, unless its reference is recorded.      *)
LEMMA ApplyTransactionBooks ==
    ASSUME LedgerTypeOK, NEW u \in UserIds, NEW delta \in Int,
           NEW reason \in Reasons, NEW ref \in Nat,
           ApplyTransaction(u, delta, reason, ref)
    PROVE  \/ Recorded(reason, ref) /\ txns' = txns /\ balance' = balance
           \/ /\ ~Recorded(reason, ref)
              /\ \E row \in Txn :
                    /\ txns' = Append(txns, row)
                    /\ row.user = u /\ row.delta = delta /\ row.reason = reason
                    /\ row.ref = ref /\ row.day = Today
<1> DEFINE row == [user |-> u, delta |-> delta, reason |-> reason,
                   ref |-> ref, day |-> Today]
<1>1. row \in Txn
  BY TodayIsNat DEF Txn, LedgerTypeOK, AccountsTypeOK
<1>2. CASE Recorded(reason, ref)
  BY <1>2 DEF ApplyTransaction, ledgerVars
<1>3. CASE ~Recorded(reason, ref)
  <2>1. txns' = Append(txns, row)
    BY <1>3 DEF ApplyTransaction
  <2>2. /\ row.user = u /\ row.delta = delta /\ row.reason = reason
        /\ row.ref = ref /\ row.day = Today
    OBVIOUS
  <2> HIDE DEF row
  <2> QED
    BY <1>1, <1>3, <2>1, <2>2
<1> QED
  BY <1>2, <1>3

OwnReasons == {"ad_reward", "storage_redeem"}

(* The ledger's own steps book adverts and redeemed storage.               *)
LEMMA OwnRows ==
    ASSUME LedgerTypeOK, TokenNext
    PROVE  \/ txns' = txns
           \/ \E row \in Txn : row.reason \in OwnReasons /\ txns' = Append(txns, row)
<1> DEFINE Goal == \/ txns' = txns
                   \/ \E row \in Txn : row.reason \in OwnReasons
                                       /\ txns' = Append(txns, row)
<1>1. ASSUME NEW u \in UserIds, NEW key \in AdKeys, AdRewardGranted(u, key)
      PROVE  Goal
  <2>1. key \in Nat /\ AdReward \in Int /\ "ad_reward" \in Reasons
    BY LedgerAssumption DEF Reasons
  <2> QED
    BY <1>1, <2>1, ApplyTransactionBooks DEF AdRewardGranted, OwnReasons
<1>2. ASSUME NEW u \in UserIds, NEW gb \in RedeemSizes, RedeemCharge(u, gb)
      PROVE  Goal
  <2>1. /\ -(gb * TokensPerGb) \in Int /\ "storage_redeem" \in Reasons
        /\ FreshRef \in Nat
    BY LedgerAssumption DEF Reasons, FreshRef, LedgerTypeOK
  <2> QED
    BY <1>2, <2>1, ApplyTransactionBooks DEF RedeemCharge, OwnReasons
<1>3. ASSUME NEW u \in UserIds, TokenRequest(u) PROVE Goal
  BY <1>1, <1>2, <1>3
     DEF TokenRequest, AdRewardReplayed, AdRewardRefused, RedeemRefused, ledgerVars
<1>4. ASSUME NEW u \in UserIds, Register(u) \/ DeleteMe(u) PROVE Goal
  BY <1>4 DEF Register, DeleteMe
<1>5. ASSUME RedeemGrant \/ TimePasses \/ Crash \/ HandlerFails PROVE Goal
  BY <1>5 DEF RedeemGrant, TimePasses, Crash, HandlerFails, ledgerVars
<1> QED
  BY <1>3, <1>4, <1>5 DEF TokenNext

-----------------------------------------------------------------------------
(* The daily limit of adverts.                                             *)

(* The limit holds for every day, not only for those that have rows.       *)
EveryDayCapped ==
    \A u \in UserIds : \A d \in Nat :
        Cardinality(AdRewardsOn(u, d)) <= AdDailyLimit

AdInv == TokenTypeOK /\ EveryDayCapped

(* A row that is no advert of u on day d adds nothing to u's adverts.      *)
LEMMA AdRewardsSame ==
    ASSUME LedgerTypeOK, NEW row \in Txn, txns' = Append(txns, row), NEW u, NEW d,
           ~(row.user = u /\ row.reason = "ad_reward" /\ row.day = d)
    PROVE  AdRewardsOn(u, d)' = AdRewardsOn(u, d)
<1>1. /\ Len(txns) \in Nat /\ DOMAIN txns = 1..Len(txns)
      /\ DOMAIN txns' = 1..(Len(txns) + 1) /\ txns'[Len(txns) + 1] = row
      /\ \A i \in 1..Len(txns) : txns'[i] = txns[i]
  BY AppendedRows DEF LedgerTypeOK
<1> QED
  BY <1>1 DEF AdRewardsOn

(* Part of a set with one more element.                                    *)
LEMMA PartOfOneMore ==
    ASSUME NEW n \in Nat, NEW A \in SUBSET (1..n), NEW x,
           NEW B \in SUBSET (A \cup {x})
    PROVE  /\ Cardinality(A) \in Nat /\ Cardinality(B) \in Nat
           /\ Cardinality(B) <= Cardinality(A) + 1
<1> DEFINE C == A \cup {x}
<1>1. IsFiniteSet(1..n)
  BY FS_Interval
<1>2. IsFiniteSet(A)
  BY <1>1, FS_Subset
<1>3. IsFiniteSet(C) /\ (Cardinality(C) = Cardinality(A)
                         \/ Cardinality(C) = Cardinality(A) + 1)
  BY <1>2, FS_AddElement
<1> HIDE DEF C
<1>4. IsFiniteSet(B) /\ Cardinality(B) <= Cardinality(C)
  BY <1>3, FS_Subset DEF C
<1>5. Cardinality(A) \in Nat /\ Cardinality(B) \in Nat /\ Cardinality(C) \in Nat
  BY <1>2, <1>3, <1>4, FS_CardinalityType
<1> QED
  BY <1>3, <1>4, <1>5

(* An advert is one more among u's adverts of the day.                     *)
LEMMA AdRewardsOneMore ==
    ASSUME LedgerTypeOK, NEW row \in Txn, txns' = Append(txns, row), NEW u, NEW d
    PROVE  /\ Cardinality(AdRewardsOn(u, d)) \in Nat
           /\ Cardinality(AdRewardsOn(u, d)') \in Nat
           /\ Cardinality(AdRewardsOn(u, d)') <= Cardinality(AdRewardsOn(u, d)) + 1
<1>1. /\ Len(txns) \in Nat /\ DOMAIN txns = 1..Len(txns)
      /\ DOMAIN txns' = 1..(Len(txns) + 1)
      /\ \A i \in 1..Len(txns) : txns'[i] = txns[i]
  BY AppendedRows DEF LedgerTypeOK
<1>2. /\ AdRewardsOn(u, d) \in SUBSET (1..Len(txns))
      /\ AdRewardsOn(u, d)' \in SUBSET (AdRewardsOn(u, d) \cup {Len(txns) + 1})
  BY <1>1 DEF AdRewardsOn
<1> QED
  BY <1>1, <1>2, PartOfOneMore

(* AdInv is inductive.                                                     *)
LEMMA AdInductive == AdInv /\ [TokenNext]_tokenVars => AdInv'
<1> SUFFICES ASSUME AdInv, [TokenNext]_tokenVars PROVE AdInv'
  OBVIOUS
<1>0. TokenTypeOK' /\ LedgerTypeOK /\ Today \in Nat /\ txns \in Seq(Txn)
  BY TypeInductive, TodayIsNat DEF AdInv, TokenTypeOK, LedgerTypeOK, AccountsTypeOK
<1> DEFINE Goal == EveryDayCapped'
<1>1. ASSUME UNCHANGED txns PROVE Goal
  BY <1>1 DEF AdInv, EveryDayCapped, AdRewardsOn
<1>2. ASSUME NEW u \in UserIds, NEW key \in AdKeys, AdRewardGranted(u, key)
      PROVE  Goal
  <2>1. /\ key \in Nat /\ AdReward \in Int /\ "ad_reward" \in Reasons
        /\ AdDailyLimit \in Nat
    BY LedgerAssumption DEF Reasons
  <2>2. Cardinality(AdRewardsOn(u, Today)) < AdDailyLimit
    BY <1>2 DEF AdRewardGranted
  <2>3. PICK row \in Txn : /\ txns' = Append(txns, row) /\ row.user = u
                           /\ row.reason = "ad_reward" /\ row.day = Today
    BY <1>0, <1>2, <2>1, ApplyTransactionBooks DEF AdRewardGranted
  <2>4. ASSUME NEW v \in UserIds, NEW d \in Nat
        PROVE  Cardinality(AdRewardsOn(v, d)') <= AdDailyLimit
    <3>1. Cardinality(AdRewardsOn(v, d)) <= AdDailyLimit
      BY DEF AdInv, EveryDayCapped
    <3>2. CASE v = u /\ d = Today
      <4>1. /\ Cardinality(AdRewardsOn(v, d)) \in Nat
            /\ Cardinality(AdRewardsOn(v, d)')
                  <= Cardinality(AdRewardsOn(v, d)) + 1
            /\ Cardinality(AdRewardsOn(v, d)') \in Nat
        BY <1>0, <2>3, AdRewardsOneMore
      <4> QED
        BY <2>1, <2>2, <3>2, <4>1
    <3>3. CASE ~(v = u /\ d = Today)
      BY <1>0, <2>3, <3>1, <3>3, AdRewardsSame
    <3> QED
      BY <3>2, <3>3
  <2> QED
    BY <2>4 DEF EveryDayCapped, AdRewardsOn
<1>3. ASSUME NEW u \in UserIds, NEW gb \in RedeemSizes, RedeemCharge(u, gb)
      PROVE  Goal
  <2>1. /\ -(gb * TokensPerGb) \in Int /\ "storage_redeem" \in Reasons
        /\ FreshRef \in Nat
    BY <1>0, LedgerAssumption DEF Reasons, FreshRef
  <2>2. CASE txns' = txns
    BY <1>1, <2>2
  <2>3. CASE txns' # txns
    <3>1. PICK row \in Txn : txns' = Append(txns, row) /\ row.reason = "storage_redeem"
      BY <1>0, <1>3, <2>1, <2>3, ApplyTransactionBooks DEF RedeemCharge
    <3>2. \A v \in UserIds, d \in Nat : AdRewardsOn(v, d)' = AdRewardsOn(v, d)
      BY <1>0, <3>1, AdRewardsSame
    <3> QED
      BY <3>2 DEF AdInv, EveryDayCapped, AdRewardsOn
  <2> QED
    BY <2>2, <2>3
<1>4. ASSUME NEW u \in UserIds, TokenRequest(u) PROVE Goal
  <2>1. ASSUME UNCHANGED ledgerVars PROVE Goal
    BY <1>1, <2>1 DEF ledgerVars
  <2> QED
    BY <1>2, <1>3, <1>4, <2>1
       DEF TokenRequest, AdRewardReplayed, AdRewardRefused, RedeemRefused
<1>5. ASSUME NEW u \in UserIds, Register(u) \/ DeleteMe(u) PROVE Goal
  BY <1>1, <1>5 DEF Register, DeleteMe
<1>6. ASSUME \/ RedeemGrant \/ TimePasses \/ Crash \/ HandlerFails
             \/ UNCHANGED tokenVars
      PROVE  Goal
  BY <1>1, <1>6 DEF RedeemGrant, TimePasses, Crash, HandlerFails, ledgerVars, tokenVars
<1>7. Goal
  BY <1>4, <1>5, <1>6 DEF TokenNext
<1> QED
  BY <1>0, <1>7 DEF AdInv

(* No id is credited more adverts a day than the limit, for any set of     *)
(* keys and any order of requests, repeats, kills and re-registrations.    *)
THEOREM AdLimitKept == TokenSpec => []AdDailyCap
<1>1. LedgerInit => AdInv
  <2> SUFFICES ASSUME LedgerInit PROVE AdInv
    OBVIOUS
  <2>1. TokenTypeOK
    BY AccountsAssumption
       DEF LedgerInit, AccountsInit, TokenTypeOK, LedgerTypeOK, AccountsTypeOK,
           UserIds, Idle
  <2>2. txns = <<>>
    BY DEF LedgerInit
  <2>3. \A u, d : AdRewardsOn(u, d) = {}
    BY <2>2 DEF AdRewardsOn
  <2>4. EveryDayCapped
    BY <2>3, FS_EmptySet, LedgerAssumption DEF EveryDayCapped
  <2> QED
    BY <2>1, <2>4 DEF AdInv
<1>2. AdInv => AdDailyCap
  <2> SUFFICES ASSUME AdInv, NEW u \in UserIds, NEW i \in DOMAIN txns
               PROVE  Cardinality(AdRewardsOn(u, txns[i].day)) <= AdDailyLimit
    BY DEF AdDailyCap
  <2>1. txns \in Seq(Txn)
    BY DEF AdInv, TokenTypeOK, LedgerTypeOK
  <2>2. txns[i] \in Txn
    BY <2>1
  <2>3. txns[i].day \in Nat
    BY <2>2, DayAndRefAreNat
  <2> QED
    BY <2>3 DEF AdInv, EveryDayCapped
<1> QED
  BY <1>1, <1>2, AdInductive, PTL DEF TokenSpec

-----------------------------------------------------------------------------
(* Storage.                                                                *)

(* What an account spent on storage is a number.                           *)
LEMMA StoragePaymentsAreInts ==
    ASSUME NEW rows \in Seq(Txn), NEW u, NEW from \in Nat
    PROVE  /\ StoragePayments(rows, u, from) \in Seq(Int)
           /\ Total(StoragePayments(rows, u, from)) \in Int
<1>1. \A i \in 1..Len(rows) : rows[i].delta \in Int
  BY DeltaIsInt
<1>2. StoragePayments(rows, u, from) \in Seq(Int) /\ 0 \in Int
  BY <1>1 DEF StoragePayments
<1> QED
  BY <1>2, TotalAppend

(* A redeem adds its price to what its user spent on storage; no other row *)
(* changes that of anybody.                                                *)
LEMMA StoragePaymentsAppend ==
    ASSUME NEW rows \in Seq(Txn), NEW t \in Txn, NEW u, NEW from \in Nat,
           from <= Len(rows)
    PROVE  Total(StoragePayments(Append(rows, t), u, from))
              = Total(StoragePayments(rows, u, from))
                  + IF t.user = u /\ t.reason = "storage_redeem"
                    THEN -t.delta ELSE 0
<1> DEFINE d == IF t.user = u /\ t.reason = "storage_redeem" THEN -t.delta ELSE 0
<1>1. StoragePayments(rows, u, from) \in Seq(Int) /\ d \in Int
  BY DeltaIsInt, StoragePaymentsAreInts
<1>2. StoragePayments(Append(rows, t), u, from)
        = Append(StoragePayments(rows, u, from), d)
  BY <1>1 DEF StoragePayments
<1> QED
  BY <1>1, <1>2, TotalAppend

(* An account that was just inserted spent nothing.                        *)
LEMMA StoragePaymentsOfNewAccount ==
    ASSUME NEW rows \in Seq(Txn), NEW u
    PROVE  Total(StoragePayments(rows, u, Len(rows))) = 0
<1>1. \A i \in 1..Len(rows) : rows[i].delta \in Int
  BY DeltaIsInt
<1>2. /\ StoragePayments(rows, u, Len(rows)) \in Seq(Int)
      /\ Len(StoragePayments(rows, u, Len(rows))) = Len(rows)
      /\ \A i \in 1..Len(rows) : StoragePayments(rows, u, Len(rows))[i] = 0
  BY <1>1 DEF StoragePayments
<1> QED
  BY <1>2, TotalOfZeros

(* Gigabytes that are charged for and not yet added to the limit.          *)
Promised(u) == IF loop.at = "redeem" /\ loop.user = u THEN loop.gb ELSE 0

(* The reference of a redeem is not one of an earlier redeem, or its       *)
(* charge would be taken for a repeat.                                     *)
RedeemRefsInLedger ==
    \A i \in DOMAIN txns :
        txns[i].reason = "storage_redeem" => txns[i].ref <= Len(txns)

(* Between the two commits of a redeem the promised gigabytes count as     *)
(* handed out.                                                             *)
StorageCovered ==
    \A u \in users :
        /\ storageLimit[u] >= BaseQuota
        /\ (storageLimit[u] + Promised(u) - BaseQuota) * TokensPerGb
                <= RedeemPaid(u)

StorageInv == TokenTypeOK /\ EpochsInLedger /\ RedeemRefsInLedger /\ StorageCovered

(* get_current_user leaves a limit as it is or resets it.                  *)
LEMMA RequestStorage ==
    ASSUME AccountsTypeOK, NEW u \in UserIds, Request(u), NEW v \in users
    PROVE  storageLimit'[v] = storageLimit[v] \/ storageLimit'[v] = BaseQuota
  BY DEF AccountsTypeOK, Request, SettlePremium

(* A covered limit stays covered when it is reset ...                      *)
LEMMA CoverAfterReset ==
    ASSUME NEW lim \in Nat, NEW new \in Nat, NEW q \in Nat, NEW price \in Nat,
           NEW paid \in Int, lim >= q, (lim - q) * price <= paid,
           new = lim \/ new = q
    PROVE  new >= q /\ (new - q) * price <= paid
<1>1. (lim - q) * price \in Nat
  BY SMT
<1> QED
  BY <1>1

(* ... and when gigabytes are promised for their price.                    *)
LEMMA CoverAfterCharge ==
    ASSUME NEW lim \in Nat, NEW gb \in Nat, NEW q \in Nat, NEW price \in Nat,
           NEW paid \in Int, lim >= q, (lim - q) * price <= paid
    PROVE  (lim + gb - q) * price <= paid + gb * price
<1>1. PICK k \in Nat : k = lim - q
  OBVIOUS
<1>2. k * price \in Int /\ gb * price \in Int /\ k * price <= paid
  BY <1>1
<1>3. (k + gb) * price = k * price + gb * price
  OBVIOUS
<1>4. lim + gb - q = k + gb
  BY <1>1
<1> QED
  BY <1>2, <1>3, <1>4

(* A limit that is covered with a promise is covered without it.           *)
LEMMA CoverWithoutPromise ==
    ASSUME NEW lim \in Nat, NEW gb \in Nat, NEW q \in Nat, NEW price \in Nat,
           NEW paid \in Int, lim >= q, (lim + gb - q) * price <= paid
    PROVE  (lim - q) * price <= paid
<1>1. PICK k \in Nat : k = lim - q
  OBVIOUS
<1>2. (k + gb) * price = k * price + gb * price
  OBVIOUS
<1>3. gb * price \in Nat /\ k * price \in Nat
  OBVIOUS
<1>4. lim + gb - q = k + gb
  BY <1>1
<1> QED
  BY <1>1, <1>2, <1>3, <1>4

(* A request that books nothing for storage keeps the limits covered.      *)
LEMMA StorageOtherRow ==
    ASSUME StorageInv, NEW u \in UserIds, Request(u), loop' = Idle, epoch' = epoch,
           \/ txns' = txns
           \/ \E row \in Txn : row.reason # "storage_redeem"
                               /\ txns' = Append(txns, row)
    PROVE  EpochsInLedger' /\ RedeemRefsInLedger' /\ StorageCovered'
<1>1. /\ LedgerTypeOK /\ AccountsTypeOK /\ txns \in Seq(Txn) /\ users' = users
      /\ loop = Idle /\ BaseQuota \in Nat /\ TokensPerGb \in Nat
  BY AccountsAssumption, LedgerAssumption
     DEF StorageInv, TokenTypeOK, LedgerTypeOK, Request, SettlePremium
<1>2. EpochsInLedger' /\ RedeemRefsInLedger'
  <2>1. CASE txns' = txns
    BY <2>1 DEF StorageInv, EpochsInLedger, RedeemRefsInLedger
  <2>2. ASSUME NEW row \in Txn, row.reason # "storage_redeem",
               txns' = Append(txns, row)
        PROVE  EpochsInLedger' /\ RedeemRefsInLedger'
    <3>1. EpochsInLedger'
      BY <1>1, <2>2, AppendedRows DEF StorageInv, EpochsInLedger, LedgerTypeOK
    <3>2. \A i \in DOMAIN txns : txns[i].ref \in Nat
      BY <1>1, DayAndRefAreNat
    <3>3. RedeemRefsInLedger'
      BY <1>1, <2>2, <3>2, AppendedRows DEF StorageInv, RedeemRefsInLedger
    <3> QED
      BY <3>1, <3>3
  <2> QED
    BY <2>1, <2>2
<1>3. ASSUME NEW v \in users
      PROVE  /\ storageLimit'[v] >= BaseQuota
             /\ (storageLimit'[v] + Promised(v)' - BaseQuota) * TokensPerGb
                    <= Total(StoragePayments(txns', v, epoch[v]))
  <2>1. /\ storageLimit'[v] = storageLimit[v] \/ storageLimit'[v] = BaseQuota
        /\ storageLimit[v] \in Nat /\ epoch[v] \in Nat /\ epoch[v] <= Len(txns)
    BY <1>1, RequestStorage
       DEF StorageInv, EpochsInLedger, LedgerTypeOK, AccountsTypeOK
  <2>2. Promised(v) = 0 /\ Promised(v)' = 0
    BY <1>1 DEF Promised, Idle
  <2>3. /\ storageLimit[v] >= BaseQuota
        /\ (storageLimit[v] - BaseQuota) * TokensPerGb
              <= Total(StoragePayments(txns, v, epoch[v]))
    BY <1>1, <2>1, <2>2 DEF StorageInv, StorageCovered, RedeemPaid
  <2>4. /\ Total(StoragePayments(txns, v, epoch[v])) \in Int
        /\ Total(StoragePayments(txns', v, epoch[v]))
              = Total(StoragePayments(txns, v, epoch[v]))
    <3>2. Total(StoragePayments(txns, v, epoch[v])) \in Int
      BY <1>1, <2>1, StoragePaymentsAreInts
    <3>3. ASSUME NEW row \in Txn, row.reason # "storage_redeem",
                 txns' = Append(txns, row)
          PROVE  Total(StoragePayments(txns', v, epoch[v]))
                   = Total(StoragePayments(txns, v, epoch[v]))
      BY <1>1, <2>1, <3>2, <3>3, StoragePaymentsAppend
    <3> QED
      BY <3>2, <3>3
  <2>5. /\ storageLimit'[v] \in Nat /\ storageLimit'[v] >= BaseQuota
        /\ (storageLimit'[v] - BaseQuota) * TokensPerGb
              <= Total(StoragePayments(txns, v, epoch[v]))
    <3> DEFINE old == storageLimit[v]
               new == storageLimit'[v]
               paid == Total(StoragePayments(txns, v, epoch[v]))
    <3>1. /\ old \in Nat /\ new \in Nat /\ BaseQuota \in Nat /\ paid \in Int
          /\ TokensPerGb \in Nat
      BY <1>1, <2>1, <2>4
    <3>2. /\ old >= BaseQuota /\ (old - BaseQuota) * TokensPerGb <= paid
          /\ new = old \/ new = BaseQuota
      BY <2>1, <2>3
    <3> HIDE DEF old, new, paid
    <3>3. new >= BaseQuota /\ (new - BaseQuota) * TokensPerGb <= paid
      BY <3>1, <3>2, CoverAfterReset
    <3> QED
      BY <3>1, <3>3 DEF new, paid
  <2> QED
    BY <1>1, <2>2, <2>4, <2>5
<1> QED
  BY <1>1, <1>2, <1>3 DEF StorageCovered, RedeemPaid

(* The charge of a redeem is covered by what it promises.                  *)
LEMMA StorageCharge ==
    ASSUME StorageInv, NEW u \in UserIds, NEW gb \in RedeemSizes, RedeemCharge(u, gb)
    PROVE  EpochsInLedger' /\ RedeemRefsInLedger' /\ StorageCovered'
<1>1. /\ LedgerTypeOK /\ AccountsTypeOK /\ txns \in Seq(Txn) /\ users' = users
      /\ loop = Idle /\ BaseQuota \in Nat /\ TokensPerGb \in Nat /\ gb \in Nat
      /\ epoch' = epoch /\ Len(txns) \in Nat
  BY AccountsAssumption, LedgerAssumption
     DEF StorageInv, TokenTypeOK, LedgerTypeOK, RedeemCharge, Request, SettlePremium
<1>2. loop' = [at |-> "redeem", user |-> u, gb |-> gb]
  BY DEF RedeemCharge, Suspend
<1> DEFINE price == gb * TokensPerGb
<1>3. price \in Int /\ -price \in Int /\ FreshRef = Len(txns) + 1 /\ FreshRef \in Nat
      /\ "storage_redeem" \in Reasons
  BY <1>1 DEF FreshRef, Reasons
<1>4. ~Recorded("storage_redeem", FreshRef)
  BY <1>1, <1>3 DEF StorageInv, RedeemRefsInLedger, Recorded
<1>5. ApplyTransaction(u, -price, "storage_redeem", FreshRef)
  BY DEF RedeemCharge
<1> HIDE DEF price
<1>6. PICK row \in Txn : /\ txns' = Append(txns, row) /\ row.user = u
                         /\ row.delta = -price /\ row.reason = "storage_redeem"
                         /\ row.ref = FreshRef
  BY <1>1, <1>3, <1>4, <1>5, ApplyTransactionBooks
<1>7. EpochsInLedger'
  BY <1>1, <1>6, AppendedRows DEF StorageInv, EpochsInLedger, LedgerTypeOK
<1>8. RedeemRefsInLedger'
  <2>1. \A i \in DOMAIN txns : txns[i].ref \in Nat
    BY <1>1, DayAndRefAreNat
  <2> QED
    BY <1>1, <1>3, <1>6, <2>1, AppendedRows DEF StorageInv, RedeemRefsInLedger
<1>9. ASSUME NEW v \in users
      PROVE  /\ storageLimit'[v] >= BaseQuota
             /\ (storageLimit'[v] + Promised(v)' - BaseQuota) * TokensPerGb
                    <= Total(StoragePayments(txns', v, epoch[v]))
  <2> DEFINE old == storageLimit[v]
             new == storageLimit'[v]
             before == Total(StoragePayments(txns, v, epoch[v]))
             after == Total(StoragePayments(txns', v, epoch[v]))
  <2>1. Request(u) /\ epoch[v] \in Nat /\ epoch[v] <= Len(txns)
    BY <1>1 DEF StorageInv, EpochsInLedger, LedgerTypeOK, AccountsTypeOK, RedeemCharge
  <2>2. Promised(v) = 0 /\ Promised(v)' = IF v = u THEN gb ELSE 0
    BY <1>1, <1>2 DEF Promised, Idle
  <2>3. old \in Nat /\ new \in Nat /\ before \in Int /\ (new = old \/ new = BaseQuota)
    BY <1>1, <2>1, RequestStorage, StoragePaymentsAreInts DEF AccountsTypeOK
  <2>4. old >= BaseQuota /\ (old - BaseQuota) * TokensPerGb <= before
    BY <1>1, <2>2, <2>3 DEF StorageInv, StorageCovered, RedeemPaid
  <2>5. after = before + IF v = u THEN price ELSE 0
    <3>1. after = before + IF row.user = v /\ row.reason = "storage_redeem"
                           THEN -row.delta ELSE 0
      BY <1>1, <1>6, <2>1, StoragePaymentsAppend
    <3> QED
      BY <1>3, <1>6, <2>3, <3>1
  <2> HIDE DEF old, new, before, after
  <2>6. new >= BaseQuota /\ (new - BaseQuota) * TokensPerGb <= before
    BY <1>1, <2>3, <2>4, CoverAfterReset
  <2>7. (new + gb - BaseQuota) * TokensPerGb <= before + gb * TokensPerGb
    BY <1>1, <2>3, <2>6, CoverAfterCharge
  <2>8. (new + (IF v = u THEN gb ELSE 0) - BaseQuota) * TokensPerGb <= after
    <3>1. CASE v = u
      BY <2>5, <2>7, <3>1 DEF price
    <3>2. CASE v # u
      <4>1. new + 0 - BaseQuota = new - BaseQuota /\ after = before
        BY <1>1, <2>3, <2>5, <3>2
      <4> QED
        BY <2>6, <3>2, <4>1
    <3> QED
      BY <3>1, <3>2
  <2> QED
    BY <2>2, <2>6, <2>8 DEF new, after
<1> QED
  BY <1>1, <1>7, <1>8, <1>9 DEF StorageCovered, RedeemPaid

(* A kill or a day that passes, and the second commit of a redeem, which   *)
(* adds to the limit what was promised.                                    *)
LEMMA StorageSettled ==
    ASSUME StorageInv, UNCHANGED <<users, txns, epoch>>,
           \A v \in users : \/ /\ storageLimit'[v] = storageLimit[v]
                                /\ Promised(v)' \in {0, Promised(v)}
                             \/ /\ storageLimit'[v] = storageLimit[v] + Promised(v)
                                /\ Promised(v)' = 0
    PROVE  EpochsInLedger' /\ RedeemRefsInLedger' /\ StorageCovered'
<1>1. EpochsInLedger' /\ RedeemRefsInLedger'
  BY DEF StorageInv, EpochsInLedger, RedeemRefsInLedger
<1>2. ASSUME NEW v \in users
      PROVE  /\ storageLimit'[v] >= BaseQuota
             /\ (storageLimit'[v] + Promised(v)' - BaseQuota) * TokensPerGb
                    <= Total(StoragePayments(txns, v, epoch[v]))
  <2> DEFINE old == storageLimit[v]
             new == storageLimit'[v]
             gb == Promised(v)
             later == Promised(v)'
             paid == Total(StoragePayments(txns, v, epoch[v]))
  <2>1. /\ old \in Nat /\ gb \in Nat /\ paid \in Int /\ BaseQuota \in Nat
        /\ TokensPerGb \in Nat
    BY AccountsAssumption, LedgerAssumption, StoragePaymentsAreInts
       DEF StorageInv, TokenTypeOK, LedgerTypeOK, AccountsTypeOK, Promised,
           RedeemContinuation, Idle
  <2>2. old >= BaseQuota /\ (old + gb - BaseQuota) * TokensPerGb <= paid
    BY DEF StorageInv, StorageCovered, RedeemPaid
  <2>3. \/ new = old /\ (later = 0 \/ later = gb)
        \/ new = old + gb /\ later = 0
    OBVIOUS
  <2> HIDE DEF old, new, gb, later, paid
  <2>4. new + later = old + gb \/ new + later = old
    BY <2>1, <2>3
  <2>5. new \in Nat /\ later \in Nat /\ new >= BaseQuota
    BY <2>1, <2>2, <2>3
  <2>6. (old - BaseQuota) * TokensPerGb <= paid
    BY <2>1, <2>2, CoverWithoutPromise
  <2>7. (new + later - BaseQuota) * TokensPerGb <= paid
    <3>1. CASE new + later = old + gb
      <4>1. new + later - BaseQuota = old + gb - BaseQuota
        BY <2>1, <2>5, <3>1
      <4> QED
        BY <2>2, <4>1, Zenon
    <3>2. CASE new + later = old
      <4>1. new + later - BaseQuota = old - BaseQuota
        BY <2>1, <2>5, <3>2
      <4> QED
        BY <2>6, <4>1, Zenon
    <3> QED
      BY <2>4, <3>1, <3>2
  <2> QED
    BY <2>5, <2>7 DEF new, later, paid
<1> QED
  BY <1>1, <1>2 DEF StorageCovered, RedeemPaid

(* StorageInv is inductive.                                                *)
LEMMA StorageInductive == StorageInv /\ [TokenNext]_tokenVars => StorageInv'
<1> SUFFICES ASSUME StorageInv, [TokenNext]_tokenVars PROVE StorageInv'
  OBVIOUS
<1> DEFINE Goal == EpochsInLedger' /\ RedeemRefsInLedger' /\ StorageCovered'
<1>0. /\ TokenTypeOK' /\ LedgerTypeOK /\ AccountsTypeOK /\ txns \in Seq(Txn)
      /\ users \subseteq UserIds /\ storageLimit \in [UserIds -> Nat]
      /\ epoch \in [UserIds -> Nat] /\ BaseQuota \in Nat /\ TokensPerGb \in Nat
  BY TypeInductive, AccountsAssumption, LedgerAssumption
     DEF StorageInv, TokenTypeOK, LedgerTypeOK, AccountsTypeOK
<1>1. ASSUME NEW u \in UserIds, Register(u) PROVE Goal
  <2>1. /\ txns' = txns /\ users' = users \cup {u} /\ loop = Idle /\ loop' = Idle
        /\ storageLimit' = [storageLimit EXCEPT ![u] = BaseQuota]
        /\ epoch' = [epoch EXCEPT ![u] = Len(txns)]
    BY <1>1 DEF Register, InsertUser, hostVars
  <2>2. EpochsInLedger' /\ RedeemRefsInLedger'
    BY <1>0, <2>1 DEF StorageInv, EpochsInLedger, RedeemRefsInLedger
  <2>3. ASSUME NEW v \in users'
        PROVE  /\ storageLimit'[v] >= BaseQuota
               /\ (storageLimit'[v] + Promised(v)' - BaseQuota) * TokensPerGb
                      <= Total(StoragePayments(txns', v, epoch'[v]))
    <3>1. Promised(v) = 0 /\ Promised(v)' = 0
      BY <2>1 DEF Promised, Idle
    <3>2. CASE v = u
      <4>1. storageLimit'[v] = BaseQuota /\ epoch'[v] = Len(txns)
        BY <1>0, <2>1, <3>2
      <4>2. Total(StoragePayments(txns', v, epoch'[v])) = 0
        BY <1>0, <2>1, <4>1, StoragePaymentsOfNewAccount
      <4>3. storageLimit'[v] + Promised(v)' - BaseQuota = 0
        BY <1>0, <3>1, <4>1
      <4> QED
        BY <1>0, <4>1, <4>2, <4>3
    <3>3. CASE v # u
      <4>1. v \in users /\ storageLimit'[v] = storageLimit[v] /\ epoch'[v] = epoch[v]
        BY <1>0, <2>1, <3>3
      <4> QED
        BY <2>1, <3>1, <4>1 DEF StorageInv, StorageCovered, RedeemPaid
    <3> QED
      BY <3>2, <3>3
  <2> QED
    BY <2>2, <2>3 DEF StorageCovered, RedeemPaid
<1>2. ASSUME NEW u \in UserIds, DeleteMe(u) PROVE Goal
  <2>1. /\ txns' = txns /\ users' = users \ {u} /\ loop' = loop
        /\ storageLimit' = [storageLimit EXCEPT ![u] = BaseQuota]
        /\ epoch' = [epoch EXCEPT ![u] = 0]
    BY <1>2 DEF DeleteMe, RemoveUser, hostVars
  <2>2. EpochsInLedger' /\ RedeemRefsInLedger'
    BY <1>0, <2>1 DEF StorageInv, EpochsInLedger, RedeemRefsInLedger
  <2>3. \A v \in users' : /\ v \in users /\ storageLimit'[v] = storageLimit[v]
                          /\ epoch'[v] = epoch[v] /\ Promised(v)' = Promised(v)
    BY <1>0, <2>1 DEF Promised
  <2> QED
    BY <2>1, <2>2, <2>3 DEF StorageInv, StorageCovered, RedeemPaid
<1>3. ASSUME NEW u \in UserIds, TokenRequest(u) PROVE Goal
  <2>1. ASSUME ReadOnlyRequest(u), UNCHANGED <<ledgerVars, epoch>> PROVE Goal
    BY <2>1, StorageOtherRow DEF ReadOnlyRequest, Request, hostVars, ledgerVars
  <2>2. ASSUME NEW key \in AdKeys, AdRewardGranted(u, key) PROVE Goal
    <3>1. key \in Nat /\ AdReward \in Int /\ "ad_reward" \in Reasons
      BY LedgerAssumption DEF Reasons
    <3>2. /\ Request(u) /\ loop' = Idle /\ epoch' = epoch
          /\ ApplyTransaction(u, AdReward, "ad_reward", key)
      BY <2>2 DEF AdRewardGranted, ReadOnlyRequest, Request, hostVars
    <3>3. \/ txns' = txns
          \/ \E row \in Txn : row.reason # "storage_redeem"
                              /\ txns' = Append(txns, row)
      BY <1>0, <3>1, <3>2, ApplyTransactionBooks
    <3> QED
      BY <3>2, <3>3, StorageOtherRow
  <2>3. ASSUME NEW gb \in RedeemSizes, RedeemCharge(u, gb) PROVE Goal
    BY <2>3, StorageCharge
  <2> QED
    BY <1>3, <2>1, <2>2, <2>3
       DEF TokenRequest, AdRewardReplayed, AdRewardRefused, RedeemRefused
<1>4. ASSUME RedeemGrant PROVE Goal
  <2>1. /\ UNCHANGED <<users, txns, epoch>> /\ loop.at = "redeem" /\ loop' = Idle
        /\ storageLimit' = [storageLimit EXCEPT ![loop.user] = @ + loop.gb]
    BY <1>4 DEF RedeemGrant, Resume, Release, ledgerVars
  <2>2. \A v \in users : /\ storageLimit'[v] = storageLimit[v] + Promised(v)
                         /\ Promised(v)' = 0
    BY <1>0, <2>1 DEF Promised, Idle
  <2> QED
    BY <2>1, <2>2, StorageSettled
<1>5. ASSUME TimePasses \/ Crash \/ HandlerFails \/ UNCHANGED tokenVars
      PROVE  Goal
  <2>1. /\ UNCHANGED <<users, txns, epoch, storageLimit>>
        /\ loop' = loop \/ loop' = Idle
    BY <1>5 DEF TimePasses, Tick, Crash, KillProcess, HandlerFails, CommitFails,
                Interrupt, tokenVars, accountVars, hostVars, ledgerVars
  <2>2. \A v \in users : /\ storageLimit'[v] = storageLimit[v]
                         /\ Promised(v)' \in {0, Promised(v)}
    BY <2>1 DEF Promised, Idle
  <2> QED
    BY <2>1, <2>2, StorageSettled
<1>6. Goal
  BY <1>1, <1>2, <1>3, <1>4, <1>5 DEF TokenNext
<1> QED
  BY <1>0, <1>6 DEF StorageInv

(* Storage above the initial quota was paid for, for any prices and sizes  *)
(* and wherever a redeem is refused, repeated or interrupted.              *)
THEOREM StorageBought == TokenSpec => []StorageIsPaidFor
<1>1. LedgerInit => StorageInv
  <2> SUFFICES ASSUME LedgerInit PROVE StorageInv
    OBVIOUS
  <2>1. TokenTypeOK
    BY AccountsAssumption
       DEF LedgerInit, AccountsInit, TokenTypeOK, LedgerTypeOK, AccountsTypeOK,
           UserIds, Idle
  <2>2. txns = <<>> /\ txns \in Seq(Txn) /\ Len(txns) = 0
    BY DEF LedgerInit
  <2>3. EpochsInLedger /\ RedeemRefsInLedger
    BY <2>2 DEF LedgerInit, EpochsInLedger, RedeemRefsInLedger
  <2>4. ASSUME NEW u \in users
        PROVE  /\ storageLimit[u] >= BaseQuota
               /\ (storageLimit[u] + Promised(u) - BaseQuota) * TokensPerGb
                      <= Total(StoragePayments(txns, u, epoch[u]))
    <3>1. /\ storageLimit[u] = BaseQuota /\ epoch[u] = Len(txns) /\ Promised(u) = 0
          /\ BaseQuota \in Nat /\ TokensPerGb \in Nat
      BY <2>1, <2>2, AccountsAssumption, LedgerAssumption
         DEF LedgerInit, AccountsInit, TokenTypeOK, LedgerTypeOK, AccountsTypeOK,
             Promised, Idle
    <3>2. Total(StoragePayments(txns, u, epoch[u])) = 0
      BY <2>2, <3>1, StoragePaymentsOfNewAccount
    <3>3. storageLimit[u] + Promised(u) - BaseQuota = 0
      BY <3>1
    <3> QED
      BY <3>1, <3>2, <3>3
  <2> QED
    BY <2>1, <2>3, <2>4 DEF StorageInv, StorageCovered, RedeemPaid
<1>2. StorageInv => StorageIsPaidFor
  <2> SUFFICES ASSUME StorageInv, NEW u \in users
               PROVE  (storageLimit[u] - BaseQuota) * TokensPerGb <= RedeemPaid(u)
    BY DEF StorageIsPaidFor
  <2> DEFINE old == storageLimit[u]
             gb == Promised(u)
             paid == RedeemPaid(u)
  <2>1. /\ old \in Nat /\ gb \in Nat /\ paid \in Int /\ BaseQuota \in Nat
        /\ TokensPerGb \in Nat
    BY AccountsAssumption, LedgerAssumption, StoragePaymentsAreInts
       DEF StorageInv, TokenTypeOK, LedgerTypeOK, AccountsTypeOK, Promised,
           RedeemContinuation, Idle, RedeemPaid
  <2>2. old >= BaseQuota /\ (old + gb - BaseQuota) * TokensPerGb <= paid
    BY DEF StorageInv, StorageCovered
  <2> HIDE DEF old, gb, paid
  <2> QED
    BY <2>1, <2>2, CoverWithoutPromise DEF old, paid
<1> QED
  BY <1>1, <1>2, StorageInductive, PTL DEF TokenSpec
=============================================================================
