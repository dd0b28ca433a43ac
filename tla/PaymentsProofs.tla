--------------------------- MODULE PaymentsProofs ---------------------------
(***************************************************************************)
(* What TLAPS proves of module Payments for every value of its constants:  *)
(* type correctness, that credits match payments, that an acknowledged     *)
(* webhook was booked, that a tariff reaches its buyer, and that a premium *)
(* is never shortened.                                                     *)
(***************************************************************************)
EXTENDS Payments, TokenLedgerProofs

-----------------------------------------------------------------------------
(* The inductive invariant.                                                *)

(* Payments settle in the past.                                            *)
SettledInPast == \A p \in Opened : kassa[p].on <= now

(* The date until which payment p has to have brought its buyer.           *)
PaidUntil(p) == LocalStart + kassa[p].on + Products[kassa[p].product].span

(* A suspended grant is of a payment that succeeded, to an account that    *)
(* exists: the one that polled, or for a webhook the buyer.                *)
GrantOK ==
    loop.at \in {"premium", "tokens"} =>
        /\ loop.pay \in Opened
        /\ kassa[loop.pay].status = "succeeded"
        /\ kassa[loop.pay].product = loop.product
        /\ loop.user \in users
        /\ loop.user \in {kassa[loop.pay].user} \cup seenBy[loop.pay]
        /\ loop.webhook => loop.user = kassa[loop.pay].user
        /\ loop.at = "premium" => IsTariff(loop.product)
        /\ loop.at = "tokens" /\ loop.webhook /\ IsTariff(loop.product) =>
               premiumExpires[loop.user] >= PaidUntil(loop.pay)

(* Every purchase in the ledger is that of a payment that succeeded, for   *)
(* who saw it or for the account that bought it.                           *)
PurchaseRowsOK ==
    \A i \in DOMAIN txns :
        txns[i].reason \in {"subscription", "token_purchase"} =>
            /\ txns[i].ref \in Opened
            /\ kassa[txns[i].ref].status = "succeeded"
            /\ txns[i].reason = PurchaseReason(kassa[txns[i].ref].product)
            /\ txns[i].delta = Products[kassa[txns[i].ref].product].tokens
            /\ txns[i].user \in {kassa[txns[i].ref].user} \cup seenBy[txns[i].ref]
            /\ txns[i].ref \notin orphaned => i > epoch[kassa[txns[i].ref].user]

(* A payment has an account of its buyer's id, or its buyer has left.      *)
BuyersKnown ==
    \A p \in Opened : kassa[p].user \in users \/ p \in orphaned

(* What was acknowledged had succeeded, is booked and reached its buyer.   *)
AckedOK ==
    /\ \A p \in acked : p \in Opened /\ kassa[p].status = "succeeded"
    /\ AckedMeansCredited
    /\ PremiumReachesBuyer

PayInv ==
    /\ LedgerCore
    /\ PayTypeOK
    /\ SettledInPast /\ GrantOK /\ PurchaseRowsOK /\ BuyersKnown /\ AckedOK

-----------------------------------------------------------------------------
(* Payments and rows.                                                      *)

KassaPayment == [user : UserIds, product : ProductIds, on : Nat,
                 status : {"pending", "succeeded", "canceled"}]

(* The types that the steps need.                                          *)
LEMMA PayTypes ==
    ASSUME PayTypeOK
    PROVE  /\ LedgerTypeOK /\ RedeemInHand
           /\ txns \in Seq(Txn) /\ Len(txns) \in Nat /\ DOMAIN txns = 1..Len(txns)
           /\ now \in Nat /\ users \subseteq UserIds
           /\ isAdmin \in [UserIds -> BOOLEAN] /\ isPremium \in [UserIds -> BOOLEAN]
           /\ premiumExpires \in [UserIds -> Nat \cup {Never}]
           /\ \A u \in UserIds : premiumExpires[u] \in Int
           /\ storageLimit \in [UserIds -> Nat]
           /\ balance \in [UserIds -> Nat] /\ epoch \in [UserIds -> Nat]
           /\ kassa \in Seq(KassaPayment) /\ Len(kassa) \in Nat
           /\ Opened = 1..Len(kassa) /\ Opened \subseteq PayIds
           /\ PayIds \subseteq Nat
           /\ \A p \in Opened : /\ kassa[p] \in KassaPayment
                                /\ kassa[p].user \in UserIds
                                /\ kassa[p].product \in ProductIds
                                /\ kassa[p].on \in Nat
                                /\ PaidUntil(p) \in Nat
           /\ \A q \in ProductIds : /\ Products[q].limit \in Nat
                                    /\ Products[q].span \in Nat
                                    /\ Products[q].tokens \in Nat
                                    /\ PurchaseReason(q) \in Reasons
           /\ UtcStart \in Nat /\ LocalStart \in Nat
<1>1. \A x \in KassaPayment : /\ x.user \in UserIds /\ x.product \in ProductIds
                              /\ x.on \in Nat
  BY DEF KassaPayment
<1>2. kassa \in Seq(KassaPayment) /\ Len(kassa) \in Nat /\ Opened = 1..Len(kassa)
  BY DEF PayTypeOK, KassaPayment, Opened
<1>3. \A p \in Opened : kassa[p] \in KassaPayment
  BY <1>2
<1>4. Opened \subseteq PayIds /\ PayIds \subseteq Nat
  BY <1>2, PaymentsAssumption DEF PayTypeOK, PayIds
<1>5. RedeemInHand
  BY DEF PayTypeOK, RedeemInHand, PayContinuation, GrantContinuation, Idle
<1>6. \A q \in ProductIds : /\ Products[q].limit \in Nat
                            /\ Products[q].span \in Nat
                            /\ Products[q].tokens \in Nat
                            /\ PurchaseReason(q) \in Reasons
  BY PaymentsAssumption DEF ProductIds, PurchaseReason, Reasons
<1>7. /\ LedgerTypeOK /\ txns \in Seq(Txn) /\ Len(txns) \in Nat
      /\ DOMAIN txns = 1..Len(txns)
  BY DEF PayTypeOK, LedgerTypeOK
<1>8. UtcStart \in Nat /\ LocalStart \in Nat
  BY AccountsAssumption
<1>9. \A p \in Opened : /\ kassa[p].user \in UserIds
                        /\ kassa[p].product \in ProductIds /\ kassa[p].on \in Nat
                        /\ PaidUntil(p) \in Nat
  BY <1>1, <1>3, <1>6, <1>8 DEF PaidUntil
<1>10. \A u \in UserIds : premiumExpires[u] \in Int
  BY DEF PayTypeOK, LedgerTypeOK, AccountsTypeOK, Never
<1> QED
  BY <1>2, <1>3, <1>4, <1>5, <1>6, <1>7, <1>8, <1>9, <1>10
     DEF PayTypeOK, LedgerTypeOK, AccountsTypeOK

(* What YooKassa holds only grows: payments are opened, pending ones       *)
(* settle, succeeded ones stay; and so does what is remembered of them.    *)
KassaGrows ==
    /\ Opened \subseteq Opened'
    /\ \A p \in Opened :
        /\ kassa'[p].user = kassa[p].user
        /\ kassa[p].status = "succeeded" => kassa'[p] = kassa[p]
    /\ orphaned \subseteq orphaned'
    /\ \A p \in PayIds : seenBy[p] \subseteq seenBy'[p]

(* An account that stays keeps its place in the ledger and the end of its  *)
(* premium or a later one.                                                 *)
AccountsStay ==
    \A u \in users \cap users' :
        /\ epoch'[u] = epoch[u]
        /\ premiumExpires'[u] >= premiumExpires[u]

(* A buyer that has not left by the end of a step was there throughout.    *)
LEMMA BuyersStay ==
    ASSUME BuyersKnown, BuyersKnown', KassaGrows, NEW p \in Opened, p \notin orphaned'
    PROVE  kassa[p].user \in users \cap users'
  BY DEF BuyersKnown, KassaGrows

(* Purchases stay booked and stay those of payments that succeeded.        *)
LEMMA PurchasesKept ==
    ASSUME PayTypeOK, PurchaseRowsOK, KassaGrows, AccountsStay,
           BuyersKnown, BuyersKnown',
           \/ txns' = txns
           \/ \E row \in Txn : /\ row.reason \notin {"subscription", "token_purchase"}
                               /\ txns' = Append(txns, row)
    PROVE  PurchaseRowsOK' /\ \A p : Credited(p) => Credited(p)'
<1>0. /\ txns \in Seq(Txn) /\ Len(txns) \in Nat /\ DOMAIN txns = 1..Len(txns)
      /\ Opened \subseteq PayIds
  BY PayTypes
<1> DEFINE Sound(i) ==
        txns'[i].reason \in {"subscription", "token_purchase"} =>
            /\ txns'[i].ref \in Opened'
            /\ kassa'[txns'[i].ref].status = "succeeded"
            /\ txns'[i].reason = PurchaseReason(kassa'[txns'[i].ref].product)
            /\ txns'[i].delta = Products[kassa'[txns'[i].ref].product].tokens
            /\ txns'[i].user \in {kassa'[txns'[i].ref].user} \cup seenBy'[txns'[i].ref]
            /\ txns'[i].ref \notin orphaned' => i > epoch'[kassa'[txns'[i].ref].user]
<1>1. ASSUME NEW i \in DOMAIN txns, txns'[i] = txns[i] PROVE Sound(i)
  <2> SUFFICES ASSUME txns[i].reason \in {"subscription", "token_purchase"}
               PROVE  Sound(i)
    BY <1>1
  <2>1. PICK p \in Opened : p = txns[i].ref
    BY DEF PurchaseRowsOK
  <2>2. /\ kassa[p].status = "succeeded" /\ kassa'[p] = kassa[p] /\ p \in Opened'
        /\ seenBy[p] \subseteq seenBy'[p]
    BY <1>0, <2>1 DEF PurchaseRowsOK, KassaGrows
  <2>3. p \notin orphaned' => i > epoch'[kassa[p].user]
    <3> SUFFICES ASSUME p \notin orphaned' PROVE i > epoch'[kassa[p].user]
      OBVIOUS
    <3>1. epoch'[kassa[p].user] = epoch[kassa[p].user]
      BY BuyersStay DEF AccountsStay
    <3>2. p \notin orphaned
      BY DEF KassaGrows
    <3> QED
      BY <2>1, <3>1, <3>2 DEF PurchaseRowsOK
  <2> QED
    BY <1>1, <2>1, <2>2, <2>3 DEF PurchaseRowsOK
<1>2. (\A i \in DOMAIN txns' : Sound(i)) => PurchaseRowsOK'
  BY DEF PurchaseRowsOK, PurchaseReason, IsTariff
<1> HIDE DEF Sound
<1>3. CASE txns' = txns
  <2>1. \A p : Credited(p) => Credited(p)'
    BY <1>3 DEF Credited, PurchaseRows
  <2> QED
    BY <1>1, <1>2, <1>3, <2>1
<1>4. ASSUME NEW row \in Txn, row.reason \notin {"subscription", "token_purchase"},
             txns' = Append(txns, row)
      PROVE  PurchaseRowsOK' /\ \A p : Credited(p) => Credited(p)'
  <2>1. /\ DOMAIN txns' = 1..(Len(txns) + 1) /\ txns'[Len(txns) + 1] = row
        /\ \A i \in 1..Len(txns) : txns'[i] = txns[i]
    BY <1>0, <1>4, AppendedRows
  <2>2. Sound(Len(txns) + 1)
    BY <1>4, <2>1 DEF Sound
  <2>3. \A i \in DOMAIN txns' : i \in DOMAIN txns \/ i = Len(txns) + 1
    BY <1>0, <2>1
  <2>4. PurchaseRowsOK'
    BY <1>0, <1>1, <1>2, <2>1, <2>2, <2>3
  <2>5. ASSUME NEW p, Credited(p) PROVE Credited(p)'
    <3>1. PICK i \in DOMAIN txns :
                  /\ txns[i].reason \in {"subscription", "token_purchase"}
                  /\ txns[i].ref = p
      BY <2>5 DEF Credited, PurchaseRows
    <3>2. i \in DOMAIN txns' /\ txns'[i] = txns[i]
      BY <1>0, <2>1
    <3> QED
      BY <3>1, <3>2 DEF Credited, PurchaseRows
  <2> QED
    BY <2>4, <2>5
<1> QED
  BY <1>3, <1>4

(* A webhook that was acknowledged stays credited, and its tariff stays    *)
(* with its buyer, if both hold when it is acknowledged.                   *)
LEMMA AckedKept ==
    ASSUME AckedOK, KassaGrows, AccountsStay, BuyersKnown, BuyersKnown',
           PayTypeOK, LedgerTypeOK',
           \A p : Credited(p) => Credited(p)',
           \A p \in acked' \ acked :
              /\ p \in Opened /\ kassa[p].status = "succeeded"
              /\ \/ p \in orphaned'
                 \/ /\ Credited(p)'
                    /\ IsTariff(kassa[p].product) =>
                          premiumExpires'[kassa[p].user] >= PaidUntil(p)
    PROVE  AckedOK'
<1>1. ASSUME NEW p \in acked'
      PROVE  p \in Opened /\ kassa[p].status = "succeeded" /\ kassa'[p] = kassa[p]
  BY <1>1 DEF AckedOK, KassaGrows
<1>2. \A p \in acked' : p \in Opened' /\ kassa'[p].status = "succeeded"
  BY <1>1 DEF KassaGrows
<1>3. AckedMeansCredited'
  BY DEF AckedOK, AckedMeansCredited, KassaGrows
<1>4. PremiumReachesBuyer'
  <2>1. SUFFICES ASSUME NEW p \in acked' \ orphaned', IsTariff(kassa[p].product)
                 PROVE  premiumExpires'[kassa[p].user] >= PaidUntil(p)
    BY <1>1 DEF PremiumReachesBuyer, IsTariff, PaidUntil
  <2>2. CASE p \notin acked
    BY <2>1, <2>2
  <2>3. CASE p \in acked
    <3>1. p \notin orphaned /\ p \in Opened
      BY <1>1, <2>3 DEF KassaGrows
    <3>2. premiumExpires[kassa[p].user] >= PaidUntil(p)
      BY <2>1, <2>3, <3>1 DEF AckedOK, PremiumReachesBuyer, PaidUntil
    <3>3. premiumExpires'[kassa[p].user] >= premiumExpires[kassa[p].user]
      BY <3>1, BuyersStay DEF AccountsStay
    <3>4. /\ premiumExpires[kassa[p].user] \in Int /\ PaidUntil(p) \in Int
          /\ premiumExpires'[kassa[p].user] \in Int
      BY <3>1, PayTypes DEF LedgerTypeOK, AccountsTypeOK, Never
    <3> QED
      BY <3>2, <3>3, <3>4
  <2> QED
    BY <2>2, <2>3
<1> QED
  BY <1>2, <1>3, <1>4 DEF AckedOK

-----------------------------------------------------------------------------
(* Steps that concern no payment.                                          *)

(* What one step does to a running premium.                                *)
PremiumKept ==
    \A u \in users \cap users' :
        isPremium[u] /\ premiumExpires[u] # Never /\ premiumExpires[u] >= Utc
            => /\ premiumExpires'[u] >= premiumExpires[u]
               /\ \/ isPremium'[u]
                  \/ \E a \in UserIds : AdminSetsPremium(a, u, FALSE)

(* get_current_user only ends a premium whose last instant has passed.     *)
LEMMA RequestPremium ==
    ASSUME AccountsTypeOK, NEW u \in UserIds, Request(u)
    PROVE  PremiumKept /\ premiumExpires' = premiumExpires
<1>1. /\ isPremium \in [UserIds -> BOOLEAN] /\ users \subseteq UserIds
      /\ premiumExpires \in [UserIds -> Nat \cup {Never}] /\ Utc \in Int
      /\ isPremium' = [isPremium EXCEPT ![u] = isPremium[u] /\ ~Lapsed(u)]
      /\ UNCHANGED <<users, isAdmin, premiumExpires>>
  BY AccountsAssumption DEF AccountsTypeOK, Request, SettlePremium, Utc
<1>2. ASSUME NEW v \in users, isPremium[v], premiumExpires[v] >= Utc
      PROVE  isPremium'[v]
  <2>1. ~(Utc > premiumExpires[v])
    BY <1>1, <1>2 DEF Never
  <2> QED
    BY <1>1, <1>2, <2>1 DEF Lapsed
<1>3. \A v \in users : premiumExpires'[v] >= premiumExpires[v]
  BY <1>1 DEF Never
<1> QED
  BY <1>1, <1>2, <1>3 DEF PremiumKept

(* All steps of the ledger and the accounts leave premium to those who     *)
(* have it, and a place in the ledger too.                                 *)
LEMMA OutsidePremium ==
    ASSUME LedgerTypeOK, TokenNext
    PROVE  PremiumKept /\ AccountsStay
<1> DEFINE Goal == PremiumKept /\ AccountsStay
<1>0. /\ isPremium \in [UserIds -> BOOLEAN] /\ users \subseteq UserIds
      /\ premiumExpires \in [UserIds -> Nat \cup {Never}]
      /\ \A v \in users : premiumExpires[v] \in Int
      /\ epoch \in [UserIds -> Nat]
  BY DEF LedgerTypeOK, AccountsTypeOK, Never
<1>1. ASSUME UNCHANGED <<users, isPremium, premiumExpires, epoch>> PROVE Goal
  <2>1. \A v \in users \cap users' : premiumExpires'[v] >= premiumExpires[v]
    BY <1>0, <1>1
  <2> QED
    BY <1>1, <2>1 DEF PremiumKept, AccountsStay
<1>2. ASSUME \A v \in users \cap users' : /\ isPremium'[v] = isPremium[v]
                                          /\ premiumExpires'[v] = premiumExpires[v]
                                          /\ epoch'[v] = epoch[v]
      PROVE  Goal
  <2>1. \A v \in users \cap users' : premiumExpires'[v] >= premiumExpires[v]
    BY <1>0, <1>2
  <2> QED
    BY <1>2, <2>1 DEF PremiumKept, AccountsStay
<1>3. ASSUME NEW u \in UserIds, Register(u) PROVE Goal
  <2>1. /\ u \notin users
        /\ isPremium' = [isPremium EXCEPT ![u] = FALSE]
        /\ premiumExpires' = [premiumExpires EXCEPT ![u] = Never]
        /\ epoch' = [epoch EXCEPT ![u] = Len(txns)]
    BY <1>0, <1>3 DEF Register, InsertUser, NextId, UserIds
  <2> QED
    BY <1>0, <1>2, <2>1
<1>4. ASSUME NEW u \in UserIds, DeleteMe(u) PROVE Goal
  <2>1. /\ users' = users \ {u}
        /\ isPremium' = [isPremium EXCEPT ![u] = FALSE]
        /\ premiumExpires' = [premiumExpires EXCEPT ![u] = Never]
        /\ epoch' = [epoch EXCEPT ![u] = 0]
    BY <1>4 DEF DeleteMe, RemoveUser
  <2> QED
    BY <1>0, <1>2, <2>1
<1>5. ASSUME NEW u \in UserIds, TokenRequest(u) PROVE Goal
  <2>1. Request(u) /\ epoch' = epoch
    BY <1>5 DEF TokenRequest, ReadOnlyRequest, AdRewardReplayed, AdRewardRefused,
                AdRewardGranted, RedeemRefused, RedeemCharge
  <2>2. PremiumKept /\ premiumExpires' = premiumExpires
    BY <2>1, RequestPremium DEF LedgerTypeOK
  <2> QED
    BY <1>0, <2>1, <2>2 DEF AccountsStay
<1>6. ASSUME RedeemGrant \/ TimePasses \/ Crash \/ HandlerFails PROVE Goal
  BY <1>1, <1>6 DEF RedeemGrant, TimePasses, Crash, HandlerFails, accountVars
<1> QED
  BY <1>3, <1>4, <1>5, <1>6 DEF TokenNext

(* The clock does not go back.                                             *)
LEMMA OutsideClock ==
    ASSUME LedgerTypeOK, TokenNext
    PROVE  now' \in Nat /\ now' >= now
<1>1. now' = now \/ now' = now + 1
  BY DEF TokenNext, Register, InsertUser, DeleteMe, RemoveUser, TokenRequest,
         ReadOnlyRequest, AdRewardReplayed, AdRewardRefused, AdRewardGranted,
         RedeemRefused, RedeemCharge, RedeemGrant, TimePasses, Tick, Crash,
         KillProcess, HandlerFails, CommitFails, Interrupt, Suspend, Release, hostVars
<1> QED
  BY <1>1 DEF LedgerTypeOK, AccountsTypeOK

(* A suspended grant stays suspended, with its account in place, or is     *)
(* dropped by a kill or a failed commit.                                   *)
LEMMA OutsideGrant ==
    ASSUME PayInv, TokenNext
    PROVE  /\ loop' \in {Idle} \cup RedeemContinuation \cup PayContinuation
           /\ loop'.at \in {"premium", "tokens"} =>
                 loop' = loop /\ UNCHANGED <<users, premiumExpires>>
<1>1. LedgerTypeOK /\ RedeemInHand
  BY PayTypes DEF PayInv
<1>2. loop' = loop \/ loop' \in {Idle} \cup RedeemContinuation
  BY <1>1, LedgerStepType
<1>3. loop' = Idle \/ UNCHANGED <<users, premiumExpires>>
  BY DEF TokenNext, Register, InsertUser, DeleteMe, RemoveUser, TokenRequest,
         ReadOnlyRequest, Request, SettlePremium, AdRewardReplayed,
         AdRewardRefused, AdRewardGranted, RedeemRefused, RedeemCharge,
         RedeemGrant, TimePasses, Crash, HandlerFails, accountVars, hostVars
<1> QED
  BY <1>2, <1>3 DEF RedeemContinuation, Idle, PayInv, PayTypeOK

(* They keep the invariant.                                                *)
LEMMA OutsidePayments ==
    ASSUME PayInv, TokenNext,
           UNCHANGED <<kassa, acked, redelivered, premiumGrants, seenBy>>,
           payRow' \in [PayIds -> {"absent", "pending", "succeeded", "canceled"}],
           orphaned' \subseteq PayIds, orphaned \subseteq orphaned',
           \A p \in Opened : kassa[p].user \in users =>
               kassa[p].user \in users' \/ p \in orphaned'
    PROVE  PayInv' /\ PremiumKept
<1>1. /\ LedgerTypeOK /\ RedeemInHand /\ LedgerCore /\ PayTypeOK /\ KassaGrows
      /\ Opened' = Opened
  BY PayTypes DEF PayInv, KassaGrows, Opened
<1>2. LedgerCore' /\ LedgerTypeOK'
  BY <1>1, LedgerStepCore DEF LedgerCore
<1>3. PayTypeOK'
  BY <1>1, <1>2, OutsideGrant DEF PayTypeOK
<1>4. \/ txns' = txns
      \/ \E row \in Txn : /\ row.reason \notin {"subscription", "token_purchase"}
                          /\ txns' = Append(txns, row)
  BY <1>1, OwnRows DEF OwnReasons
<1>5. PremiumKept /\ AccountsStay
  BY <1>1, OutsidePremium
<1>6. BuyersKnown'
  BY <1>1 DEF PayInv, BuyersKnown
<1>7. PurchaseRowsOK' /\ \A p : Credited(p) => Credited(p)'
  BY <1>1, <1>4, <1>5, <1>6, PurchasesKept DEF PayInv
<1>8. GrantOK'
  BY <1>1, OutsideGrant DEF PayInv, GrantOK, IsTariff, PaidUntil
<1>9. AckedOK'
  BY <1>1, <1>2, <1>5, <1>6, <1>7, AckedKept DEF PayInv
<1>10. SettledInPast'
  <2>1. \A p \in Opened : kassa[p].on \in Nat /\ kassa[p].on <= now
    BY PayTypes DEF PayInv, SettledInPast
  <2>2. now \in Nat /\ now' \in Nat /\ now' >= now
    BY <1>1, OutsideClock, PayTypes
  <2> QED
    BY <1>1, <2>1, <2>2 DEF SettledInPast
<1> QED
  BY <1>2, <1>3, <1>5, <1>6, <1>7, <1>8, <1>9, <1>10 DEF PayInv

-----------------------------------------------------------------------------
(* The steps of payments.                                                  *)

(* A handler of payments that books nothing: the ledger is as it was, and  *)
(* premium changes at most by a lapse.                                     *)
LEMMA PayBooksNothing ==
    ASSUME PayInv, UNCHANGED <<ledgerVars, epoch, now, setbacks>>,
           UNCHANGED accountVars \/ \E u \in UserIds : Request(u)
    PROVE  /\ LedgerCore' /\ LedgerTypeOK' /\ PremiumKept /\ AccountsStay
           /\ users' = users /\ txns' = txns /\ premiumExpires' = premiumExpires
<1>1. users' = users /\ UNCHANGED <<txns, balance, epoch>>
  BY DEF accountVars, ledgerVars, Request, SettlePremium
<1>2. LedgerTypeOK'
  <2>1. CASE UNCHANGED accountVars
    BY <2>1 DEF PayInv, LedgerCore, LedgerTypeOK, AccountsTypeOK, accountVars, ledgerVars
  <2>2. ASSUME NEW u \in UserIds, Request(u) PROVE LedgerTypeOK'
    BY <2>2, RequestType
       DEF PayInv, LedgerCore, LedgerTypeOK, AccountsTypeOK, ledgerVars
  <2> QED
    BY <2>1, <2>2
<1>3. LedgerCore'
  BY <1>1, <1>2, LedgerUntouched DEF PayInv, LedgerCore
<1>4. PremiumKept /\ premiumExpires' = premiumExpires
  <2>1. CASE UNCHANGED accountVars
    <3>1. UNCHANGED <<users, isPremium, premiumExpires>>
      BY <2>1 DEF accountVars
    <3>2. \A v \in users : premiumExpires'[v] >= premiumExpires[v]
      BY <3>1, PayTypes DEF PayInv
    <3> QED
      BY <3>1, <3>2 DEF PremiumKept
  <2>2. ASSUME NEW u \in UserIds, Request(u)
        PROVE  PremiumKept /\ premiumExpires' = premiumExpires
    BY <2>2, RequestPremium DEF PayInv, LedgerCore, LedgerTypeOK
  <2> QED
    BY <2>1, <2>2
<1>5. AccountsStay
  BY <1>1, <1>4, PayTypes DEF AccountsStay, PayInv
<1> QED
  BY <1>1, <1>2, <1>3, <1>4, <1>5

(* What such a step leaves of the invariant, if it opens, settles or       *)
(* acknowledges payments as the lemmas below say.                          *)
LEMMA PayBooksKept ==
    ASSUME PayInv, UNCHANGED <<ledgerVars, epoch, now, setbacks>>,
           UNCHANGED accountVars \/ \E u \in UserIds : Request(u),
           KassaGrows, BuyersKnown',
           \A p \in acked' \ acked : /\ p \in Opened /\ kassa[p].status = "succeeded"
                                     /\ p \in orphaned'
    PROVE  PurchaseRowsOK' /\ AckedOK'
<1>1. /\ LedgerTypeOK' /\ AccountsStay /\ txns' = txns
  BY PayBooksNothing
<1>2. PurchaseRowsOK' /\ \A p : Credited(p) => Credited(p)'
  BY <1>1, PurchasesKept DEF PayInv
<1> QED
  BY <1>1, <1>2, AckedKept DEF PayInv

(* A new payment is pending and its buyer exists.                          *)
LEMMA CreatePaymentKeeps ==
    ASSUME PayInv, NEW u \in UserIds, NEW q \in ProductIds, CreatePayment(u, q)
    PROVE  PayInv' /\ PremiumKept
<1>1. /\ Request(u) /\ u \in users /\ loop' = [at |-> "record", pay |-> Len(kassa) + 1]
      /\ UNCHANGED <<ledgerVars, epoch, now, setbacks, payRow, acked, redelivered,
                     premiumGrants, orphaned, seenBy>>
  BY DEF CreatePayment, Request, Suspend, payHistory
<1>2. PICK n \in Nat : n = Len(kassa) + 1 /\ n \in PayIds
  BY PayTypes, PaymentsAssumption DEF PayInv, CreatePayment, PayIds
<1>3. PICK row \in KassaPayment : /\ kassa' = Append(kassa, row) /\ row.user = u
                                  /\ row.on = 0
  <2> DEFINE r == [user |-> u, product |-> q, on |-> 0, status |-> "pending"]
  <2>1. r \in KassaPayment /\ r.user = u /\ r.on = 0 /\ kassa' = Append(kassa, r)
    BY DEF KassaPayment, CreatePayment
  <2> HIDE DEF r
  <2> QED
    BY <2>1
<1>4. /\ kassa' \in Seq(KassaPayment) /\ Len(kassa') = n /\ Opened' = Opened \cup {n}
      /\ kassa'[n] = row /\ \A p \in Opened : kassa'[p] = kassa[p]
      /\ Len(kassa') <= MaxPayments
  <2>1. /\ kassa \in Seq(KassaPayment) /\ Len(kassa) \in Nat /\ Opened = 1..Len(kassa)
    BY PayTypes DEF PayInv
  <2>2. kassa' \in Seq(KassaPayment) /\ Len(kassa') = n /\ DOMAIN kassa' = 1..n
    BY <1>2, <1>3, <2>1
  <2> QED
    BY <1>2, <1>3, <2>1, <2>2 DEF Opened, PayIds
<1>5. KassaGrows
  BY <1>1, <1>4 DEF KassaGrows
<1>6. LedgerCore' /\ LedgerTypeOK' /\ users' = users /\ PremiumKept
  BY <1>1, PayBooksNothing
<1>7. PayTypeOK'
  <2>1. loop' \in PayContinuation
    BY <1>1, <1>2 DEF PayContinuation
  <2> QED
    BY <1>1, <1>4, <1>6, <2>1 DEF PayInv, PayTypeOK, KassaPayment
<1>8. SettledInPast' /\ GrantOK'
  BY <1>1, <1>3, <1>4, PayTypes DEF PayInv, SettledInPast, GrantOK
<1>9. BuyersKnown'
  BY <1>1, <1>3, <1>4, <1>6 DEF PayInv, BuyersKnown
<1>10. PurchaseRowsOK' /\ AckedOK'
  BY <1>1, <1>5, <1>9, PayBooksKept
<1> QED
  BY <1>6, <1>7, <1>8, <1>9, <1>10 DEF PayInv

(* YooKassa settles only what is pending.                                  *)
LEMMA KassaSettlesKeeps ==
    ASSUME PayInv, NEW p \in Opened, NEW status \in {"succeeded", "canceled"},
           KassaSettles(p, status)
    PROVE  PayInv' /\ PremiumKept
<1>1. /\ UNCHANGED <<accountVars, ledgerVars, epoch, now, setbacks, loop, payRow, acked,
                     redelivered, premiumGrants, orphaned, seenBy>>
      /\ kassa[p].status = "pending"
  BY DEF KassaSettles, tokenVars, hostVars, payHistory
<1>2. PICK row \in KassaPayment : /\ kassa' = [kassa EXCEPT ![p] = row]
                                  /\ row.user = kassa[p].user
                                  /\ row.on = now
  <2> DEFINE r == [kassa[p] EXCEPT !.status = status, !.on = now]
  <2>1. kassa[p] \in KassaPayment /\ now \in Nat
    BY PayTypes DEF PayInv
  <2>2. r \in KassaPayment /\ r.user = kassa[p].user /\ r.on = now
    BY <2>1 DEF KassaPayment
  <2>3. kassa' = [kassa EXCEPT ![p] = r]
    BY DEF KassaSettles
  <2> HIDE DEF r
  <2> QED
    BY <2>2, <2>3
<1>3. /\ kassa' \in Seq(KassaPayment) /\ Len(kassa') = Len(kassa) /\ Opened' = Opened
      /\ kassa'[p] = row /\ \A o \in Opened \ {p} : kassa'[o] = kassa[o]
  <2>1. /\ kassa \in Seq(KassaPayment) /\ Len(kassa) \in Nat /\ Opened = 1..Len(kassa)
    BY PayTypes DEF PayInv
  <2>2. kassa' \in Seq(KassaPayment) /\ Len(kassa') = Len(kassa)
        /\ DOMAIN kassa' = 1..Len(kassa)
    BY <1>2, <2>1
  <2> QED
    BY <1>2, <2>1, <2>2 DEF Opened
<1>4. KassaGrows
  BY <1>1, <1>2, <1>3 DEF KassaGrows
<1>5. LedgerCore' /\ LedgerTypeOK' /\ users' = users /\ PremiumKept
  BY <1>1, PayBooksNothing
<1>6. PayTypeOK'
  BY <1>1, <1>3, <1>5 DEF PayInv, PayTypeOK, KassaPayment
<1>7. SettledInPast'
  BY <1>1, <1>2, <1>3, PayTypes DEF PayInv, SettledInPast
<1>8. GrantOK'
  <2>1. UNCHANGED <<loop, users, premiumExpires, seenBy>>
    BY <1>1 DEF accountVars
  <2>2. loop.at \in {"premium", "tokens"} => /\ loop.pay \in Opened
                                             /\ kassa'[loop.pay] = kassa[loop.pay]
    BY <1>4 DEF PayInv, GrantOK, KassaGrows
  <2> QED
    BY <1>3, <2>1, <2>2 DEF PayInv, GrantOK, IsTariff, PaidUntil
<1>9. BuyersKnown'
  BY <1>1, <1>3, <1>4, <1>5 DEF PayInv, BuyersKnown, KassaGrows
<1>10. PurchaseRowsOK' /\ AckedOK'
  BY <1>1, <1>4, <1>9, PayBooksKept
<1> QED
  BY <1>5, <1>6, <1>7, <1>8, <1>9, <1>10 DEF PayInv

(* A step that leaves the loop idle, or a grant to whom it is due.         *)
GrantDue(p) ==
    \/ loop' = Idle
    \/ \E u \in users, hook \in BOOLEAN :
          /\ StartGrant(u, p, kassa[p].product, hook)
          /\ kassa[p].status = "succeeded"
          /\ u \in {kassa[p].user} \cup seenBy'[p]
          /\ hook => u = kassa[p].user

(* A handler that writes the row of a payment and may suspend a grant.     *)
LEMMA RowStepKeeps ==
    ASSUME PayInv, NEW p \in Opened,
           UNCHANGED <<ledgerVars, epoch, now, setbacks, kassa, premiumGrants, orphaned>>,
           UNCHANGED accountVars \/ \E u \in UserIds : Request(u),
           payRow' \in [PayIds -> {"absent", "pending", "succeeded", "canceled"}],
           redelivered' \in [PayIds -> 0..MaxRedeliveries],
           seenBy' \in [PayIds -> SUBSET UserIds],
           \A o \in PayIds : seenBy[o] \subseteq seenBy'[o],
           \/ acked' = acked
           \/ acked' = acked \cup {p} /\ p \in orphaned /\ kassa[p].status = "succeeded",
           GrantDue(p)
    PROVE  PayInv' /\ PremiumKept
<1>1. KassaGrows /\ Opened' = Opened /\ p \in PayIds
  BY PayTypes DEF PayInv, KassaGrows, Opened
<1>2. LedgerCore' /\ LedgerTypeOK' /\ users' = users /\ PremiumKept
  BY PayBooksNothing
<1>3. loop' \in {Idle} \cup PayContinuation /\ GrantOK'
  <2>1. CASE loop' = Idle
    BY <2>1 DEF GrantOK, Idle
  <2>2. ASSUME NEW u \in users, NEW hook \in BOOLEAN,
               StartGrant(u, p, kassa[p].product, hook),
               kassa[p].status = "succeeded", u \in {kassa[p].user} \cup seenBy'[p],
               hook => u = kassa[p].user
        PROVE  loop' \in PayContinuation /\ GrantOK'
    <3>1. PICK q \in ProductIds : q = kassa[p].product
      BY PayTypes DEF PayInv
    <3>2. /\ loop' = [at |-> IF IsTariff(q) THEN "premium" ELSE "tokens",
                      user |-> u, pay |-> p, product |-> q, webhook |-> hook]
          /\ u \in UserIds
      BY <2>2, <3>1, PayTypes DEF StartGrant, Suspend, PayInv
    <3>3. loop' \in PayContinuation
      BY <1>1, <3>2 DEF PayContinuation, GrantContinuation
    <3>4. GrantOK'
      BY <1>1, <1>2, <2>2, <3>1, <3>2 DEF GrantOK, IsTariff
    <3> QED
      BY <3>3, <3>4
  <2> QED
    BY <2>1, <2>2 DEF GrantDue
<1>4. PayTypeOK'
  BY <1>1, <1>2, <1>3 DEF PayInv, PayTypeOK
<1>5. SettledInPast' /\ BuyersKnown'
  BY <1>1, <1>2 DEF PayInv, SettledInPast, BuyersKnown
<1>6. PurchaseRowsOK' /\ AckedOK'
  BY <1>1, <1>5, PayBooksKept
<1> QED
  BY <1>2, <1>3, <1>4, <1>5, <1>6 DEF PayInv

(* A poll that sees a payment succeed grants it to its caller.             *)
LEMMA PollChangedKeeps ==
    ASSUME PayInv, NEW u \in UserIds, NEW p \in Opened, PollChanged(u, p)
    PROVE  PayInv' /\ PremiumKept
<1>1. /\ Request(u) /\ u \in users
      /\ UNCHANGED <<ledgerVars, epoch, kassa, acked, redelivered, premiumGrants, orphaned>>
      /\ payRow' = [payRow EXCEPT ![p] = kassa[p].status]
      /\ p \in PayIds /\ seenBy \in [PayIds -> SUBSET UserIds]
  BY PayTypes DEF PollChanged, Request, PayInv, PayTypeOK
<1>2. /\ now' = now /\ setbacks' = setbacks
      /\ \/ /\ kassa[p].status = "succeeded"
            /\ StartGrant(u, p, kassa[p].product, FALSE)
            /\ seenBy' = [seenBy EXCEPT ![p] = @ \cup {u}]
         \/ loop' = Idle /\ seenBy' = seenBy
  BY DEF PollChanged, Request, StartGrant, Suspend, hostVars
<1>3. kassa[p].status \in {"pending", "succeeded", "canceled"}
  BY PayTypes DEF PayInv, KassaPayment
<1>4. payRow' \in [PayIds -> {"absent", "pending", "succeeded", "canceled"}]
  BY <1>1, <1>3 DEF PayInv, PayTypeOK
<1>5. redelivered' \in [PayIds -> 0..MaxRedeliveries]
  BY <1>1 DEF PayInv, PayTypeOK
<1>6. /\ seenBy' \in [PayIds -> SUBSET UserIds]
      /\ \A o \in PayIds : seenBy[o] \subseteq seenBy'[o]
  BY <1>1, <1>2
<1>7. GrantDue(p)
  BY <1>1, <1>2 DEF GrantDue
<1>8. UNCHANGED accountVars \/ \E v \in UserIds : Request(v)
  BY <1>1
<1>9. acked' = acked
  BY <1>1
<1> QED
  BY <1>1, <1>2, <1>4, <1>5, <1>6, <1>7, <1>8, <1>9, RowStepKeeps

(* A webhook grants to the buyer, and is answered at once if there is none.*)
LEMMA WebhookKeeps ==
    ASSUME PayInv, NEW p \in Opened, YooKassaNotifies(p)
    PROVE  PayInv' /\ PremiumKept
<1>1. /\ kassa[p].status = "succeeded" /\ p \in PayIds
      /\ UNCHANGED <<accountVars, ledgerVars, epoch, kassa, premiumGrants, orphaned,
                     seenBy>>
      /\ payRow' = [payRow EXCEPT ![p] = "succeeded"]
      /\ redelivered' = [redelivered EXCEPT ![p] = IF p \in acked THEN @ + 1 ELSE @]
      /\ p \in acked => redelivered[p] < MaxRedeliveries
  BY PayTypes DEF PayInv, YooKassaNotifies, Webhook, Notice, payHistory
<1>2. /\ now' = now /\ setbacks' = setbacks
      /\ \/ /\ kassa[p].user \in users /\ acked' = acked
            /\ StartGrant(kassa[p].user, p, kassa[p].product, TRUE)
         \/ /\ kassa[p].user \notin users /\ acked' = acked \cup {p} /\ loop' = Idle
  BY DEF YooKassaNotifies, Webhook, Notice, StartGrant, Suspend, hostVars
<1>3. kassa[p].user \notin users => p \in orphaned
  BY DEF PayInv, BuyersKnown
<1>4. payRow' \in [PayIds -> {"absent", "pending", "succeeded", "canceled"}]
  BY <1>1 DEF PayInv, PayTypeOK
<1>5. redelivered' \in [PayIds -> 0..MaxRedeliveries]
  <2>1. redelivered \in [PayIds -> 0..MaxRedeliveries] /\ MaxRedeliveries \in Nat
    BY PaymentsAssumption DEF PayInv, PayTypeOK
  <2>2. (IF p \in acked THEN redelivered[p] + 1 ELSE redelivered[p]) \in 0..MaxRedeliveries
    BY <1>1, <2>1
  <2> QED
    BY <1>1, <2>1, <2>2
<1>6. GrantDue(p)
  BY <1>1, <1>2 DEF GrantDue
<1>7. \/ acked' = acked
      \/ acked' = acked \cup {p} /\ p \in orphaned /\ kassa[p].status = "succeeded"
  BY <1>1, <1>2, <1>3
<1>8. /\ seenBy' \in [PayIds -> SUBSET UserIds]
      /\ \A o \in PayIds : seenBy[o] \subseteq seenBy'[o]
  BY <1>1 DEF PayInv, PayTypeOK
<1> QED
  BY <1>1, <1>2, <1>4, <1>5, <1>6, <1>7, <1>8, RowStepKeeps

(* Recording a payment is no grant.                                        *)
LEMMA RecordPaymentKeeps ==
    ASSUME PayInv, RecordPayment
    PROVE  PayInv' /\ PremiumKept
<1>1. PICK n \in PayIds : n = loop.pay
  BY DEF PayInv, PayTypeOK, RecordPayment, Resume, PayContinuation, GrantContinuation,
         RedeemContinuation, Idle
<1>2. /\ loop' = Idle /\ payRow' = [payRow EXCEPT ![n] = "pending"]
      /\ UNCHANGED <<accountVars, ledgerVars, epoch, now, setbacks, kassa, acked,
                     redelivered, premiumGrants, orphaned, seenBy>>
  BY <1>1 DEF RecordPayment, Release, payHistory
<1>3. LedgerCore' /\ LedgerTypeOK' /\ users' = users /\ PremiumKept
  BY <1>2, PayBooksNothing
<1>4. KassaGrows /\ Opened' = Opened
  BY <1>2 DEF KassaGrows, Opened
<1>5. PayTypeOK'
  BY <1>2, <1>3 DEF PayInv, PayTypeOK
<1>6. SettledInPast' /\ GrantOK' /\ BuyersKnown'
  BY <1>2, <1>3, <1>4 DEF PayInv, SettledInPast, GrantOK, BuyersKnown, Idle
<1>7. PurchaseRowsOK' /\ AckedOK'
  BY <1>2, <1>4, <1>6, PayBooksKept
<1> QED
  BY <1>3, <1>5, <1>6, <1>7 DEF PayInv

(* An administrator who switches a premium leaves its end and the ledger.  *)
LEMMA AdminSetsKeeps ==
    ASSUME PayInv, NEW a \in UserIds, NEW u \in UserIds, NEW b \in BOOLEAN,
           AdminSetsPremium(a, u, b)
    PROVE  PayInv' /\ PremiumKept
<1>1. /\ isPremium' = [isPremium EXCEPT ![a] = @ /\ ~Lapsed(a), ![u] = b]
      /\ storageLimit' = [storageLimit EXCEPT ![a] = IF Lapsed(a) THEN BaseQuota ELSE @]
      /\ UNCHANGED <<users, isAdmin, premiumExpires, now, loop, setbacks, txns, balance,
                     epoch, kassa, payRow, acked, redelivered, premiumGrants, orphaned,
                     seenBy>>
      /\ a \in UserIds /\ u \in UserIds
  BY DEF AdminSetsPremium, hostVars, ledgerVars, payVars, payHistory
<1>2. LedgerTypeOK'
  <2>1. isPremium' \in [UserIds -> BOOLEAN]
    BY <1>1, PayTypes DEF PayInv, Lapsed
  <2>2. storageLimit' \in [UserIds -> Nat]
    BY <1>1, PayTypes, AccountsAssumption DEF PayInv
  <2> QED
    BY <1>1, <2>1, <2>2 DEF PayInv, LedgerCore, LedgerTypeOK, AccountsTypeOK
<1>3. LedgerCore'
  BY <1>1, <1>2, LedgerUntouched DEF PayInv, LedgerCore
<1>4. PayTypeOK' /\ KassaGrows /\ Opened' = Opened
  BY <1>1, <1>2 DEF PayInv, PayTypeOK, KassaGrows, Opened
<1>5. SettledInPast' /\ BuyersKnown'
  BY <1>1, <1>4 DEF PayInv, SettledInPast, BuyersKnown
<1>6. GrantOK'
  BY <1>1, <1>4 DEF PayInv, GrantOK, IsTariff, PaidUntil
<1>7. AccountsStay /\ \A v \in users : premiumExpires'[v] >= premiumExpires[v]
  BY <1>1, PayTypes DEF AccountsStay, PayInv
<1>8. PurchaseRowsOK' /\ \A p : Credited(p) => Credited(p)'
  BY <1>1, <1>4, <1>5, <1>7, PurchasesKept DEF PayInv
<1>9. AckedOK'
  BY <1>1, <1>2, <1>4, <1>5, <1>7, <1>8, AckedKept DEF PayInv
<1>10. ASSUME NEW v \in users, isPremium[v], premiumExpires[v] # Never,
              premiumExpires[v] >= Utc
       PROVE  isPremium'[v] \/ \E c \in UserIds : AdminSetsPremium(c, v, FALSE)
  <2>1. v \in UserIds /\ isPremium \in [UserIds -> BOOLEAN]
    BY PayTypes DEF PayInv
  <2>2. CASE v = u
    BY <1>1, <2>1, <2>2
  <2>3. CASE v # u
    <3>1. Utc \in Int /\ premiumExpires[v] \in Int
      BY <2>1, PayTypes DEF PayInv, Utc
    <3>2. ~Lapsed(v)
      BY <1>10, <3>1 DEF Lapsed
    <3> QED
      BY <1>1, <1>10, <2>1, <2>3, <3>2
  <2> QED
    BY <2>2, <2>3
<1>11. PremiumKept
  BY <1>7, <1>10 DEF PremiumKept
<1> QED
  BY <1>3, <1>4, <1>5, <1>6, <1>8, <1>9, <1>11 DEF PayInv

(* Premium goes to the account of the grant and lasts at least as long as  *)
(* before, and as long as the payment promised.                            *)
LEMMA GrantPremiumKeeps ==
    ASSUME PayInv, GrantPremium
    PROVE  PayInv' /\ PremiumKept
<1>1. PICK p \in Opened : p = loop.pay
  BY DEF PayInv, GrantOK, GrantPremium, Resume
<1>2. PICK u \in users : u = loop.user
  BY DEF PayInv, GrantOK, GrantPremium, Resume
<1>3. PICK q \in ProductIds : q = kassa[p].product /\ q = loop.product
  BY <1>1, PayTypes DEF PayInv, GrantOK, GrantPremium, Resume
<1>4. /\ loop.at = "premium" /\ kassa[p].status = "succeeded"
      /\ u \in {kassa[p].user} \cup seenBy[p]
      /\ loop.webhook => u = kassa[p].user
  BY <1>1, <1>2 DEF PayInv, GrantOK, GrantPremium, Resume
<1>5. loop \in GrantContinuation
  BY <1>4 DEF PayInv, PayTypeOK, PayContinuation, RedeemContinuation, Idle
<1>6. PICK span \in Nat : span = Products[q].span
  BY PayTypes DEF PayInv
<1> DEFINE expires == IF premiumExpires[u] > Local THEN premiumExpires[u] + span
                      ELSE Local + span
<1>7. /\ Products[q].limit \in Nat /\ u \in UserIds /\ p \in PayIds
      /\ premiumExpires[u] \in Nat \cup {Never} /\ Local \in Nat
  BY PayTypes DEF PayInv, Local
<1>8. expires \in Nat /\ expires >= premiumExpires[u] /\ expires >= Local + span
  BY <1>6, <1>7 DEF Never
<1>9. /\ storageLimit' = [storageLimit EXCEPT ![u] = Products[q].limit]
      /\ isPremium' = [isPremium EXCEPT ![u] = TRUE]
      /\ premiumExpires' = [premiumExpires EXCEPT ![u] = expires]
      /\ premiumGrants' = [premiumGrants EXCEPT ![p] = @ + 1]
      /\ loop' = [loop EXCEPT !.at = "tokens"]
      /\ UNCHANGED <<users, isAdmin, now, setbacks, txns, balance, epoch, kassa, payRow,
                     acked, redelivered, orphaned, seenBy>>
  BY <1>1, <1>2, <1>3, <1>6 DEF GrantPremium, Suspend, ledgerVars
<1>10. KassaGrows /\ Opened' = Opened
  BY <1>9 DEF KassaGrows, Opened
<1> HIDE DEF expires
<1>11. LedgerTypeOK' /\ LedgerCore'
  <2>1. LedgerTypeOK'
    BY <1>7, <1>8, <1>9 DEF PayInv, LedgerCore, LedgerTypeOK, AccountsTypeOK
  <2> QED
    BY <1>9, <2>1, LedgerUntouched DEF PayInv, LedgerCore
<1>12. /\ loop' \in GrantContinuation /\ loop'.pay = p /\ loop'.user = u
       /\ loop'.at = "tokens" /\ loop'.product = q /\ loop'.webhook = loop.webhook
  BY <1>1, <1>2, <1>3, <1>5, <1>9 DEF GrantContinuation
<1>13. PayTypeOK'
  <2>1. premiumGrants' \in [PayIds -> Nat]
    BY <1>7, <1>9 DEF PayInv, PayTypeOK
  <2> QED
    BY <1>9, <1>11, <1>12, <2>1 DEF PayInv, PayTypeOK, PayContinuation
<1>14. premiumExpires'[u] = expires /\ isPremium'[u]
  BY <1>7, <1>9, PayTypes DEF PayInv
<1>15. \A v \in users \ {u} : /\ isPremium'[v] = isPremium[v]
                              /\ premiumExpires'[v] = premiumExpires[v]
                              /\ premiumExpires[v] \in Int
  BY <1>9, PayTypes DEF PayInv
<1>16. \A v \in users : premiumExpires'[v] >= premiumExpires[v]
  BY <1>8, <1>14, <1>15
<1>17. PremiumKept /\ AccountsStay
  <2>1. AccountsStay
    BY <1>9, <1>16 DEF AccountsStay
  <2>2. \A v \in users : isPremium[v] => isPremium'[v]
    BY <1>14, <1>15
  <2> QED
    BY <1>16, <2>1, <2>2 DEF PremiumKept
<1>18. expires >= PaidUntil(p)
  <2>1. kassa[p].on \in Nat /\ kassa[p].on <= now /\ now \in Nat /\ LocalStart \in Nat
    BY PayTypes DEF PayInv, SettledInPast
  <2>2. PaidUntil(p) = LocalStart + kassa[p].on + span
    BY <1>3, <1>6 DEF PaidUntil
  <2>3. Local + span >= LocalStart + kassa[p].on + span
    BY <1>6, <2>1 DEF Local
  <2> QED
    BY <1>6, <1>7, <1>8, <2>1, <2>2, <2>3
<1>19. GrantOK'
  BY <1>3, <1>4, <1>9, <1>10, <1>12, <1>14, <1>18 DEF GrantOK, IsTariff, PaidUntil
<1>20. SettledInPast' /\ BuyersKnown'
  BY <1>9, <1>10 DEF PayInv, SettledInPast, BuyersKnown
<1>21. PurchaseRowsOK' /\ \A o : Credited(o) => Credited(o)'
  BY <1>9, <1>10, <1>17, <1>20, PurchasesKept DEF PayInv
<1>22. AckedOK'
  BY <1>9, <1>10, <1>11, <1>17, <1>20, <1>21, AckedKept DEF PayInv
<1> QED
  BY <1>11, <1>13, <1>17, <1>19, <1>20, <1>21, <1>22 DEF PayInv

(* Tokens are booked before the webhook is answered.                       *)
LEMMA GrantTokensKeeps ==
    ASSUME PayInv, GrantTokens
    PROVE  PayInv' /\ PremiumKept
<1>1. PICK p \in Opened : p = loop.pay
  BY DEF PayInv, GrantOK, GrantTokens, Resume
<1>2. PICK u \in users : u = loop.user
  BY DEF PayInv, GrantOK, GrantTokens, Resume
<1>3. PICK q \in ProductIds : q = kassa[p].product /\ q = loop.product
  BY <1>1, PayTypes DEF PayInv, GrantOK, GrantTokens, Resume
<1>4. /\ kassa[p].status = "succeeded" /\ u \in UserIds /\ p \in PayIds /\ p \in Nat
      /\ Products[q].tokens \in Int /\ PurchaseReason(q) \in Reasons
      /\ u \in {kassa[p].user} \cup seenBy[p]
      /\ loop.webhook =>
            /\ u = kassa[p].user
            /\ IsTariff(q) => premiumExpires[u] >= PaidUntil(p)
  <2>1. loop.at = "tokens"
    BY DEF GrantTokens, Resume
  <2> QED
    BY <1>1, <1>2, <1>3, <2>1, PayTypes DEF PayInv, GrantOK
<1>5. /\ ApplyTransaction(u, Products[q].tokens, PurchaseReason(q), p)
      /\ acked' = acked \/ (acked' = acked \cup {p} /\ loop.webhook)
      /\ loop' = Idle
      /\ UNCHANGED <<accountVars, now, setbacks, epoch, kassa, payRow, redelivered,
                     premiumGrants, orphaned, seenBy>>
  BY <1>1, <1>2, <1>3 DEF GrantTokens, Release, payHistory
<1>6. /\ users' = users /\ Opened' = Opened /\ KassaGrows
      /\ UNCHANGED <<premiumExpires, isPremium, epoch>>
  BY <1>5 DEF accountVars, Opened, KassaGrows
<1>7. LedgerCore' /\ LedgerTypeOK'
  <2>1. RefsAreUnique' /\ EpochsInLedger' /\ BalanceIsLedgerSum'
    BY <1>4, <1>5, <1>6, ApplyTransactionLedger DEF PayInv
  <2>2. txns' \in Seq(Txn) /\ balance' \in [UserIds -> Nat]
    BY <1>4, <1>5, ApplyTransactionType, PayTypes DEF PayInv
  <2>3. LedgerTypeOK'
    BY <1>5, <2>2 DEF PayInv, LedgerCore, LedgerTypeOK, AccountsTypeOK, accountVars
  <2> QED
    BY <2>1, <2>3 DEF LedgerCore
<1>8. PayTypeOK'
  BY <1>4, <1>5, <1>7 DEF PayInv, PayTypeOK
<1>9. SettledInPast' /\ GrantOK' /\ BuyersKnown'
  BY <1>5, <1>6 DEF PayInv, SettledInPast, GrantOK, BuyersKnown, Idle
<1>10. PremiumKept /\ AccountsStay
  <2>1. \A v \in users : premiumExpires'[v] >= premiumExpires[v]
    BY <1>6, PayTypes DEF PayInv
  <2> QED
    BY <1>6, <2>1 DEF PremiumKept, AccountsStay
<1>11. PurchaseRowsOK' /\ (\A o : Credited(o) => Credited(o)') /\ Credited(p)'
  <2>1. PurchaseReason(q) \in {"subscription", "token_purchase"}
    BY DEF PurchaseReason
  <2>2. CASE Recorded(PurchaseReason(q), p)
    <3>1. txns' = txns
      BY <1>5, <2>2 DEF ApplyTransaction, ledgerVars
    <3>2. Credited(p)
      BY <2>1, <2>2 DEF Recorded, Credited, PurchaseRows
    <3> QED
      BY <1>6, <1>9, <1>10, <3>1, <3>2, PurchasesKept DEF PayInv
  <2>3. CASE ~Recorded(PurchaseReason(q), p)
    <3>1. PICK row \in Txn : /\ txns' = Append(txns, row)
                             /\ row.user = u
                             /\ row.delta = Products[q].tokens
                             /\ row.reason = PurchaseReason(q) /\ row.ref = p
      BY <1>4, <1>5, <2>3, ApplyTransactionBooks, PayTypes DEF PayInv
    <3>2. /\ DOMAIN txns = 1..Len(txns) /\ Len(txns) \in Nat
          /\ DOMAIN txns' = 1..(Len(txns) + 1) /\ txns'[Len(txns) + 1] = row
          /\ \A i \in 1..Len(txns) : txns'[i] = txns[i]
      BY <3>1, AppendedRows, PayTypes DEF PayInv
    <3>3. PurchaseRowsOK'
      <4>1. SUFFICES ASSUME NEW i \in DOMAIN txns',
                            txns'[i].reason \in {"subscription", "token_purchase"}
                     PROVE  /\ txns'[i].ref \in Opened
                            /\ kassa[txns'[i].ref].status = "succeeded"
                            /\ txns'[i].reason
                                 = PurchaseReason(kassa[txns'[i].ref].product)
                            /\ txns'[i].delta
                                 = Products[kassa[txns'[i].ref].product].tokens
                            /\ txns'[i].user
                                 \in {kassa[txns'[i].ref].user} \cup seenBy[txns'[i].ref]
                            /\ txns'[i].ref \notin orphaned =>
                                  i > epoch[kassa[txns'[i].ref].user]
        BY <1>5, <1>6 DEF PurchaseRowsOK, PurchaseReason, IsTariff
      <4>2. CASE i = Len(txns) + 1
        <5>1. /\ epoch[kassa[p].user] <= Len(txns) /\ epoch[kassa[p].user] \in Nat
          BY PayTypes DEF PayInv, LedgerCore, EpochsInLedger
        <5>2. i > epoch[kassa[p].user] /\ txns'[i] = row
          BY <3>2, <4>2, <5>1
        <5>3. row.ref = p /\ row.user = u /\ row.reason = PurchaseReason(q)
              /\ row.delta = Products[q].tokens
          BY <3>1
        <5> QED
          BY <1>1, <1>3, <1>4, <5>2, <5>3
      <4>3. CASE i # Len(txns) + 1
        <5>1. i \in DOMAIN txns /\ txns'[i] = txns[i]
          BY <3>2, <4>3
        <5> QED
          BY <4>1, <5>1 DEF PayInv, PurchaseRowsOK
      <4> QED
        BY <4>2, <4>3
    <3>4. ASSUME NEW o, Credited(o) PROVE Credited(o)'
      <4>1. PICK i \in DOMAIN txns :
                    /\ txns[i].reason \in {"subscription", "token_purchase"}
                    /\ txns[i].ref = o
        BY <3>4 DEF Credited, PurchaseRows
      <4>2. i \in DOMAIN txns' /\ txns'[i] = txns[i]
        BY <3>2
      <4> QED
        BY <4>1, <4>2 DEF Credited, PurchaseRows
    <3>5. Credited(p)'
      <4>1. /\ Len(txns) + 1 \in DOMAIN txns'
            /\ txns'[Len(txns) + 1].reason \in {"subscription", "token_purchase"}
            /\ txns'[Len(txns) + 1].ref = p
        BY <2>1, <3>1, <3>2
      <4> QED
        BY <4>1 DEF Credited, PurchaseRows
    <3> QED
      BY <3>3, <3>4, <3>5
  <2> QED
    BY <2>2, <2>3
<1>12. AckedOK'
  <2>1. ASSUME NEW o \in acked' \ acked
        PROVE  /\ o \in Opened /\ kassa[o].status = "succeeded" /\ Credited(o)'
               /\ IsTariff(kassa[o].product) =>
                     premiumExpires'[kassa[o].user] >= PaidUntil(o)
    BY <1>3, <1>4, <1>5, <1>6, <1>11, <2>1
  <2> QED
    BY <1>6, <1>7, <1>9, <1>10, <1>11, <2>1, AckedKept DEF PayInv
<1> QED
  BY <1>7, <1>8, <1>9, <1>10, <1>11, <1>12 DEF PayInv

(* A buyer who leaves is remembered.                                       *)
LEMMA BuyerDeletesKeeps ==
    ASSUME PayInv, NEW u \in UserIds, BuyerDeletesAccount(u)
    PROVE  PayInv' /\ PremiumKept
<1>1. /\ TokenNext /\ UNCHANGED <<kassa, acked, redelivered, premiumGrants, seenBy>>
      /\ users' = users \ {u}
      /\ orphaned' = orphaned \cup {p \in Opened : kassa[p].user = u}
      /\ payRow' = [p \in PayIds |-> IF p \in Opened /\ kassa[p].user = u
                                     THEN "absent" ELSE payRow[p]]
  BY DEF BuyerDeletesAccount, DeleteMe, RemoveUser, TokenNext
<1>2. payRow' \in [PayIds -> {"absent", "pending", "succeeded", "canceled"}]
  BY <1>1 DEF PayInv, PayTypeOK
<1>3. /\ orphaned' \subseteq PayIds /\ orphaned \subseteq orphaned'
      /\ \A p \in Opened : kassa[p].user \in users =>
            kassa[p].user \in users' \/ p \in orphaned'
  BY <1>1, PayTypes DEF PayInv, PayTypeOK
<1> QED
  BY <1>1, <1>2, <1>3, OutsidePayments

-----------------------------------------------------------------------------
(* The whole next-state relation.                                          *)

(* Each step keeps the invariant and every running premium.                *)
LEMMA PayStep ==
    ASSUME PayInv, PayNext
    PROVE  PayInv' /\ PremiumKept
<1>1. ASSUME TokenNext, UNCHANGED payVars, users \subseteq users'
      PROVE  PayInv' /\ PremiumKept
  <2>1. UNCHANGED <<kassa, acked, redelivered, premiumGrants, payRow, orphaned, seenBy>>
    BY <1>1 DEF payVars, payHistory
  <2>2. /\ payRow' \in [PayIds -> {"absent", "pending", "succeeded", "canceled"}]
        /\ orphaned' \subseteq PayIds /\ orphaned \subseteq orphaned'
        /\ \A p \in Opened : kassa[p].user \in users =>
              kassa[p].user \in users' \/ p \in orphaned'
    BY <1>1, <2>1 DEF PayInv, PayTypeOK
  <2> QED
    BY <1>1, <2>1, <2>2, OutsidePayments
<1>2. ASSUME NEW u \in UserIds, TokenRequest(u)
      PROVE  TokenNext /\ users \subseteq users'
  BY <1>2 DEF TokenNext, TokenRequest, ReadOnlyRequest, Request, SettlePremium,
              AdRewardReplayed, AdRewardRefused, AdRewardGranted, RedeemRefused,
              RedeemCharge
<1>3. ASSUME NEW u \in UserIds, Register(u)
      PROVE  TokenNext /\ users \subseteq users'
  BY <1>3 DEF TokenNext, Register, InsertUser
<1>4. ASSUME RedeemGrant \/ TimePasses \/ Crash \/ HandlerFails
      PROVE  TokenNext /\ users \subseteq users'
  BY <1>4 DEF TokenNext, RedeemGrant, TimePasses, Crash, HandlerFails, accountVars
<1>5. ASSUME NEW u \in UserIds, NEW p \in Opened, PollUnchanged(u, p)
      PROVE  PayInv' /\ PremiumKept
  <2>1. TokenRequest(u) /\ UNCHANGED payVars
    BY <1>5 DEF PollUnchanged, TokenRequest
  <2> QED
    BY <1>1, <1>2, <2>1
<1>6. ASSUME NEW u \in UserIds, PayRequest(u)
      PROVE  PayInv' /\ PremiumKept
  BY <1>5, <1>6, CreatePaymentKeeps, PollChangedKeeps, BuyerDeletesKeeps, AdminSetsKeeps
     DEF PayRequest
<1>7. ASSUME NEW p \in Opened,
             \/ KassaSettles(p, "succeeded") \/ KassaSettles(p, "canceled")
             \/ YooKassaNotifies(p)
      PROVE  PayInv' /\ PremiumKept
  BY <1>7, KassaSettlesKeeps, WebhookKeeps
<1>8. ASSUME ContinueGrant PROVE PayInv' /\ PremiumKept
  BY <1>8, RecordPaymentKeeps, GrantPremiumKeeps, GrantTokensKeeps DEF ContinueGrant
<1> QED
  BY <1>1, <1>2, <1>3, <1>4, <1>6, <1>7, <1>8 DEF PayNext

(* PayInv is inductive.                                                    *)
LEMMA PayInductive == PayInv /\ [PayNext]_allPayVars => PayInv'
<1> SUFFICES ASSUME PayInv, [PayNext]_allPayVars PROVE PayInv'
  OBVIOUS
<1>1. CASE PayNext
  BY <1>1, PayStep
<1>2. CASE UNCHANGED allPayVars
  <2>1. UNCHANGED <<accountVars, users, isAdmin, isPremium, premiumExpires, now, loop,
                    setbacks, txns, balance, epoch, kassa, payRow, acked, redelivered,
                    premiumGrants, orphaned, seenBy>>
    BY <1>2 DEF allPayVars, tokenVars, accountVars, hostVars, ledgerVars, payVars,
                payHistory
  <2>2. PayTypeOK' /\ LedgerTypeOK' /\ Opened' = Opened
    BY <2>1 DEF PayInv, PayTypeOK, LedgerTypeOK, AccountsTypeOK, accountVars, Opened
  <2>3. LedgerCore'
    BY <2>1, <2>2, LedgerUntouched DEF PayInv, LedgerCore
  <2>4. SettledInPast' /\ GrantOK' /\ PurchaseRowsOK' /\ BuyersKnown'
    BY <2>1, <2>2
       DEF PayInv, SettledInPast, GrantOK, PurchaseRowsOK, BuyersKnown, PurchaseReason,
           IsTariff, PaidUntil
  <2>5. AckedOK'
    BY <2>1, <2>2
       DEF PayInv, AckedOK, AckedMeansCredited, Credited, PurchaseRows,
           PremiumReachesBuyer, IsTariff
  <2> QED
    BY <2>2, <2>3, <2>4, <2>5 DEF PayInv
<1> QED
  BY <1>1, <1>2

(* It holds when the service is first started: nothing was paid.           *)
LEMMA PayInitially == PayInit => PayInv
<1> SUFFICES ASSUME PayInit PROVE PayInv
  OBVIOUS
<1>1. LedgerCore /\ loop = Idle /\ txns = <<>> /\ kassa = <<>> /\ Opened = {}
  BY LedgerInitially DEF PayInit, LedgerInv, LedgerInit, AccountsInit, Opened
<1>2. PayTypeOK
  <2>1. kassa \in Seq(KassaPayment) /\ Len(kassa) = 0
    BY <1>1
  <2> QED
    BY <1>1, <2>1, PaymentsAssumption
       DEF PayInit, PayTypeOK, LedgerCore, KassaPayment
<1>3. SettledInPast /\ GrantOK /\ PurchaseRowsOK /\ BuyersKnown
  BY <1>1 DEF SettledInPast, GrantOK, PurchaseRowsOK, BuyersKnown, Idle
<1>4. AckedOK
  BY DEF PayInit, AckedOK, AckedMeansCredited, PremiumReachesBuyer
<1> QED
  BY <1>1, <1>2, <1>3, <1>4 DEF PayInv

(* PayInv holds in every state.                                            *)
THEOREM PayInvariant == PaySpec => []PayInv
  BY PayInitially, PayInductive, PTL DEF PaySpec

(* Every state of the shop is well-formed.                                 *)
THEOREM PayTypeCorrect == PaySpec => []PayTypeOK
<1>1. PayInv => PayTypeOK
  BY DEF PayInv
<1> QED
  BY <1>1, PayInvariant, PTL

(* The cached balance stays the sum of the ledger while purchases are      *)
(* booked.                                                                 *)
THEOREM BalanceCorrectWithPurchases == PaySpec => []BalanceIsLedgerSum
<1>1. PayInv => BalanceIsLedgerSum
  BY DEF PayInv, LedgerCore
<1> QED
  BY <1>1, PayInvariant, PTL

(* A payment is credited at most once, not before YooKassa settled it,     *)
(* with the tokens of its product, and to the account that bought it or to *)
(* a poller that saw it succeed, as long as the notices are YooKassa's:    *)
(* the uniqueness of references and the reason that the product determines *)
(* leave room for one row.                                                 *)
THEOREM CreditsMatch == PaySpec => []CreditsMatchPayments
<1>1. PayInv => CreditsMatchPayments
  <2> SUFFICES ASSUME PayInv PROVE CreditsMatchPayments
    OBVIOUS
  <2>1. ASSUME NEW p \in PayIds, NEW i \in PurchaseRows(p)
        PROVE  /\ i \in DOMAIN txns /\ txns[i].ref = p
               /\ p \in Opened /\ kassa[p].status = "succeeded"
               /\ txns[i].reason = PurchaseReason(kassa[p].product)
               /\ txns[i].delta = Products[kassa[p].product].tokens
               /\ txns[i].user \in {kassa[p].user} \cup seenBy[p]
               /\ p \notin orphaned => i > epoch[kassa[p].user]
    BY DEF PurchaseRows, PayInv, PurchaseRowsOK
  <2>2. ASSUME NEW p \in PayIds PROVE Cardinality(PurchaseRows(p)) <= 1
    <3>1. \A i, k \in PurchaseRows(p) : i = k
      BY <2>1 DEF PayInv, LedgerCore, RefsAreUnique
    <3>2. PurchaseRows(p) = {} \/ \E i : PurchaseRows(p) = {i}
      BY <3>1
    <3>3. Cardinality(PurchaseRows(p)) = 0 \/ Cardinality(PurchaseRows(p)) = 1
      BY <3>2, FS_EmptySet, FS_Singleton
    <3> QED
      BY <3>3
  <2> QED
    BY <2>1, <2>2 DEF CreditsMatchPayments
<1> QED
  BY <1>1, PayInvariant, PTL

(* A webhook that was answered 200 was booked, or its buyer has left.      *)
THEOREM AckedCredited == PaySpec => []AckedMeansCredited
<1>1. PayInv => AckedMeansCredited
  BY DEF PayInv, AckedOK
<1> QED
  BY <1>1, PayInvariant, PTL

(* Whoever polls first, with any kills and failed commits: by the time the *)
(* webhook is answered a tariff has reached the account that bought it.    *)
THEOREM TariffReachesBuyer == PaySpec => []PremiumReachesBuyer
<1>1. PayInv => PremiumReachesBuyer
  BY DEF PayInv, AckedOK
<1> QED
  BY <1>1, PayInvariant, PTL

(* No step of any handler, replay, kill or failed commit shortens a        *)
(* premium that has not ended by the UTC clock, whatever the distance of   *)
(* the two clocks; only an administrator takes it away.                    *)
THEOREM PremiumNeverShortened == PaySpec => PremiumIsKept
<1>1. PayInv /\ [PayNext]_allPayVars => [PremiumKept]_allPayVars
  BY PayStep
<1>2. PremiumKept =>
        \A u \in users \cap users' :
            isPremium[u] /\ premiumExpires[u] # Never /\ premiumExpires[u] >= Utc
                => /\ premiumExpires'[u] >= premiumExpires[u]
                   /\ \/ isPremium'[u]
                      \/ \E a \in UserIds : AdminSetsPremium(a, u, FALSE)
  BY DEF PremiumKept
<1> QED
  BY <1>1, <1>2, PayInvariant, PTL DEF PaySpec, PremiumIsKept
=============================================================================
