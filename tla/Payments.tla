------------------------------ MODULE Payments ------------------------------
(***************************************************************************)
(* Purchases (api/payments.py): a payment is opened at YooKassa and        *)
(* recorded in table payments; its success reaches the server twice, by    *)
(* the client polling GET /payments/{id}/status and by YooKassa's webhook, *)
(* which is delivered again until it is answered 200 and possibly once     *)
(* more after that.  Both paths end in grant_product.                      *)
(*                                                                         *)
(* kassa is YooKassa's own state: what metadata the payment carries and    *)
(* how it stands.  Payment p of kassa has the row payRow[p] in the table;  *)
(* owner and product of the row equal the metadata on both paths that      *)
(* insert it.  The ledger ref_id of a purchase is the payment id.          *)
(*                                                                         *)
(* Environment: the webhook believes the body it receives, payment, buyer  *)
(* and product, and neither its sender nor its signature is checked        *)
(* (payments.py:378).  The handler is modelled so, for any body; that the  *)
(* bodies it receives are YooKassa's own (YooKassaNotifies) is an          *)
(* assumption on the deployment, and all properties below rest on it.      *)
(*                                                                         *)
(* Bounds of the model: MaxPayments, MaxRedeliveries.                      *)
(***************************************************************************)
EXTENDS TokenLedger

CONSTANTS
    Products,        \* PRODUCTS: id -> [limit, span, tokens], limit 0 for packs
    MaxPayments,
    MaxRedeliveries  \* deliveries of a webhook after its 200

ASSUME PaymentsAssumption ==
    /\ \A q \in DOMAIN Products :
        /\ Products[q].limit \in Nat
        /\ Products[q].span \in Nat
        /\ Products[q].tokens \in Nat \ {0}
    /\ MaxPayments \in Nat /\ MaxRedeliveries \in Nat

VARIABLES
    kassa,         \* payments as YooKassa knows them
    payRow,        \* Payment.status, or "absent"
    acked,         \* payments whose webhook was answered 200
    redelivered,   \* deliveries after that
    premiumGrants, \* history: how often a payment extended a premium
    orphaned,      \* history: payments whose buyer deleted the account
    seenBy         \* history: whose polls saw the success

payHistory == <<premiumGrants, orphaned, seenBy>>
payVars == <<kassa, payRow, acked, redelivered, payHistory>>
allPayVars == <<tokenVars, payVars>>

PayIds == 1..MaxPayments
ProductIds == DOMAIN Products
IsTariff(q) == Products[q].limit > 0

GrantContinuation ==
    [at : {"premium", "tokens"}, user : UserIds, pay : PayIds,
     product : ProductIds, webhook : BOOLEAN]

PayContinuation ==
    [at : {"record"}, pay : PayIds] \cup GrantContinuation

PayTypeOK ==
    /\ LedgerTypeOK
    /\ loop \in {Idle} \cup RedeemContinuation \cup PayContinuation
    /\ kassa \in Seq([user : UserIds, product : ProductIds, on : Nat,
                      status : {"pending", "succeeded", "canceled"}])
    /\ Len(kassa) <= MaxPayments
    /\ payRow \in [PayIds -> {"absent", "pending", "succeeded", "canceled"}]
    /\ acked \subseteq PayIds
    /\ redelivered \in [PayIds -> 0..MaxRedeliveries]
    /\ premiumGrants \in [PayIds -> Nat]
    /\ orphaned \subseteq PayIds
    /\ seenBy \in [PayIds -> SUBSET UserIds]

PayInit ==
    /\ LedgerInit
    /\ kassa = <<>>
    /\ payRow = [p \in PayIds |-> "absent"]
    /\ acked = {}
    /\ redelivered = [p \in PayIds |-> 0]
    /\ premiumGrants = [p \in PayIds |-> 0]
    /\ orphaned = {}
    /\ seenBy = [p \in PayIds |-> {}]

Opened == DOMAIN kassa

-----------------------------------------------------------------------------
(* POST /payments/create: YooKassa first, then the row.                    *)
CreatePayment(u, q) ==
    /\ Len(kassa) < MaxPayments
    /\ Request(u)
    /\ kassa' = Append(kassa, [user |-> u, product |-> q, on |-> 0,
                               status |-> "pending"])
    /\ Suspend([at |-> "record", pay |-> Len(kassa) + 1])
    /\ UNCHANGED <<ledgerVars, epoch, payRow, acked, redelivered, payHistory>>

RecordPayment ==
    /\ Resume("record")
    /\ payRow' = [payRow EXCEPT ![loop.pay] = "pending"]
    /\ Release
    /\ UNCHANGED <<accountVars, ledgerVars, epoch, kassa, acked, redelivered,
                   payHistory>>

(* The buyer pays, or the payment is cancelled or runs out.                *)
KassaSettles(p, status) ==
    /\ kassa[p].status = "pending"
    /\ kassa' = [kassa EXCEPT ![p].status = status, ![p].on = now]
    /\ UNCHANGED <<tokenVars, payRow, acked, redelivered, payHistory>>

(* grant_product(user, product, ref_id = p), up to its first commit.       *)
StartGrant(u, p, q, webhook) ==
    Suspend([at |-> IF IsTariff(q) THEN "premium" ELSE "tokens",
             user |-> u, pay |-> p, product |-> q, webhook |-> webhook])

(* GET /payments/{id}/status, open to the owner and to administrators; the *)
(* grant goes to the caller.                                               *)
MayPoll(u, p) ==
    /\ payRow[p] # "absent"
    /\ kassa[p].user = u \/ isAdmin[u]

PollUnchanged(u, p) ==
    /\ MayPoll(u, p)
    /\ kassa[p].status = payRow[p]
    /\ ReadOnlyRequest(u)
    /\ UNCHANGED <<ledgerVars, epoch, payVars>>

(* Mutant of PollChanged: any change of status grants the product.         *)
PollChanged_GrantsAny(u, p) ==
    /\ MayPoll(u, p)
    /\ kassa[p].status # payRow[p]
    /\ Request(u)
    /\ payRow' = [payRow EXCEPT ![p] = kassa[p].status]
    /\ StartGrant(u, p, kassa[p].product, FALSE)
    /\ seenBy' = [seenBy EXCEPT ![p] = @ \cup {u}]
    /\ UNCHANGED <<ledgerVars, epoch, kassa, acked, redelivered,
                   premiumGrants, orphaned>>

PollChanged(u, p) ==
    /\ MayPoll(u, p)
    /\ kassa[p].status # payRow[p]
    /\ Request(u)
    /\ payRow' = [payRow EXCEPT ![p] = kassa[p].status]
    /\ \/ /\ kassa[p].status = "succeeded"
          /\ StartGrant(u, p, kassa[p].product, FALSE)
          /\ seenBy' = [seenBy EXCEPT ![p] = @ \cup {u}]
       \/ /\ kassa[p].status # "succeeded"
          /\ UNCHANGED <<hostVars, seenBy>>
    /\ UNCHANGED <<ledgerVars, epoch, kassa, acked, redelivered,
                   premiumGrants, orphaned>>

(* Mutant of Webhook: answered 200 before the product is granted.          *)
Webhook_AnswersFirst(notice) ==
    /\ loop = Idle
    /\ payRow' = [payRow EXCEPT ![notice.pay] = "succeeded"]
    /\ acked' = acked \cup {notice.pay}
    /\ IF notice.user \in users
       THEN StartGrant(notice.user, notice.pay, notice.product, TRUE)
       ELSE UNCHANGED hostVars
    /\ UNCHANGED <<accountVars, ledgerVars, epoch, kassa, payHistory>>

(* Mutant of Webhook: a payment already marked as succeeded is left alone. *)
Webhook_OnlyChanges(notice) ==
    /\ loop = Idle
    /\ payRow' = [payRow EXCEPT ![notice.pay] = "succeeded"]
    /\ IF notice.user \in users /\ payRow[notice.pay] # "succeeded"
       THEN /\ StartGrant(notice.user, notice.pay, notice.product, TRUE)
            /\ acked' = acked
       ELSE acked' = acked \cup {notice.pay} /\ UNCHANGED hostVars
    /\ UNCHANGED <<accountVars, ledgerVars, epoch, kassa, payHistory>>

(* POST /payments/webhook/yookassa with the body `notice`: the row is      *)
(* updated, or inserted if it is missing, and the product that the body    *)
(* names is granted to the user that it names, on every delivery.          *)
Webhook(notice) ==
    /\ loop = Idle
    /\ payRow' = [payRow EXCEPT ![notice.pay] = "succeeded"]
    /\ IF notice.user \in users
       THEN /\ StartGrant(notice.user, notice.pay, notice.product, TRUE)
            /\ acked' = acked
       ELSE acked' = acked \cup {notice.pay} /\ UNCHANGED hostVars
    /\ UNCHANGED <<accountVars, ledgerVars, epoch, kassa, payHistory>>

(* YooKassa's notice of p carries the metadata given to it at creation.    *)
Notice(p) == [pay |-> p, user |-> kassa[p].user, product |-> kassa[p].product]

YooKassaNotifies(p) ==
    /\ kassa[p].status = "succeeded"
    /\ p \in acked => redelivered[p] < MaxRedeliveries
    /\ redelivered' = [redelivered EXCEPT ![p] = IF p \in acked THEN @ + 1 ELSE @]
    /\ Webhook(Notice(p))

(* grant_premium_access: by the local clock, and an unlimited premium      *)
(* becomes one that ends.                                                  *)
GrantPremium ==
    /\ Resume("premium")
    /\ LET u == loop.user
           q == Products[loop.product] IN
        /\ storageLimit' = [storageLimit EXCEPT ![u] = q.limit]
        /\ isPremium' = [isPremium EXCEPT ![u] = TRUE]
        /\ premiumExpires' = [premiumExpires EXCEPT ![u] =
                                 IF @ > Local THEN @ + q.span ELSE Local + q.span]
    /\ premiumGrants' = [premiumGrants EXCEPT ![loop.pay] = @ + 1]
    /\ Suspend([loop EXCEPT !.at = "tokens"])
    /\ UNCHANGED <<users, isAdmin, ledgerVars, epoch, kassa, payRow, acked,
                   redelivered, orphaned, seenBy>>

PurchaseReason(q) == IF IsTariff(q) THEN "subscription" ELSE "token_purchase"

GrantTokens ==
    /\ Resume("tokens")
    /\ ApplyTransaction(loop.user, Products[loop.product].tokens,
                        PurchaseReason(loop.product), loop.pay)
    /\ acked' = IF loop.webhook THEN acked \cup {loop.pay} ELSE acked
    /\ Release
    /\ UNCHANGED <<accountVars, epoch, kassa, payRow, redelivered, payHistory>>

(* Deleting an account deletes its rows in table payments.                 *)
BuyerDeletesAccount(u) ==
    /\ DeleteMe(u)
    /\ payRow' = [p \in PayIds |->
                    IF p \in Opened /\ kassa[p].user = u THEN "absent"
                    ELSE payRow[p]]
    /\ orphaned' = orphaned \cup {p \in Opened : kassa[p].user = u}
    /\ UNCHANGED <<kassa, acked, redelivered, premiumGrants, seenBy>>

(* PUT /admin/users/{id} of administrator a (its own premium may lapse     *)
(* first): is_premium is switched, its end stays.                          *)
AdminSetsPremium(a, u, b) ==
    /\ loop = Idle
    /\ a \in users /\ isAdmin[a]
    /\ u \in users
    /\ isPremium' = [isPremium EXCEPT ![a] = @ /\ ~Lapsed(a), ![u] = b]
    /\ storageLimit' = [storageLimit EXCEPT ![a] =
                            IF Lapsed(a) THEN BaseQuota ELSE @]
    /\ UNCHANGED <<users, isAdmin, premiumExpires, hostVars, ledgerVars, epoch,
                   payVars>>

-----------------------------------------------------------------------------
PayRequest(u) ==
    \/ \E q \in ProductIds : CreatePayment(u, q)
    \/ \E p \in Opened : PollUnchanged(u, p) \/ PollChanged(u, p)
    \/ BuyerDeletesAccount(u)
    \/ \E v \in UserIds, b \in BOOLEAN : AdminSetsPremium(u, v, b)

ContinueGrant == RecordPayment \/ GrantPremium \/ GrantTokens

PayNext ==
    \/ \E u \in UserIds :
        \/ PayRequest(u)
        \/ Register(u) /\ UNCHANGED payVars
        \/ TokenRequest(u) /\ UNCHANGED payVars
    \/ RedeemGrant /\ UNCHANGED payVars
    \/ \E p \in Opened :
        \/ KassaSettles(p, "succeeded")
        \/ KassaSettles(p, "canceled")
        \/ YooKassaNotifies(p)
    \/ ContinueGrant
    \/ TimePasses /\ UNCHANGED payVars
    \/ Crash /\ UNCHANGED payVars
    \/ HandlerFails /\ UNCHANGED payVars

PaySpec == PayInit /\ [][PayNext]_allPayVars

(* YooKassa delivers a notification again until it is answered 200, and a  *)
(* handler that holds the event loop goes on.                              *)
PayFairness ==
    /\ WF_allPayVars(ContinueGrant)
    /\ WF_allPayVars(RedeemGrant /\ UNCHANGED payVars)
    /\ \A p \in PayIds : WF_allPayVars(p \in Opened \ acked /\ YooKassaNotifies(p))

FairPaySpec == PaySpec /\ PayFairness

-----------------------------------------------------------------------------
PurchaseRows(p) ==
    {i \in DOMAIN txns : /\ txns[i].reason \in {"subscription", "token_purchase"}
                         /\ txns[i].ref = p}

Credited(p) == PurchaseRows(p) # {}

(* A payment is credited at most once over polls, notices, redeliveries,   *)
(* kills and failed commits, not before YooKassa settled it, with the      *)
(* tokens of its product, and to its buyer, the account that opened it.    *)
(* There are two exceptions: the poll of an administrator that is first to *)
(* see the success (payments.py:348) takes the tokens, and once the buyer  *)
(* is deleted, the account registered under his id receives them.          *)
CreditsMatchPayments ==
    /\ \A p \in PayIds : Cardinality(PurchaseRows(p)) <= 1
    /\ \A p \in PayIds : \A i \in PurchaseRows(p) :
        /\ p \in Opened /\ kassa[p].status = "succeeded"
        /\ txns[i].reason = PurchaseReason(kassa[p].product)
        /\ txns[i].delta = Products[kassa[p].product].tokens
        /\ txns[i].user \in {kassa[p].user} \cup seenBy[p]
        /\ p \notin orphaned => i > epoch[kassa[p].user]

(* A webhook answered 200 has been booked: after it YooKassa never calls   *)
(* again, so a crash before the booking must leave it unanswered.          *)
AckedMeansCredited ==
    \A p \in acked : Credited(p) \/ p \in orphaned

(* Whoever polled first, a tariff reaches its buyer by the time that the   *)
(* webhook is answered: the premium of the account lasts, by the clock     *)
(* that grants it, at least its span from the instant of the payment.  By  *)
(* the UTC clock that ends it, it may fall short by the offset of local    *)
(* time (the host of the instance is behind UTC), and by no more.          *)
PremiumReachesBuyer ==
    \A p \in acked \ orphaned :
        IsTariff(kassa[p].product) =>
            premiumExpires[kassa[p].user]
                >= LocalStart + kassa[p].on + Products[kassa[p].product].span

(* Until its end by the clock of get_current_user, no purchase, replayed   *)
(* notice, request, kill or failed commit shortens a premium that ends or  *)
(* takes it away; only an administrator does.  A premium without an end is *)
(* excepted, as a tariff gives it one.                                     *)
PremiumIsKept ==
    [][\A u \in users \cap users' :
        isPremium[u] /\ premiumExpires[u] # Never /\ premiumExpires[u] >= Utc
            => /\ premiumExpires'[u] >= premiumExpires[u]
               /\ \/ isPremium'[u]
                  \/ \E a \in UserIds : AdminSetsPremium(a, u, FALSE)]_allPayVars

(* Money that arrived ends as tokens, unless the buyer has gone.           *)
PaidIsCredited ==
    \A p \in PayIds :
        (p \in Opened /\ kassa[p].status = "succeeded")
            ~> (Credited(p) \/ p \in orphaned)

(* The docstring of grant_product (payments.py:206-209): a payment grants  *)
(* its product once, a repeated webhook or poll adds nothing.              *)
ProductGrantedOnce == \A p \in PayIds : premiumGrants[p] <= 1
=============================================================================
