------------------------------ MODULE Accounts ------------------------------
(***************************************************************************)
(* Rows of the table `users` (models.py) and the process that serves them. *)
(*                                                                         *)
(* The API is one asyncio process over SQLite.  A handler runs without     *)
(* interruption between two awaits, but each db.commit() is durable on its *)
(* own, so a handler with several commits is several actions: `loop` holds *)
(* the continuation that owns the event loop, and every handler starts     *)
(* when it is Idle.  Between two commits the process may be killed, and    *)
(* any commit may fail: albums.py:320-322 keeps SQLite's write lock over   *)
(* an awaited download, and who waits too long for it gets an exception.   *)
(* A request whose only or first commit fails changes nothing; a later one *)
(* that fails is CommitFails.                                              *)
(*                                                                         *)
(* Every authenticated handler begins with auth_utils.get_current_user,    *)
(* which itself commits the end of an expired premium (SettlePremium).     *)
(*                                                                         *)
(* Two clocks are read: `Utc` is datetime.utcnow(), `Local` is             *)
(* datetime.now() in the time zone of the host, both without a zone.       *)
(*                                                                         *)
(* Bounds of the model: MaxUser (ids), MaxTime (instants), MaxSetbacks.    *)
(***************************************************************************)
EXTENDS Integers, Sequences

CONSTANTS
    MaxUser,     \* largest id the table can reach
    MaxTime,     \* the clock stops here
    UtcStart,    \* datetime.utcnow() at instant 0
    LocalStart,  \* datetime.now() at instant 0
    DayLength,   \* instants in a day
    MaxSetbacks, \* kills and failed commits, together at most so many
    BaseQuota,   \* storage_limit of a new account, in GB (1)
    SeedAdmins   \* accounts 1..SeedAdmins were made by create_admin_user.py

ASSUME AccountsAssumption ==
    /\ MaxUser \in Nat \ {0}
    /\ MaxTime \in Nat /\ MaxSetbacks \in Nat
    /\ UtcStart \in Nat /\ LocalStart \in Nat
    /\ DayLength \in Nat \ {0}
    /\ BaseQuota \in Nat
    /\ SeedAdmins \in 0..MaxUser

VARIABLES
    users,          \* ids of the existing rows
    isAdmin,        \* User.is_admin
    isPremium,      \* User.is_premium
    premiumExpires, \* User.premium_expires_at, or Never for NULL
    storageLimit,   \* User.storage_limit, in GB
    now,            \* the current instant
    loop,           \* continuation that holds the event loop, or Idle
    setbacks        \* kills and failed commits so far

accountVars == <<users, isAdmin, isPremium, premiumExpires, storageLimit>>
hostVars == <<now, loop, setbacks>>

UserIds == 1..MaxUser
Never == -1
Idle == [at |-> "idle"]

Utc == UtcStart + now
Local == LocalStart + now
Today == Utc \div DayLength

AccountsTypeOK ==
    /\ users \subseteq UserIds
    /\ isAdmin \in [UserIds -> BOOLEAN]
    /\ isPremium \in [UserIds -> BOOLEAN]
    /\ premiumExpires \in [UserIds -> Nat \cup {Never}]
    /\ storageLimit \in [UserIds -> Nat]
    /\ now \in Nat
    /\ setbacks \in Nat

AccountsInit ==
    /\ users = 1..SeedAdmins
    /\ isAdmin = [u \in UserIds |-> u <= SeedAdmins]
    /\ isPremium = [u \in UserIds |-> u <= SeedAdmins]
    /\ premiumExpires = [u \in UserIds |-> Never]
    /\ storageLimit = [u \in UserIds |-> BaseQuota]
    /\ now = 0
    /\ loop = Idle
    /\ setbacks = 0

-----------------------------------------------------------------------------
(* The primary key is INTEGER without AUTOINCREMENT: SQLite gives a new    *)
(* row the largest id in use plus one, so deleting the newest account      *)
(* frees its id for the next registration.                                 *)
NextId(u) ==
    /\ u \in UserIds
    /\ \A v \in users : v < u
    /\ u = 1 \/ u - 1 \in users

InsertUser(u) ==
    /\ loop = Idle
    /\ NextId(u)
    /\ users' = users \cup {u}
    /\ isAdmin' = [isAdmin EXCEPT ![u] = FALSE]
    /\ isPremium' = [isPremium EXCEPT ![u] = FALSE]
    /\ premiumExpires' = [premiumExpires EXCEPT ![u] = Never]
    /\ storageLimit' = [storageLimit EXCEPT ![u] = BaseQuota]
    /\ UNCHANGED hostVars

(* DELETE /users/me; columns of a row that is gone are reset.              *)
RemoveUser(u) ==
    /\ loop = Idle
    /\ u \in users
    /\ users' = users \ {u}
    /\ isAdmin' = [isAdmin EXCEPT ![u] = FALSE]
    /\ isPremium' = [isPremium EXCEPT ![u] = FALSE]
    /\ premiumExpires' = [premiumExpires EXCEPT ![u] = Never]
    /\ storageLimit' = [storageLimit EXCEPT ![u] = BaseQuota]
    /\ UNCHANGED hostVars

(* Mutant of Lapsed: the last instant is already cut off.                  *)
Lapsed_TooEarly(u) ==
    /\ isPremium[u]
    /\ premiumExpires[u] # Never
    /\ Utc >= premiumExpires[u]

(* What get_current_user leaves in the row of the caller: a premium ends   *)
(* by the UTC clock.                                                       *)
Lapsed(u) ==
    /\ isPremium[u]
    /\ premiumExpires[u] # Never
    /\ Utc > premiumExpires[u]

SettlePremium(u) ==
    /\ isPremium' = [isPremium EXCEPT ![u] = @ /\ ~Lapsed(u)]
    /\ storageLimit' = [storageLimit EXCEPT ![u] =
                            IF Lapsed(u) THEN BaseQuota ELSE @]
    /\ UNCHANGED <<users, isAdmin, premiumExpires>>

(* Entry of a handler that depends on get_current_user.                    *)
Request(u) ==
    /\ loop = Idle
    /\ u \in users
    /\ SettlePremium(u)

(* A request whose handler only reads, such as GET /tokens/balance.        *)
ReadOnlyRequest(u) ==
    /\ Request(u)
    /\ UNCHANGED hostVars

-----------------------------------------------------------------------------
(* One request keeps the loop until its last commit.                       *)
Suspend(k) == loop' = k /\ UNCHANGED <<now, setbacks>>
Resume(at) == loop.at = at
Release == loop' = Idle /\ UNCHANGED <<now, setbacks>>

Tick ==
    /\ now < MaxTime
    /\ now' = now + 1
    /\ UNCHANGED <<loop, setbacks>>

Interrupt ==
    /\ setbacks < MaxSetbacks
    /\ setbacks' = setbacks + 1
    /\ loop' = Idle
    /\ UNCHANGED now

(* The process is killed and restarted: the database file survives, the    *)
(* running handler does not.                                               *)
KillProcess == Interrupt

(* The next commit of the running handler raises: what it committed before *)
(* stays, the rest is not executed.                                        *)
CommitFails == loop # Idle /\ Interrupt
=============================================================================
