------------------------------- MODULE Access -------------------------------
(***************************************************************************)
(* Registration, verification, login and the reset of a password           *)
(* (api/auth.py): one e-mail address, one client IP, and the records that  *)
(* the handlers keep of both.                                              *)
(*                                                                         *)
(* No handler awaits, so those of one process run one after another; a     *)
(* request here is in a process of its own, and its steps end where it has *)
(* read what it will write, and at each commit.  SQLAlchemy writes the     *)
(* columns that changed, with the values computed from what was read.      *)
(*                                                                         *)
(* A code is named by its number; that two random codes of six digits are  *)
(* equal is left out.  Code 0 stands for a wrong one.                      *)
(*                                                                         *)
(* Bounds of the model: MaxNow, MaxAccessCalls, MaxAccessKills.            *)
(***************************************************************************)
EXTENDS Integers, Sequences, FiniteSets

CONSTANTS
    Callers,          \* requests in progress at a time
    Nothing,          \* no row, no time
    CodeTTL,          \* VERIFICATION_CODE_TTL_MINUTES
    Cooldown,         \* RESEND_COOLDOWN_SECONDS
    Window,           \* REGISTRATION_WINDOW_HOURS
    MaxRegistrations, \* MAX_REGISTRATIONS_PER_IP
    Rungs,            \* "login", "reset" -> rungs [fails, span], rising
    MaxNow, MaxAccessCalls, MaxAccessKills

VARIABLES
    now,          \* utcnow
    acct,         \* [code, sent, verified] of the address, or Nothing
    inbox,        \* codes that reached the address
    drawn,        \* codes made so far
    ip,           \* [fails, until] of ip_blocks, or Nothing
    reg,          \* [count, since] of registration_limits, or Nothing
    call,         \* requests in progress
    accessBounds, \* [calls, kills] so far
    uses,         \* history: how often each code did something
    issued,       \* history: the last code committed
    inWindow,     \* history: accounts registered in the window of reg
    resetFailed,  \* history: /reset-password counted a failure
    staleIp,      \* history: a failure was counted onto a record that changed
    staleUse,     \* history: a code was used after the row had changed
    overlap       \* history: registrations overlapped, or one was cut short

accessVars == <<now, acct, inbox, drawn, ip, reg, call, accessBounds, uses,
                issued, inWindow, resetFailed, staleIp, staleUse, overlap>>
accessHistory == <<uses, issued, inWindow, resetFailed, staleIp, staleUse,
                   overlap>>

(* The columns of users, ip_blocks and registration_limits used here.      *)
Users == [code : Nat, sent : Nat \cup {Nothing}, verified : BOOLEAN]
IpRecords == [fails : Nat, until : Nat \cup {Nothing}]
Windows == [count : Nat, since : Nat]

ASSUME AccessAssumption ==
    /\ {CodeTTL, Cooldown, Window} \subseteq Nat
    /\ {MaxNow, MaxAccessCalls, MaxAccessKills} \subseteq Nat
    /\ MaxRegistrations \in Nat \ {0}
    /\ Nothing \notin Int \cup Users \cup IpRecords \cup Windows
    /\ \A kind \in {"login", "reset"} :
          /\ Rungs[kind] \in Seq([fails : Nat, span : Nat])
          /\ Len(Rungs[kind]) > 0 /\ Rungs[kind][1].fails > 1
          /\ \A m, n \in DOMAIN Rungs[kind] :
                m < n => Rungs[kind][m].fails < Rungs[kind][n].fails

Idle == [at |-> "idle"]
Wrong == 0
NoCode == 0

AccessTypeOK ==
    /\ now \in 0..MaxNow
    /\ acct = Nothing \/ (/\ acct.code \in 0..drawn /\ acct.verified \in BOOLEAN
                          /\ (acct.code = NoCode) = (acct.sent = Nothing))
    /\ inbox \subseteq 1..drawn
    /\ ip = Nothing \/ (ip.fails \in 0..MaxAccessCalls
                        /\ ip.until \in Nat \cup {Nothing})
    /\ reg = Nothing \/ reg.count \in 0..MaxAccessCalls

AccessInit ==
    /\ now = 0 /\ acct = Nothing /\ inbox = {} /\ drawn = 0
    /\ ip = Nothing /\ reg = Nothing
    /\ call = [c \in Callers |-> Idle]
    /\ accessBounds = [calls |-> 0, kills |-> 0]
    /\ uses = <<>> /\ issued = NoCode /\ inWindow = 0
    /\ resetFailed = FALSE /\ staleIp = FALSE /\ staleUse = FALSE
    /\ overlap = FALSE

Become(c, k) == call' = [call EXCEPT ![c] = k]
CallAt(c, at) == call[c].at = at

Enter(c) ==
    /\ CallAt(c, "idle") /\ accessBounds.calls < MaxAccessCalls
    /\ accessBounds' = [accessBounds EXCEPT !.calls = @ + 1]
    /\ UNCHANGED <<now, acct, inbox, drawn, ip>>

accessRows == <<acct, inbox, drawn, ip, reg>>
Quiet == UNCHANGED <<reg, accessHistory>>

-----------------------------------------------------------------------------
(* The limit by IP: no record, a window that has ended and begins again    *)
(* (a commit of its own), or a count to look at.                           *)
WindowEnded == reg # Nothing /\ reg.since < now - Window
Registering == \E c \in Callers : call[c].at \in {"insert", "count", "counted"}

Register(c, ours) ==
    /\ Enter(c)
    /\ reg' = IF WindowEnded THEN [count |-> 0, since |-> now] ELSE reg
    /\ inWindow' = IF WindowEnded THEN 0 ELSE inWindow
    /\ IF \/ ~WindowEnded /\ reg # Nothing /\ reg.count >= MaxRegistrations
          \/ ours /\ acct # Nothing
       THEN UNCHANGED <<call, overlap>>
       ELSE /\ Become(c, [at |-> "insert", ours |-> ours])
            /\ overlap' = (overlap \/ Registering)
    /\ UNCHANGED <<uses, issued, resetFailed, staleIp, staleUse>>

(* A new code, in the row and, if the mail arrives, in the inbox.          *)
Issue(verified) ==
    /\ drawn' = drawn + 1 /\ issued' = drawn + 1 /\ uses' = Append(uses, 0)
    /\ acct' = [code |-> drawn + 1, sent |-> now, verified |-> verified]
    /\ inbox' \in {inbox, inbox \cup {drawn + 1}}

(* The account is committed; the address is UNIQUE.                        *)
InsertUser(c) ==
    LET ours == call[c].ours IN
    /\ CallAt(c, "insert")
    /\ IF ours /\ acct # Nothing
       THEN /\ Become(c, Idle)
            /\ UNCHANGED <<acct, inbox, drawn, uses, issued, inWindow>>
       ELSE /\ inWindow' = inWindow + 1
            /\ Become(c, [at |-> "count"])
            /\ IF ours THEN Issue(FALSE)
               ELSE UNCHANGED <<acct, inbox, drawn, uses, issued>>
    /\ UNCHANGED <<now, ip, reg, accessBounds, resetFailed, staleIp, staleUse,
                   overlap>>

(* _increment_registration_count, after the account and the mail.          *)
ReadCount(c) ==
    /\ CallAt(c, "count")
    /\ Become(c, [at |-> "counted", seen |-> reg])
    /\ UNCHANGED <<now, accessRows, accessBounds, accessHistory>>

CommitCount(c) ==
    LET seen == call[c].seen IN
    /\ CallAt(c, "counted")
    /\ Become(c, Idle)
    /\ reg' = IF seen # Nothing THEN [reg EXCEPT !.count = seen.count + 1]
              ELSE IF reg = Nothing THEN [count |-> 1, since |-> now]
              ELSE reg
    /\ UNCHANGED <<now, acct, inbox, drawn, ip, accessBounds, accessHistory>>

-----------------------------------------------------------------------------
(* A code that is there, has not expired and is the right one.             *)
Accepted(code) ==
    /\ acct # Nothing /\ acct.code # NoCode
    /\ now <= acct.sent + CodeTTL
    /\ code = acct.code

Verify(c, code) ==
    /\ Enter(c)
    /\ IF Accepted(code) /\ ~acct.verified
       THEN Become(c, [at |-> "use", code |-> code, how |-> "verify"])
       ELSE UNCHANGED call
    /\ Quiet

Cooling == acct.sent # Nothing /\ now - acct.sent < Cooldown

(* /resend-code serves addresses that are not verified, /forgot-password   *)
(* all.                                                                    *)
AskForCode(c, resend) ==
    /\ Enter(c)
    /\ IF acct # Nothing /\ ~Cooling /\ ~(resend /\ acct.verified)
       THEN Become(c, [at |-> "send"]) ELSE UNCHANGED call
    /\ Quiet

SendCode(c) ==
    /\ CallAt(c, "send")
    /\ Become(c, Idle)
    /\ Issue(acct.verified)
    /\ UNCHANGED <<now, ip, reg, accessBounds, inWindow, resetFailed, staleIp,
                   staleUse, overlap>>

(* Mutant of Used: the code stays in the row after a reset.                *)
Used_ResetKeeps(how) ==
    [code     |-> IF how = "verify" THEN NoCode ELSE acct.code,
     sent     |-> IF how = "verify" THEN Nothing ELSE acct.sent,
     verified |-> TRUE]

(* The row after a code was used: both ways verify and clear it.           *)
Used(how) == [code |-> NoCode, sent |-> Nothing, verified |-> TRUE]

UseCode(c) ==
    LET k == call[c] IN
    /\ CallAt(c, "use")
    /\ acct' = Used(k.how)
    /\ uses' = [uses EXCEPT ![k.code] = @ + 1]
    /\ staleUse' = (staleUse \/ acct.code # k.code)
    /\ Become(c, IF k.how = "verify" \/ k.seen = Nothing THEN Idle
                 ELSE [at |-> "clear"])
    /\ UNCHANGED <<now, inbox, drawn, ip, reg, accessBounds, issued, inWindow,
                   resetFailed, staleIp, overlap>>

-----------------------------------------------------------------------------
(* The record of an IP after one more failure: the first one after a block *)
(* begins to count anew, and the highest rung reached sets the next block. *)
AfterFailure(rec, kind) ==
    IF rec = Nothing THEN [fails |-> 1, until |-> Nothing]
    ELSE LET over   == rec.until # Nothing /\ now >= rec.until
             fails  == IF over THEN 1 ELSE rec.fails + 1
             passed == {n \in DOMAIN Rungs[kind] : Rungs[kind][n].fails <= fails}
         IN [fails |-> fails,
             until |-> IF passed # {}
                       THEN now + Rungs[kind][Cardinality(passed)].span
                       ELSE IF over THEN Nothing ELSE rec.until]

Blocked == ip # Nothing /\ ip.until # Nothing /\ now < ip.until

Fail(c, kind) ==
    Become(c, [at |-> "failed", how |-> kind, seen |-> ip,
               new |-> AfterFailure(ip, kind)])

(* /login refuses as long as the IP is blocked.                            *)
Login(c, right) ==
    /\ Enter(c)
    /\ right => acct # Nothing
    /\ IF Blocked THEN UNCHANGED call
       ELSE IF ~right THEN Fail(c, "login")
       ELSE IF ip # Nothing
            THEN Become(c, [at |-> "clear", seen |-> ip]) ELSE UNCHANGED call
    /\ Quiet

(* /reset-password refuses only on its highest rung, and counts a failure  *)
(* for an address, a code or a time that is not right.                     *)
Reset(c, code) ==
    LET top == Rungs["reset"][Len(Rungs["reset"])].fails IN
    /\ Enter(c)
    /\ IF Blocked /\ ip.fails >= top THEN UNCHANGED call
       ELSE IF Accepted(code)
       THEN Become(c, [at |-> "use", code |-> code, how |-> "reset",
                       seen |-> ip])
       ELSE Fail(c, "reset")
    /\ Quiet

(* A new record whose IP got one meanwhile is refused by the key.          *)
CountFailure(c) ==
    LET k == call[c] IN
    /\ CallAt(c, "failed")
    /\ Become(c, Idle)
    /\ ip' = IF ip = Nothing THEN k.new
             ELSE IF k.seen = Nothing THEN ip
             ELSE [fails |-> IF k.new.fails # k.seen.fails THEN k.new.fails
                             ELSE ip.fails,
                   until |-> IF k.new.until # k.seen.until THEN k.new.until
                             ELSE ip.until]
    /\ resetFailed' = (resetFailed \/ k.how = "reset")
    /\ staleIp' = (staleIp \/ ip # k.seen)
    /\ UNCHANGED <<now, acct, inbox, drawn, reg, accessBounds, uses, issued,
                   inWindow, staleUse, overlap>>

(* After a login the record is written where it differs from what was      *)
(* read; after a reset, whose first commit expired it, in any case.        *)
ClearIp(c) ==
    LET k == call[c]
        known == "seen" \in DOMAIN k IN
    /\ CallAt(c, "clear")
    /\ Become(c, Idle)
    /\ ip' = [fails |-> IF known /\ k.seen.fails = 0 THEN ip.fails ELSE 0,
              until |-> IF known /\ k.seen.until = Nothing THEN ip.until
                        ELSE Nothing]
    /\ staleIp' = (staleIp \/ (known /\ ip # k.seen))
    /\ UNCHANGED <<now, acct, inbox, drawn, reg, accessBounds, uses, issued,
                   inWindow, resetFailed, staleUse, overlap>>

-----------------------------------------------------------------------------
AccessTick ==
    /\ now < MaxNow /\ now' = now + 1
    /\ UNCHANGED <<accessRows, call, accessBounds, accessHistory>>

AccessKill(c) ==
    /\ ~CallAt(c, "idle") /\ accessBounds.kills < MaxAccessKills
    /\ accessBounds' = [accessBounds EXCEPT !.kills = @ + 1]
    /\ Become(c, Idle)
    /\ overlap' = (overlap \/ call[c].at \in {"count", "counted"})
    /\ UNCHANGED <<now, accessRows, uses, issued, inWindow, resetFailed, staleIp,
                   staleUse>>

AccessNext ==
    \/ AccessTick
    \/ \E c \in Callers :
          \/ \E ours \in BOOLEAN : Register(c, ours)
          \/ InsertUser(c)
          \/ ReadCount(c)
          \/ CommitCount(c)
          \/ \E code \in inbox \cup {Wrong} : Verify(c, code) \/ Reset(c, code)
          \/ \E resend \in BOOLEAN : AskForCode(c, resend)
          \/ SendCode(c)
          \/ UseCode(c)
          \/ \E right \in BOOLEAN : Login(c, right)
          \/ CountFailure(c)
          \/ ClearIp(c)
          \/ AccessKill(c)

AccessSpec == AccessInit /\ [][AccessNext]_accessVars

-----------------------------------------------------------------------------
(* /verify and /reset-password share the code of an address.  Unless two   *)
(* requests overlap, a code does something once over both of them, and the *)
(* row loses a code only to its own use: neither a wrong or expired guess  *)
(* nor a mail that got lost takes it, nor the use of an older one.         *)
CodesKept ==
    ~staleUse =>
       /\ \A code \in DOMAIN uses : uses[code] <= 1
       /\ (acct # Nothing /\ acct.code = NoCode) => uses[issued] = 1

(* What the records of an IP amount to.  The first failure after a block   *)
(* begins a new count and a blocked IP may not log in, so that failures of *)
(* /login alone never get past the first rung: the higher ones take a      *)
(* failure of /reset-password, which goes on during a block, or two        *)
(* failures at once.  And unless registrations overlap or one is cut off   *)
(* between the account and its count, a window has no more accounts than   *)
(* MAX_REGISTRATIONS_PER_IP.                                               *)
IpRecordsKept ==
    /\ (ip # Nothing /\ ip.fails > Rungs["login"][1].fails)
          => (resetFailed \/ staleIp)
    /\ ~overlap => inWindow <= MaxRegistrations

(* What the codes of an address and the records of an IP guarantee.        *)
AccessKept == CodesKept /\ IpRecordsKept
=============================================================================
