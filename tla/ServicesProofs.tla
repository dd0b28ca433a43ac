--------------------------- MODULE ServicesProofs ---------------------------
(***************************************************************************)
(* What TLAPS proves of the services that stand beside the library, for    *)
(* every value of their constants.                                         *)
(*                                                                         *)
(* Access: a code does something once, only its use takes it out of the    *)
(* row, failures of /login alone stay on the first rung, and an IP         *)
(* registers no more accounts in a window than it may.                     *)
(*                                                                         *)
(* Stations: no URL stands twice in an account's list, which keeps to its  *)
(* limit, and a station with a path has its cover in S3.                   *)
(*                                                                         *)
(* Albums: after an invalidation that nothing overlapped, the caches hold  *)
(* the cover that is in S3, and a track leaves an album only by a request  *)
(* that was told to leave it out.                                          *)
(*                                                                         *)
(* Of each of them the types, and with those of playback the types of the  *)
(* instance that the runs check: every step of it is a step of one of the  *)
(* four components and leaves the others as they are.                      *)
(***************************************************************************)
EXTENDS MCServices, PlaybackProofs, FiniteSetTheorems, SequenceTheorems,
        FunctionTheorems, TLAPS

-----------------------------------------------------------------------------
(* The positions of a sequence of length n are n.                          *)
LEMMA UpToIsFinite ==
    ASSUME NEW n \in Nat
    PROVE  IsFiniteSet(1..n) /\ Cardinality(1..n) = n
<1>1. n \in Int /\ 1 \in Int
  OBVIOUS
<1>2. /\ IsFiniteSet(1..n)
      /\ Cardinality(1..n) = IF 1 > n THEN 0 ELSE n - 1 + 1
  BY <1>1, FS_Interval, Zenon
<1> QED
  BY <1>2

-----------------------------------------------------------------------------
(* Access.  Where a request is, and what it has read.                      *)
Calls ==
    {Idle} \cup [at : {"count", "send", "clear"}]
    \cup [at : {"insert"}, ours : BOOLEAN]
    \cup [at : {"counted"}, seen : Windows \cup {Nothing}]
    \cup [at : {"use"}, code : Nat, how : {"verify"}]
    \cup [at : {"use"}, code : Nat, how : {"reset"},
          seen : IpRecords \cup {Nothing}]
    \cup [at : {"clear"}, seen : IpRecords]
    \cup [at : {"failed"}, how : {"login", "reset"},
          seen : IpRecords \cup {Nothing}, new : IpRecords]

RowsShape ==
    /\ now \in Nat /\ drawn \in Nat /\ inWindow \in Nat
    /\ uses \in Seq(Nat) /\ Len(uses) = drawn
    /\ acct # Nothing =>
          /\ acct \in [code : 0..drawn, sent : Nat \cup {Nothing},
                       verified : BOOLEAN]
          /\ acct.code = NoCode <=> acct.sent = Nothing
    /\ ip \in IpRecords \cup {Nothing} /\ reg \in Windows \cup {Nothing}
    /\ resetFailed \in BOOLEAN /\ staleIp \in BOOLEAN
    /\ staleUse \in BOOLEAN /\ overlap \in BOOLEAN

(* A row that a request has read is still there, whatever became of it:    *)
(* rows of users, ip_blocks and registration_limits are not deleted.       *)
CallShape(k) ==
    /\ k \in Calls
    /\ k.at = "use" => k.code \in 1..drawn
    /\ k.at \in {"use", "send"} => acct # Nothing
    /\ k.at = "clear" => ip # Nothing
    /\ (k.at \in {"use", "failed"} /\ "seen" \in DOMAIN k /\ k.seen # Nothing)
          => ip # Nothing
    /\ (k.at = "counted" /\ k.seen # Nothing) => reg # Nothing

AccessShape ==
    /\ RowsShape /\ DOMAIN call = Callers
    /\ \A c \in Callers : CallShape(call[c])

(* Unless a code was used after the row had changed, the row holds the     *)
(* last code, not used, or the last code was used once.                    *)
CodesOnce ==
    ~staleUse =>
       /\ \A code \in 1..drawn : uses[code] <= 1
       /\ acct # Nothing =>
             /\ issued \in 1..drawn
             /\ IF acct.code = NoCode THEN uses[issued] = 1
                ELSE acct.code = issued /\ uses[issued] = 0

(* A record that reached the first rung of /login blocks its IP.           *)
FirstRung == Rungs["login"][1].fails
Calm(rec) ==
    rec # Nothing => /\ rec.fails <= FirstRung
                     /\ rec.until = Nothing => rec.fails < FirstRung
FailuresCalm ==
    /\ ~resetFailed /\ ~staleIp => Calm(ip)
    /\ \A c \in Callers :
          (CallAt(c, "failed") /\ call[c].how = "login" /\ Calm(call[c].seen))
          => Calm(call[c].new)

(* Unless registrations overlap, one at a time registers, and the record   *)
(* counts every account of the window but the one it is about to count.    *)
Registers(c) == call[c].at \in {"insert", "count", "counted"}
Recorded == IF reg = Nothing THEN 0 ELSE reg.count
WindowCounted ==
    ~overlap =>
       /\ \A c, d \in Callers : Registers(c) /\ Registers(d) => c = d
       /\ inWindow <= MaxRegistrations
       /\ (\A c \in Callers : ~Registers(c)) => inWindow <= Recorded
       /\ \A c \in Callers :
             /\ CallAt(c, "insert") =>
                   inWindow < MaxRegistrations /\ inWindow <= Recorded
             /\ CallAt(c, "count") => inWindow <= Recorded + 1
             /\ CallAt(c, "counted") =>
                   IF call[c].seen = Nothing
                   THEN reg = Nothing /\ inWindow <= 1
                   ELSE inWindow <= call[c].seen.count + 1

AccessInv == AccessShape /\ CodesOnce /\ FailuresCalm /\ WindowCounted

(* The limit of registrations and the bounds of the model are numbers.     *)
LEMMA AccessLimits ==
    MaxRegistrations \in Nat \ {0} /\ MaxNow \in Nat /\ MaxAccessCalls \in Nat
BY AccessAssumption

(* Nothing is no time, no number and no row.                               *)
LEMMA AccessAbsent == Nothing \notin Int \cup Users \cup IpRecords \cup Windows
BY AccessAssumption

(* The initial state satisfies the invariant.                              *)
LEMMA AccessInitially ==
    ASSUME AccessInit
    PROVE  AccessInv
<1>1. uses \in Seq(Nat) /\ Len(uses) = 0
  BY DEF AccessInit
<1>2. AccessShape
  BY <1>1 DEF AccessInit, AccessShape, RowsShape, CallShape, Calls, Idle
<1>3. CodesOnce /\ FailuresCalm
  BY DEF AccessInit, CodesOnce, FailuresCalm, Calm, Idle, CallAt
<1>4. WindowCounted
  BY AccessLimits
     DEF AccessInit, WindowCounted, Registers, Recorded, Idle, CallAt
<1> QED
  BY <1>2, <1>3, <1>4 DEF AccessInv

(* One request moves on and the others stay where they are.                *)
LEMMA CallMoves ==
    ASSUME AccessShape, NEW c \in Callers, NEW k, Become(c, k)
    PROVE  /\ DOMAIN call' = Callers /\ call'[c] = k
           /\ \A d \in Callers \ {c} : call'[d] = call[d]
BY DEF AccessShape, Become

(* The fields of a request follow from where it is.                        *)
LEMMA CallFields ==
    ASSUME AccessShape, NEW c \in Callers
    PROVE  /\ CallAt(c, "insert") => call[c] \in [at : {"insert"}, ours : BOOLEAN]
           /\ CallAt(c, "counted") =>
                 call[c] \in [at : {"counted"}, seen : Windows \cup {Nothing}]
           /\ CallAt(c, "use") =>
                 \/ call[c] \in [at : {"use"}, code : Nat, how : {"verify"}]
                 \/ call[c] \in [at : {"use"}, code : Nat, how : {"reset"},
                                 seen : IpRecords \cup {Nothing}]
           /\ CallAt(c, "clear") =>
                 \/ call[c] = [at |-> "clear"]
                 \/ call[c] \in [at : {"clear"}, seen : IpRecords]
           /\ CallAt(c, "failed") =>
                 call[c] \in [at : {"failed"}, how : {"login", "reset"},
                              seen : IpRecords \cup {Nothing}, new : IpRecords]
<1>1. call[c] \in Calls
  BY DEF AccessShape, CallShape
<1> QED
  BY <1>1 DEF Calls, Idle, CallAt

Others(c) ==
    /\ DOMAIN call' = Callers
    /\ \A d \in Callers \ {c} : call'[d] = call[d]

(* Rows are not lost, so what holds of the other requests stays true.      *)
LEMMA ShapeKept ==
    ASSUME AccessShape, RowsShape', NEW c \in Callers, Others(c),
           CallShape(call[c])', drawn <= drawn',
           acct # Nothing => acct' # Nothing,
           ip # Nothing => ip' # Nothing, reg # Nothing => reg' # Nothing
    PROVE  AccessShape'
<1>1. ASSUME NEW d \in Callers \ {c}
      PROVE  CallShape(call[d])'
  <2>1. CallShape(call[d]) /\ call'[d] = call[d]
    BY DEF AccessShape, Others
  <2>2. drawn \in Nat /\ drawn' \in Nat
    BY DEF AccessShape, RowsShape
  <2>3. call[d].at = "use" => call[d].code \in 1..drawn'
    BY <2>1, <2>2 DEF CallShape
  <2> QED
    BY <2>1, <2>3 DEF CallShape
<1> QED
  BY <1>1 DEF AccessShape, Others

(* The codes, when neither the row nor a code changes.                     *)
LEMMA CodesFrame ==
    ASSUME CodesOnce, UNCHANGED <<acct, drawn, uses, issued, staleUse>>
    PROVE  CodesOnce'
BY DEF CodesOnce

(* The record of the IP, when it stays and no failure is being counted.    *)
LEMMA CalmFrame ==
    ASSUME FailuresCalm, UNCHANGED <<ip, resetFailed, staleIp>>,
           NEW c \in Callers, Others(c), ~CallAt(c, "failed")'
    PROVE  FailuresCalm'
<1>1. (~resetFailed /\ ~staleIp => Calm(ip))'
  BY DEF FailuresCalm, Calm
<1>2. ASSUME NEW d \in Callers
      PROVE  ((CallAt(d, "failed") /\ call[d].how = "login" /\ Calm(call[d].seen))
              => Calm(call[d].new))'
  <2>1. CASE d = c
    BY <2>1 DEF CallAt
  <2>2. CASE d # c
    <3>1. call'[d] = call[d]
      BY <2>2 DEF Others
    <3> QED
      BY <3>1 DEF FailuresCalm, Calm, CallAt
  <2> QED
    BY <2>1, <2>2
<1> QED
  BY <1>1, <1>2 DEF FailuresCalm

(* The window, when no registration moves.                                 *)
LEMMA WindowFrame ==
    ASSUME WindowCounted, UNCHANGED <<reg, inWindow, overlap>>,
           NEW c \in Callers, Others(c), ~Registers(c), ~Registers(c)'
    PROVE  WindowCounted'
<1>1. \A d \in Callers : Registers(d)' <=> Registers(d)
  BY DEF Others, Registers
<1>2. \A d \in Callers : Registers(d) => call'[d] = call[d]
  BY DEF Others
<1>3. \A d \in Callers : /\ CallAt(d, "insert")' => CallAt(d, "insert") /\ Registers(d)
                         /\ CallAt(d, "count")' => CallAt(d, "count") /\ Registers(d)
                         /\ CallAt(d, "counted")' => CallAt(d, "counted") /\ Registers(d)
  BY <1>1, <1>2 DEF Registers, CallAt
<1> QED
  BY <1>1, <1>2, <1>3 DEF WindowCounted, Recorded

-----------------------------------------------------------------------------
(* Access.  One lemma for each step.                                       *)

(* A registration is let in: the rows stay, or the window begins anew.     *)
LEMMA RegisterStep ==
    ASSUME AccessInv, NEW c \in Callers, NEW ours \in BOOLEAN, Register(c, ours)
    PROVE  AccessInv'
<1> USE DEF AccessInv
<1>1. CallAt(c, "idle") /\ UNCHANGED <<now, acct, inbox, drawn, ip, uses, issued,
                                       resetFailed, staleIp, staleUse>>
  BY DEF Register, Enter
<1>2. /\ reg' = IF WindowEnded THEN [count |-> 0, since |-> now] ELSE reg
      /\ inWindow' = IF WindowEnded THEN 0 ELSE inWindow
  BY DEF Register
<1>3. \/ UNCHANGED <<call, overlap>>
      \/ /\ ~(~WindowEnded /\ reg # Nothing /\ reg.count >= MaxRegistrations)
         /\ Become(c, [at |-> "insert", ours |-> ours])
         /\ overlap' = (overlap \/ Registering)
  BY DEF Register
<1>4. Others(c) /\ (call'[c] = call[c] \/ call'[c] = [at |-> "insert", ours |-> ours])
  BY <1>3 DEF Others, Become, AccessShape
<1>5. overlap' \in BOOLEAN
  BY <1>3 DEF AccessShape, RowsShape
<1>6. reg' \in Windows \cup {Nothing} /\ inWindow' \in Nat
  BY <1>2 DEF AccessShape, RowsShape, Windows
<1>7. RowsShape'
  <2>1. RowsShape
    BY DEF AccessShape
  <2> QED
    BY <1>1, <1>5, <1>6, <2>1 DEF RowsShape
<1>8. AccessShape'
  <2>1. reg # Nothing => reg' # Nothing
    <3>1. [count |-> 0, since |-> now] \in Windows
      BY DEF AccessShape, RowsShape, Windows
    <3> QED
      BY <1>2, <3>1, AccessAbsent
  <2>2. CallShape(call[c])'
    <3>1. call[c].at = "idle"
      BY <1>1 DEF CallAt
    <3>2. CASE call'[c] = call[c]
      BY <1>1, <3>1, <3>2 DEF AccessShape, CallShape
    <3>3. CASE call'[c] = [at |-> "insert", ours |-> ours]
      BY <3>3 DEF CallShape, Calls
    <3> QED
      BY <1>4, <3>2, <3>3
  <2>3. drawn <= drawn'
    BY <1>1 DEF AccessShape, RowsShape
  <2> QED
    BY <1>1, <1>4, <1>7, <2>1, <2>2, <2>3, ShapeKept
<1>9. CodesOnce'
  BY <1>1, CodesFrame
<1>10. FailuresCalm'
  <2>1. ~CallAt(c, "failed")'
    BY <1>1, <1>4 DEF CallAt
  <2> QED
    BY <1>1, <1>4, <2>1, CalmFrame
<1>11. WindowCounted'
  <2>1. ~Registers(c)
    BY <1>1 DEF CallAt, Registers
  <2> SUFFICES ASSUME ~overlap' PROVE WindowCounted'
    BY DEF WindowCounted
  <2>2. ~overlap
    BY <1>3 DEF AccessShape, RowsShape
  <2>3. /\ \A d, e \in Callers : Registers(d) /\ Registers(e) => d = e
        /\ inWindow <= MaxRegistrations
        /\ (\A d \in Callers : ~Registers(d)) => inWindow <= Recorded
        /\ \A d \in Callers :
             /\ CallAt(d, "insert") =>
                   inWindow < MaxRegistrations /\ inWindow <= Recorded
             /\ CallAt(d, "count") => inWindow <= Recorded + 1
             /\ CallAt(d, "counted") =>
                   IF call[d].seen = Nothing
                   THEN reg = Nothing /\ inWindow <= 1
                   ELSE inWindow <= call[d].seen.count + 1
    BY <2>2 DEF WindowCounted
  <2>4. CASE UNCHANGED call
    <3>1. inWindow' <= inWindow /\ inWindow' \in Nat /\ inWindow \in Nat
      BY <1>2, <1>6 DEF AccessShape, RowsShape
    <3>2. \A d \in Callers : call[d].at = "counted" /\ call[d].seen # Nothing
             => call[d].seen \in Windows
      BY CallFields DEF CallAt
    <3>3. Recorded' \in Nat /\ Recorded \in Nat
      BY <1>6 DEF Recorded, Windows, AccessShape, RowsShape
    <3>4. (inWindow' = 0 /\ reg # Nothing) \/ (inWindow' = inWindow /\ reg' = reg)
      BY <1>2 DEF WindowEnded
    <3>5. \A d, e \in Callers : (Registers(d) /\ Registers(e) => d = e)'
      BY <2>3, <2>4 DEF Registers
    <3>6. inWindow' <= MaxRegistrations
      BY <2>3, <3>1, AccessLimits
    <3>7. ((\A d \in Callers : ~Registers(d)) => inWindow <= Recorded)'
      BY <2>3, <2>4, <3>1, <3>3, <3>4 DEF Registers, Recorded
    <3>8. ASSUME NEW d \in Callers, CallAt(d, "insert")'
          PROVE  (inWindow < MaxRegistrations /\ inWindow <= Recorded)'
      BY <2>3, <2>4, <3>1, <3>3, <3>4, <3>8, AccessAssumption, SMTT(30) DEF CallAt, Recorded
    <3>9. ASSUME NEW d \in Callers, CallAt(d, "count")'
          PROVE  (inWindow <= Recorded + 1)'
      BY <2>3, <2>4, <3>1, <3>3, <3>4, <3>9 DEF CallAt, Recorded
    <3>10. ASSUME NEW d \in Callers, CallAt(d, "counted")'
           PROVE  (IF call[d].seen = Nothing
                   THEN reg = Nothing /\ inWindow <= 1
                   ELSE inWindow <= call[d].seen.count + 1)'
      <4>1. CallAt(d, "counted") /\ call'[d].seen = call[d].seen
        BY <2>4, <3>10 DEF CallAt
      <4>2. CASE call[d].seen = Nothing
        BY <1>2, <2>3, <4>1, <4>2 DEF WindowEnded
      <4>3. CASE call[d].seen # Nothing
        BY <2>3, <3>1, <3>2, <4>1, <4>3 DEF CallAt, Windows
      <4> QED
        BY <4>1, <4>2, <4>3
    <3> QED
      BY <3>5, <3>6, <3>7, <3>8, <3>9, <3>10 DEF WindowCounted
  <2>5. CASE /\ ~(~WindowEnded /\ reg # Nothing /\ reg.count >= MaxRegistrations)
             /\ Become(c, [at |-> "insert", ours |-> ours])
             /\ overlap' = (overlap \/ Registering)
    <3>1. \A d \in Callers : ~Registers(d)
      BY <2>5 DEF Registering, Registers
    <3>2. call'[c] = [at |-> "insert", ours |-> ours]
      BY <2>5, CallMoves
    <3>3. \A d \in Callers \ {c} : ~Registers(d)'
      BY <1>4, <3>1 DEF Registers, Others
    <3>4. inWindow <= Recorded /\ inWindow \in Nat /\ Recorded \in Nat
      BY <2>3, <3>1 DEF AccessShape, RowsShape, Recorded, Windows
    <3>5. inWindow' <= Recorded'
      BY <1>2, <3>4 DEF Recorded, WindowEnded
    <3>6. inWindow' < MaxRegistrations
      BY <1>2, <2>5, <3>4, AccessLimits
         DEF Recorded, WindowEnded, Windows, AccessShape, RowsShape
    <3>7. \A d \in Callers : ~CallAt(d, "count")' /\ ~CallAt(d, "counted")'
      BY <3>2, <3>3 DEF CallAt, Registers
    <3>8. CallAt(c, "insert")'
      BY <3>2 DEF CallAt
    <3>9. inWindow' <= MaxRegistrations
      BY <1>6, <3>6, AccessLimits
    <3> QED
      BY <3>3, <3>5, <3>6, <3>7, <3>8, <3>9 DEF WindowCounted, Registers, CallAt
  <2> QED
    BY <1>3, <2>4, <2>5
<1> QED
  BY <1>8, <1>9, <1>10, <1>11

(* A new code: the row holds it, and it was used by nobody.                *)
LEMMA IssueKeeps ==
    ASSUME RowsShape, CodesOnce, NEW verified \in BOOLEAN, Issue(verified),
           UNCHANGED <<now, staleUse>>
    PROVE  /\ CodesOnce' /\ drawn' \in Nat /\ drawn <= drawn'
           /\ uses' \in Seq(Nat) /\ Len(uses') = drawn'
           /\ acct' # Nothing
           /\ acct' \in [code : 0..drawn', sent : Nat \cup {Nothing},
                         verified : BOOLEAN]
           /\ acct'.code = NoCode <=> acct'.sent = Nothing
<1>1. drawn' = drawn + 1 /\ issued' = drawn + 1 /\ uses' = Append(uses, 0)
      /\ acct' = [code |-> drawn + 1, sent |-> now, verified |-> verified]
  BY DEF Issue
<1>2. uses \in Seq(Nat) /\ Len(uses) = drawn /\ drawn \in Nat /\ now \in Nat
  BY DEF RowsShape
<1>3. uses' \in Seq(Nat) /\ Len(uses') = drawn' /\ uses'[drawn + 1] = 0
      /\ \A n \in 1..drawn : uses'[n] = uses[n]
  BY <1>1, <1>2
<1>4. now # Nothing
  BY <1>2, AccessAbsent
<1>5. CodesOnce'
  <2>1. \A code \in 1..drawn' : code \in 1..drawn \/ code = drawn + 1
    BY <1>1, <1>2
  <2>2. ~staleUse => \A code \in 1..drawn' : uses'[code] <= 1
    BY <1>2, <1>3, <2>1 DEF CodesOnce
  <2>3. issued' \in 1..drawn' /\ acct'.code # NoCode /\ acct'.code = issued'
        /\ uses'[issued'] = 0
    BY <1>1, <1>2, <1>3 DEF NoCode
  <2> QED
    BY <2>2, <2>3 DEF CodesOnce
<1>6. acct' # Nothing
  <2>1. acct' \in Users
    BY <1>1, <1>2 DEF Users
  <2> QED
    BY <2>1, AccessAbsent
<1> QED
  BY <1>1, <1>2, <1>3, <1>4, <1>5, <1>6 DEF NoCode

(* The window, when the one request that registers moves.                  *)
LEMMA WindowMove ==
    ASSUME WindowCounted, NEW c \in Callers, Others(c), Registers(c),
           ~overlap' => ~overlap,
           ~overlap' => /\ inWindow' <= MaxRegistrations
                        /\ ~Registers(c)' => inWindow' <= Recorded'
                        /\ CallAt(c, "insert")' =>
                              inWindow' < MaxRegistrations /\ inWindow' <= Recorded'
                        /\ CallAt(c, "count")' => inWindow' <= Recorded' + 1
                        /\ CallAt(c, "counted")' =>
                              IF call'[c].seen = Nothing
                              THEN reg' = Nothing /\ inWindow' <= 1
                              ELSE inWindow' <= call'[c].seen.count + 1
    PROVE  WindowCounted'
<1> SUFFICES ASSUME ~overlap' PROVE WindowCounted'
  BY DEF WindowCounted
<1>1. \A d \in Callers \ {c} : ~Registers(d)'
  BY DEF WindowCounted, Others, Registers
<1>2. \A d \in Callers \ {c} :
         ~CallAt(d, "insert")' /\ ~CallAt(d, "count")' /\ ~CallAt(d, "counted")'
  BY <1>1 DEF Registers, CallAt
<1>3. ((\A d \in Callers : ~Registers(d)) => inWindow <= Recorded)'
  <2>1. (\A d \in Callers : ~Registers(d)') => ~Registers(c)'
    OBVIOUS
  <2> QED
    BY <2>1
<1>4. \A d \in Callers :
         /\ CallAt(d, "insert")' =>
               inWindow' < MaxRegistrations /\ inWindow' <= Recorded'
         /\ CallAt(d, "count")' => inWindow' <= Recorded' + 1
         /\ CallAt(d, "counted")' =>
               IF call'[d].seen = Nothing
               THEN reg' = Nothing /\ inWindow' <= 1
               ELSE inWindow' <= call'[d].seen.count + 1
  BY <1>2
<1>5. \A d, e \in Callers : Registers(d)' /\ Registers(e)' => d = e
  BY <1>1
<1>6. inWindow' <= MaxRegistrations
  OBVIOUS
<1> QED
  BY <1>3, <1>4, <1>5, <1>6 DEF WindowCounted

(* The account is committed: one more in the window, still to be counted.  *)
LEMMA InsertStep ==
    ASSUME AccessInv, NEW c \in Callers, InsertUser(c)
    PROVE  AccessInv'
<1> USE DEF AccessInv
<1>1. CallAt(c, "insert") /\ UNCHANGED <<now, ip, reg, resetFailed, staleIp,
                                         staleUse, overlap>>
  BY DEF InsertUser
<1>2. call[c] \in [at : {"insert"}, ours : BOOLEAN]
  BY <1>1, CallFields
<1>3. \/ /\ Become(c, Idle) /\ UNCHANGED <<acct, drawn, uses, issued, inWindow>>
      \/ /\ Become(c, [at |-> "count"]) /\ inWindow' = inWindow + 1
         /\ \/ \E verified \in BOOLEAN : Issue(verified)
            \/ UNCHANGED <<acct, drawn, uses, issued>>
  BY DEF InsertUser
<1>4. Others(c) /\ call'[c] \in {Idle, [at |-> "count"]}
  BY <1>3, CallMoves DEF Others
<1>5. inWindow' \in Nat
  BY <1>3 DEF AccessShape, RowsShape
<1>6. /\ drawn' \in Nat /\ drawn <= drawn' /\ uses' \in Seq(Nat)
      /\ Len(uses') = drawn' /\ (acct # Nothing => acct' # Nothing)
      /\ acct' # Nothing =>
            /\ acct' \in [code : 0..drawn', sent : Nat \cup {Nothing},
                          verified : BOOLEAN]
            /\ acct'.code = NoCode <=> acct'.sent = Nothing
      /\ CodesOnce'
  <2>1. CASE \E verified \in BOOLEAN : Issue(verified)
    BY <1>1, <2>1, IssueKeeps DEF AccessShape
  <2>2. CASE UNCHANGED <<acct, drawn, uses, issued>>
    BY <1>1, <2>2, CodesFrame DEF AccessShape, RowsShape
  <2> QED
    BY <1>3, <2>1, <2>2
<1>7. RowsShape'
  BY <1>1, <1>5, <1>6 DEF AccessShape, RowsShape
<1>8. AccessShape'
  <2>1. CallShape(call[c])'
    BY <1>4 DEF CallShape, Calls, Idle
  <2> QED
    BY <1>1, <1>4, <1>6, <1>7, <2>1, ShapeKept
<1>9. FailuresCalm'
  <2>1. ~CallAt(c, "failed")'
    BY <1>4 DEF CallAt, Idle
  <2> QED
    BY <1>1, <1>4, <2>1, CalmFrame
<1>10. WindowCounted'
  <2>1. Registers(c)
    BY <1>1 DEF CallAt, Registers
  <2>2. ~overlap => inWindow < MaxRegistrations /\ inWindow <= Recorded
    BY <1>1 DEF WindowCounted
  <2>3. inWindow' <= inWindow + 1 /\ inWindow \in Nat /\ Recorded \in Nat
    BY <1>3 DEF AccessShape, RowsShape, Recorded, Windows
  <2>4. call'[c] = Idle => inWindow' = inWindow
    <3>1. [at |-> "count"] # Idle
      BY DEF Idle
    <3> QED
      BY <1>3, <3>1, CallMoves
  <2>5. /\ ~CallAt(c, "insert")' /\ ~CallAt(c, "counted")'
        /\ ~Registers(c)' => call'[c] = Idle
    BY <1>4 DEF CallAt, Registers, Idle
  <2>6. Recorded' = Recorded
    BY <1>1 DEF Recorded
  <2>7. ~overlap' => inWindow' <= MaxRegistrations /\ inWindow' <= Recorded' + 1
    BY <1>1, <1>5, <2>2, <2>3, <2>6, AccessLimits
  <2>8. ~overlap' => (~Registers(c)' => inWindow' <= Recorded')
    BY <1>1, <2>2, <2>4, <2>5, <2>6
  <2> QED
    BY <1>1, <1>4, <2>1, <2>5, <2>7, <2>8, WindowMove
<1> QED
  BY <1>6, <1>8, <1>9, <1>10

(* The count is read, to be written as one more.                           *)
LEMMA ReadCountStep ==
    ASSUME AccessInv, NEW c \in Callers, ReadCount(c)
    PROVE  AccessInv'
<1> USE DEF AccessInv
<1>1. CallAt(c, "count") /\ UNCHANGED <<now, acct, inbox, drawn, ip, reg>>
      /\ UNCHANGED accessHistory
  BY DEF ReadCount, accessRows
<1>2. Others(c) /\ call'[c] = [at |-> "counted", seen |-> reg]
  BY DEF ReadCount, Others, Become, AccessShape
<1>3. RowsShape'
  BY <1>1 DEF AccessShape, RowsShape, accessHistory
<1>4. AccessShape'
  <2>1. CallShape(call[c])'
    BY <1>1, <1>2 DEF CallShape, Calls, AccessShape, RowsShape
  <2>2. drawn <= drawn'
    BY <1>1 DEF AccessShape, RowsShape
  <2> QED
    BY <1>1, <1>2, <1>3, <2>1, <2>2, ShapeKept
<1>5. CodesOnce'
  BY <1>1, CodesFrame DEF accessHistory
<1>6. FailuresCalm'
  <2>1. ~CallAt(c, "failed")'
    BY <1>2 DEF CallAt
  <2> QED
    BY <1>1, <1>2, <2>1, CalmFrame DEF accessHistory
<1>7. WindowCounted'
  <2>1. Registers(c) /\ Registers(c)' /\ ~CallAt(c, "insert")' /\ ~CallAt(c, "count")'
    BY <1>1, <1>2 DEF CallAt, Registers
  <2>2. ~overlap => inWindow <= Recorded + 1 /\ inWindow <= MaxRegistrations
    BY <1>1 DEF WindowCounted
  <2>3. ~overlap' => IF call'[c].seen = Nothing
                     THEN reg' = Nothing /\ inWindow' <= 1
                     ELSE inWindow' <= call'[c].seen.count + 1
    BY <1>1, <1>2, <2>2 DEF Recorded, accessHistory
  <2>4. ~overlap' => inWindow' <= MaxRegistrations
    BY <1>1, <2>2 DEF accessHistory
  <2>5. ~overlap' => ~overlap
    BY <1>1 DEF accessHistory
  <2> QED
    BY <1>2, <2>1, <2>3, <2>4, <2>5, WindowMove
<1> QED
  BY <1>4, <1>5, <1>6, <1>7

(* The count is written from what was read.                                *)
LEMMA CommitCountStep ==
    ASSUME AccessInv, NEW c \in Callers, CommitCount(c)
    PROVE  AccessInv'
<1> USE DEF AccessInv
<1>1. CallAt(c, "counted") /\ UNCHANGED <<now, acct, inbox, drawn, ip>>
      /\ UNCHANGED accessHistory
  BY DEF CommitCount
<1>2. Others(c) /\ call'[c] = Idle
  BY DEF CommitCount, Others, Become, AccessShape
<1>3. call[c] \in [at : {"counted"}, seen : Windows \cup {Nothing}]
  BY <1>1, CallFields
<1>4. reg' = IF call[c].seen # Nothing
             THEN [reg EXCEPT !.count = call[c].seen.count + 1]
             ELSE IF reg = Nothing THEN [count |-> 1, since |-> now] ELSE reg
  BY DEF CommitCount
<1>5. call[c].seen # Nothing => reg # Nothing
  BY <1>1 DEF AccessShape, CallShape, CallAt
<1>6. reg \in Windows \cup {Nothing} /\ now \in Nat
  BY DEF AccessShape, RowsShape
<1>7. reg' \in Windows /\ reg' # Nothing
  <2>1. reg' \in Windows
    BY <1>3, <1>4, <1>5, <1>6 DEF Windows
  <2> QED
    BY <2>1, AccessAbsent
<1>8. RowsShape'
  BY <1>1, <1>7 DEF AccessShape, RowsShape, accessHistory
<1>9. AccessShape'
  <2>1. CallShape(call[c])'
    BY <1>2 DEF CallShape, Calls, Idle
  <2>2. drawn <= drawn'
    BY <1>1 DEF AccessShape, RowsShape
  <2> QED
    BY <1>1, <1>2, <1>7, <1>8, <2>1, <2>2, ShapeKept
<1>10. CodesOnce'
  BY <1>1, CodesFrame DEF accessHistory
<1>11. FailuresCalm'
  <2>1. ~CallAt(c, "failed")'
    BY <1>2 DEF CallAt, Idle
  <2> QED
    BY <1>1, <1>2, <2>1, CalmFrame DEF accessHistory
<1>12. WindowCounted'
  <2>1. Registers(c) /\ ~Registers(c)'
    BY <1>1, <1>2 DEF CallAt, Registers, Idle
  <2>2. ~overlap => /\ inWindow <= MaxRegistrations
                    /\ IF call[c].seen = Nothing THEN reg = Nothing /\ inWindow <= 1
                       ELSE inWindow <= call[c].seen.count + 1
    BY <1>1 DEF WindowCounted
  <2>3. ~overlap => inWindow <= Recorded'
    BY <1>3, <1>4, <1>5, <1>6, <1>7, <2>2 DEF Recorded, Windows
  <2>4. inWindow' = inWindow /\ overlap' = overlap
    BY <1>1 DEF accessHistory
  <2>5. ~CallAt(c, "insert")' /\ ~CallAt(c, "count")' /\ ~CallAt(c, "counted")'
    BY <2>1 DEF Registers, CallAt
  <2> QED
    BY <1>2, <2>1, <2>2, <2>3, <2>4, <2>5, WindowMove
<1> QED
  BY <1>9, <1>10, <1>11, <1>12

(* A request comes in that registers nothing and writes nothing yet.       *)
LEMMA EnterKeeps ==
    ASSUME AccessInv, NEW c \in Callers, Enter(c), Quiet, Others(c),
           CallShape(call[c])', ~Registers(c)',
           (CallAt(c, "failed") /\ call[c].how = "login" /\ Calm(call[c].seen)
              => Calm(call[c].new))'
    PROVE  AccessInv'
<1> USE DEF AccessInv
<1>1. CallAt(c, "idle") /\ UNCHANGED <<now, acct, inbox, drawn, ip, reg>>
      /\ UNCHANGED accessHistory
  BY DEF Enter, Quiet
<1>2. RowsShape'
  BY <1>1 DEF AccessShape, RowsShape, accessHistory
<1>3. AccessShape'
  <2>1. drawn <= drawn'
    BY <1>1 DEF AccessShape, RowsShape
  <2> QED
    BY <1>1, <1>2, <2>1, ShapeKept
<1>4. CodesOnce'
  BY <1>1, CodesFrame DEF accessHistory
<1>5. FailuresCalm'
  <2>1. (~resetFailed /\ ~staleIp => Calm(ip))'
    BY <1>1 DEF FailuresCalm, Calm, accessHistory
  <2>2. ASSUME NEW d \in Callers \ {c}
        PROVE  ((CallAt(d, "failed") /\ call[d].how = "login" /\ Calm(call[d].seen))
                => Calm(call[d].new))'
    <3>1. call'[d] = call[d]
      BY DEF Others
    <3> QED
      BY <3>1 DEF FailuresCalm, Calm, CallAt
  <2> QED
    BY <2>1, <2>2 DEF FailuresCalm
<1>6. WindowCounted'
  <2>1. ~Registers(c)
    BY <1>1 DEF CallAt, Registers
  <2> QED
    BY <1>1, <2>1, WindowFrame DEF accessHistory
<1> QED
  BY <1>3, <1>4, <1>5, <1>6

(* A request that was refused, or became k.                                *)
LEMMA EnterOthers ==
    ASSUME AccessShape, NEW c \in Callers, NEW k, Become(c, k) \/ UNCHANGED call
    PROVE  Others(c) /\ (call'[c] = call[c] \/ call'[c] = k)
BY DEF Others, Become, AccessShape

(* A refused request is where it was.                                      *)
LEMMA IdleKeeps ==
    ASSUME AccessInv, NEW c \in Callers, Enter(c), Quiet, UNCHANGED call
    PROVE  AccessInv'
<1> USE DEF AccessInv
<1>1. Others(c) /\ call'[c] = call[c] /\ CallAt(c, "idle")
  BY DEF Others, AccessShape, Enter
<1>2. CallShape(call[c])'
  BY <1>1 DEF AccessShape, CallShape, CallAt
<1>3. ~Registers(c)' /\ ~CallAt(c, "failed")'
  BY <1>1 DEF CallAt, Registers
<1> QED
  BY <1>1, <1>2, <1>3, EnterKeeps

(* A code that is accepted is the one of the row, and was issued.          *)
LEMMA AcceptedIsIssued ==
    ASSUME RowsShape, NEW code, Accepted(code)
    PROVE  code \in 1..drawn /\ acct # Nothing
BY DEF RowsShape, Accepted, NoCode

(* /verify reads the code, and will use it.                                *)
LEMMA VerifyStep ==
    ASSUME AccessInv, NEW c \in Callers, NEW code, Verify(c, code)
    PROVE  AccessInv'
<1> USE DEF AccessInv
<1>1. Enter(c) /\ Quiet
  BY DEF Verify
<1>2. CASE UNCHANGED call
  BY <1>1, <1>2, IdleKeeps
<1>3. CASE /\ Accepted(code)
           /\ Become(c, [at |-> "use", code |-> code, how |-> "verify"])
  <2>1. Others(c) /\ call'[c] = [at |-> "use", code |-> code, how |-> "verify"]
    BY <1>3 DEF Others, Become, AccessShape
  <2>2. code \in 1..drawn /\ acct # Nothing /\ drawn \in Nat
    BY <1>3, AcceptedIsIssued DEF AccessShape, RowsShape
  <2>3. UNCHANGED <<acct, drawn, ip, reg>>
    BY <1>1 DEF Enter, Quiet
  <2>4. CallShape(call[c])'
    BY <2>1, <2>2, <2>3 DEF CallShape, Calls
  <2>5. ~Registers(c)' /\ ~CallAt(c, "failed")'
    BY <2>1 DEF CallAt, Registers
  <2> QED
    BY <1>1, <2>1, <2>4, <2>5, EnterKeeps
<1> QED
  BY <1>2, <1>3 DEF Verify

(* A code is asked for, and will be sent.                                  *)
LEMMA AskStep ==
    ASSUME AccessInv, NEW c \in Callers, NEW resend \in BOOLEAN,
           AskForCode(c, resend)
    PROVE  AccessInv'
<1> USE DEF AccessInv
<1>1. Enter(c) /\ Quiet
  BY DEF AskForCode
<1>2. CASE UNCHANGED call
  BY <1>1, <1>2, IdleKeeps
<1>3. CASE acct # Nothing /\ Become(c, [at |-> "send"])
  <2>1. Others(c) /\ call'[c] = [at |-> "send"]
    BY <1>3 DEF Others, Become, AccessShape
  <2>2. UNCHANGED acct
    BY <1>1 DEF Enter
  <2>3. CallShape(call[c])'
    BY <1>3, <2>1, <2>2 DEF CallShape, Calls
  <2>4. ~Registers(c)' /\ ~CallAt(c, "failed")'
    BY <2>1 DEF CallAt, Registers
  <2> QED
    BY <1>1, <2>1, <2>3, <2>4, EnterKeeps
<1> QED
  BY <1>2, <1>3 DEF AskForCode

(* The new code takes the place of the last one.                           *)
LEMMA SendStep ==
    ASSUME AccessInv, NEW c \in Callers, SendCode(c)
    PROVE  AccessInv'
<1> USE DEF AccessInv
<1>1. CallAt(c, "send") /\ Issue(acct.verified)
      /\ UNCHANGED <<now, ip, reg, inWindow, resetFailed, staleIp, staleUse, overlap>>
  BY DEF SendCode
<1>2. Others(c) /\ call'[c] = Idle
  BY DEF SendCode, Others, Become, AccessShape
<1>3. acct # Nothing /\ acct.verified \in BOOLEAN
  BY <1>1 DEF AccessShape, CallShape, CallAt, RowsShape
<1>4. PICK verified \in BOOLEAN : Issue(verified)
  BY <1>1, <1>3
<1>5. /\ CodesOnce' /\ drawn' \in Nat /\ drawn <= drawn'
      /\ uses' \in Seq(Nat) /\ Len(uses') = drawn'
      /\ acct' # Nothing
      /\ acct' \in [code : 0..drawn', sent : Nat \cup {Nothing}, verified : BOOLEAN]
      /\ acct'.code = NoCode <=> acct'.sent = Nothing
  BY <1>1, <1>4, IssueKeeps DEF AccessShape
<1>6. RowsShape'
  BY <1>1, <1>5 DEF AccessShape, RowsShape
<1>7. AccessShape'
  <2>1. CallShape(call[c])'
    BY <1>2 DEF CallShape, Calls, Idle
  <2> QED
    BY <1>1, <1>2, <1>5, <1>6, <2>1, ShapeKept
<1>8. FailuresCalm'
  <2>1. ~CallAt(c, "failed")'
    BY <1>2 DEF CallAt, Idle
  <2> QED
    BY <1>1, <1>2, <2>1, CalmFrame
<1>9. WindowCounted'
  <2>1. ~Registers(c) /\ ~Registers(c)'
    BY <1>1, <1>2 DEF CallAt, Registers, Idle
  <2> QED
    BY <1>1, <1>2, <2>1, WindowFrame
<1> QED
  BY <1>5, <1>7, <1>8, <1>9

(* A code is used: once, unless the row changed since it was compared.     *)
LEMMA UseStep ==
    ASSUME AccessInv, NEW c \in Callers, UseCode(c)
    PROVE  AccessInv'
<1> USE DEF AccessInv
<1>1. CallAt(c, "use") /\ UNCHANGED <<now, drawn, ip, reg, issued, inWindow,
                                      resetFailed, staleIp, overlap>>
  BY DEF UseCode
<1>2. /\ acct' = [code |-> NoCode, sent |-> Nothing, verified |-> TRUE]
      /\ uses' = [uses EXCEPT ![call[c].code] = @ + 1]
      /\ staleUse' = (staleUse \/ acct.code # call[c].code)
  BY DEF UseCode, Used
<1>3. Others(c) /\ call'[c] = IF call[c].how = "verify" \/ call[c].seen = Nothing
                              THEN Idle ELSE [at |-> "clear"]
  BY DEF UseCode, Others, Become, AccessShape
<1>4. call[c].code \in 1..drawn /\ acct # Nothing
  BY <1>1 DEF AccessShape, CallShape, CallAt
<1>5. uses \in Seq(Nat) /\ Len(uses) = drawn /\ drawn \in Nat
  BY DEF AccessShape, RowsShape
<1>6. /\ uses' \in Seq(Nat) /\ Len(uses') = drawn
      /\ uses'[call[c].code] = uses[call[c].code] + 1
      /\ \A n \in 1..drawn : n # call[c].code => uses'[n] = uses[n]
  BY <1>2, <1>4, <1>5
<1>7. acct' # Nothing
  <2>1. acct' \in Users
    BY <1>2 DEF Users, NoCode
  <2> QED
    BY <2>1, AccessAbsent
<1>8. RowsShape'
  <2>1. staleUse' \in BOOLEAN
    BY <1>2 DEF AccessShape, RowsShape
  <2>2. /\ acct' \in [code : 0..drawn', sent : Nat \cup {Nothing}, verified : BOOLEAN]
        /\ acct'.code = NoCode <=> acct'.sent = Nothing
    BY <1>1, <1>2, <1>5 DEF NoCode
  <2> QED
    BY <1>1, <1>5, <1>6, <2>1, <2>2 DEF AccessShape, RowsShape
<1>9. AccessShape'
  <2>1. CASE call'[c] = Idle
    <3>1. CallShape(call[c])'
      BY <2>1 DEF CallShape, Calls, Idle
    <3> QED
      BY <1>1, <1>3, <1>5, <1>7, <1>8, <3>1, ShapeKept
  <2>2. CASE call'[c] = [at |-> "clear"] /\ call[c].how # "verify"
             /\ call[c].seen # Nothing
    <3>1. "seen" \in DOMAIN call[c]
      BY <1>1, <2>2, CallFields
    <3>2. ip' # Nothing
      BY <1>1, <2>2, <3>1 DEF AccessShape, CallShape, CallAt
    <3>3. CallShape(call[c])'
      BY <2>2, <3>2 DEF CallShape, Calls
    <3> QED
      BY <1>1, <1>3, <1>5, <1>7, <1>8, <3>3, ShapeKept
  <2> QED
    BY <1>3, <2>1, <2>2
<1>10. CodesOnce'
  <2> SUFFICES ASSUME ~staleUse' PROVE CodesOnce'
    BY DEF CodesOnce
  <2>1. ~staleUse /\ acct.code = call[c].code
    BY <1>2 DEF AccessShape, RowsShape
  <2>2. /\ \A code \in 1..drawn : uses[code] <= 1
        /\ issued \in 1..drawn /\ call[c].code = issued /\ uses[issued] = 0
    BY <1>4, <2>1 DEF CodesOnce, NoCode
  <2>3. uses'[issued] = 1
    BY <1>6, <2>2
  <2>4. \A code \in 1..drawn : uses'[code] <= 1
    BY <1>6, <2>2, <2>3
  <2> QED
    BY <1>1, <1>2, <2>2, <2>3, <2>4 DEF CodesOnce
<1>11. FailuresCalm'
  <2>1. ~CallAt(c, "failed")'
    BY <1>3 DEF CallAt, Idle
  <2> QED
    BY <1>1, <1>3, <2>1, CalmFrame
<1>12. WindowCounted'
  <2>1. ~Registers(c) /\ ~Registers(c)'
    BY <1>1, <1>3 DEF CallAt, Registers, Idle
  <2> QED
    BY <1>1, <1>3, <2>1, WindowFrame
<1> QED
  BY <1>9, <1>10, <1>11, <1>12

-----------------------------------------------------------------------------
(* Access.  Failures and the IP they are counted for.                      *)
Reached(kind, fails) == {n \in DOMAIN Rungs[kind] : Rungs[kind][n].fails <= fails}

(* The block that a count of failures sets is one of the ladder's.         *)
LEMMA ReachedRung ==
    ASSUME NEW kind \in {"login", "reset"}, NEW fails \in Nat,
           Reached(kind, fails) # {}
    PROVE  Rungs[kind][Cardinality(Reached(kind, fails))].span \in Nat
<1>1. Rungs[kind] \in Seq([fails : Nat, span : Nat])
  BY AccessAssumption
<1>2. DOMAIN Rungs[kind] = 1..Len(Rungs[kind]) /\ Len(Rungs[kind]) \in Nat
  BY <1>1
<1>3. IsFiniteSet(1..Len(Rungs[kind])) /\ Cardinality(1..Len(Rungs[kind])) = Len(Rungs[kind])
  BY <1>2, UpToIsFinite
<1>4. Reached(kind, fails) \subseteq 1..Len(Rungs[kind])
  BY <1>2 DEF Reached
<1>5. /\ IsFiniteSet(Reached(kind, fails))
      /\ Cardinality(Reached(kind, fails)) <= Len(Rungs[kind])
  BY <1>3, <1>4, FS_Subset
<1>6. Cardinality(Reached(kind, fails)) \in Nat
      /\ Cardinality(Reached(kind, fails)) # 0
  BY <1>5, FS_CardinalityType, FS_EmptySet
<1>7. Cardinality(Reached(kind, fails)) \in DOMAIN Rungs[kind]
  BY <1>2, <1>5, <1>6
<1>8. \A n \in DOMAIN Rungs[kind] : Rungs[kind][n] \in [fails : Nat, span : Nat]
  BY <1>1, <1>2, ElementOfSeq
<1> QED
  BY <1>7, <1>8

(* AfterFailure, with the rungs reached by name.                           *)
LEMMA AfterFailureIs ==
    ASSUME NEW rec, NEW kind
    PROVE  AfterFailure(rec, kind) =
             IF rec = Nothing THEN [fails |-> 1, until |-> Nothing]
             ELSE LET over  == rec.until # Nothing /\ now >= rec.until
                      fails == IF over THEN 1 ELSE rec.fails + 1
                  IN [fails |-> fails,
                      until |-> IF Reached(kind, fails) # {}
                                THEN now + Rungs[kind][Cardinality(
                                             Reached(kind, fails))].span
                                ELSE IF over THEN Nothing ELSE rec.until]
BY DEF AfterFailure, Reached

(* A record after a failure is a record.                                   *)
LEMMA FailureShape ==
    ASSUME NEW rec \in IpRecords \cup {Nothing}, NEW kind \in {"login", "reset"},
           now \in Nat
    PROVE  AfterFailure(rec, kind) \in IpRecords
<1>1. CASE rec = Nothing
  BY <1>1, AfterFailureIs DEF IpRecords
<1>2. CASE rec # Nothing
  <2> DEFINE over  == rec.until # Nothing /\ now >= rec.until
             fails == IF over THEN 1 ELSE rec.fails + 1
             span  == Rungs[kind][Cardinality(Reached(kind, fails))].span
  <2>1. rec.until \in Nat \cup {Nothing} /\ rec.fails \in Nat
    BY <1>2 DEF IpRecords
  <2>2. fails \in Nat
    BY <2>1
  <2>3. Reached(kind, fails) # {} => span \in Nat
    BY <2>2, ReachedRung
  <2>4. AfterFailure(rec, kind) =
          [fails |-> fails,
           until |-> IF Reached(kind, fails) # {} THEN now + span
                     ELSE IF over THEN Nothing ELSE rec.until]
    BY <1>2, AfterFailureIs
  <2> HIDE DEF fails, span
  <2> QED
    BY <2>1, <2>2, <2>3, <2>4 DEF IpRecords
<1> QED
  BY <1>1, <1>2

(* A failure of an IP that is not blocked reaches the first rung at most.  *)
LEMMA FailureCalm ==
    ASSUME NEW rec \in IpRecords \cup {Nothing}, now \in Nat, Calm(rec),
           ~(rec # Nothing /\ rec.until # Nothing /\ now < rec.until)
    PROVE  Calm(AfterFailure(rec, "login"))
<1>1. /\ FirstRung \in Nat /\ FirstRung > 1
      /\ 1 \in DOMAIN Rungs["login"]
      /\ \A n \in DOMAIN Rungs["login"] :
            Rungs["login"][n].fails \in Nat /\ Rungs["login"][n].fails >= FirstRung
  <2>1. Rungs["login"] \in Seq([fails : Nat, span : Nat]) /\ Len(Rungs["login"]) > 0
        /\ Rungs["login"][1].fails > 1
        /\ \A m, n \in DOMAIN Rungs["login"] :
              m < n => Rungs["login"][m].fails < Rungs["login"][n].fails
    BY AccessAssumption
  <2>2. DOMAIN Rungs["login"] = 1..Len(Rungs["login"]) /\ 1 \in DOMAIN Rungs["login"]
    BY <2>1
  <2>3. \A n \in DOMAIN Rungs["login"] : Rungs["login"][n].fails \in Nat
    <3>1. \A n \in DOMAIN Rungs["login"] :
             Rungs["login"][n] \in [fails : Nat, span : Nat]
      BY <2>1, <2>2, ElementOfSeq
    <3> QED
      BY <3>1
  <2>4. \A n \in DOMAIN Rungs["login"] : Rungs["login"][n].fails >= FirstRung
    <3>1. ASSUME NEW n \in DOMAIN Rungs["login"]
          PROVE  Rungs["login"][n].fails >= FirstRung
      <4>1. n = 1 \/ 1 < n
        BY <2>1, <2>2
      <4> QED
        BY <2>1, <2>2, <2>3, <4>1, SMTT(30) DEF FirstRung
    <3> QED
      BY <3>1
  <2> QED
    BY <2>1, <2>2, <2>3, <2>4 DEF FirstRung
<1>2. \A n \in Nat : n < FirstRung => Reached("login", n) = {}
  BY <1>1 DEF Reached
<1>3. Reached("login", FirstRung) # {}
  BY <1>1 DEF Reached, FirstRung
<1>4. CASE rec = Nothing
  <2>1. AfterFailure(rec, "login") = [fails |-> 1, until |-> Nothing]
    BY <1>4, AfterFailureIs
  <2> QED
    BY <1>1, <2>1 DEF Calm
<1>5. CASE rec # Nothing /\ rec.until # Nothing
  <2>1. now >= rec.until
    BY <1>5 DEF IpRecords
  <2>2. AfterFailure(rec, "login") = [fails |-> 1, until |-> Nothing]
    BY <1>1, <1>2, <1>5, <2>1, AfterFailureIs
  <2> QED
    BY <1>1, <2>2 DEF Calm
<1>6. CASE rec # Nothing /\ rec.until = Nothing
  <2>1. rec.fails \in Nat /\ rec.fails + 1 <= FirstRung
    BY <1>1, <1>6 DEF Calm, IpRecords
  <2>2. AfterFailure(rec, "login") =
          [fails |-> rec.fails + 1,
           until |-> IF Reached("login", rec.fails + 1) # {}
                     THEN now + Rungs["login"][Cardinality(
                                  Reached("login", rec.fails + 1))].span
                     ELSE Nothing]
    BY <1>6, AfterFailureIs
  <2>3. CASE rec.fails + 1 < FirstRung
    <3>1. AfterFailure(rec, "login").fails = rec.fails + 1
      BY <2>2
    <3> QED
      BY <1>1, <2>1, <2>3, <3>1 DEF Calm
  <2>4. CASE rec.fails + 1 = FirstRung
    <3>1. AfterFailure(rec, "login") =
            [fails |-> FirstRung,
             until |-> now + Rungs["login"][Cardinality(
                               Reached("login", FirstRung))].span]
      BY <1>3, <2>2, <2>4
    <3>2. now + Rungs["login"][Cardinality(Reached("login", FirstRung))].span \in Nat
      BY <1>1, <1>3, ReachedRung
    <3>3. \A n \in Nat : n # Nothing
      BY AccessAbsent
    <3>4. now + Rungs["login"][Cardinality(Reached("login", FirstRung))].span # Nothing
      BY <3>2, <3>3
    <3> QED
      BY <1>1, <3>1, <3>4 DEF Calm
  <2> QED
    BY <1>1, <2>1, <2>3, <2>4
<1> QED
  BY <1>4, <1>5, <1>6

(* A failure is counted after it was seen that the IP is not blocked.      *)
LEMMA FailStep ==
    ASSUME AccessInv, NEW c \in Callers, Enter(c), Quiet,
           NEW kind \in {"login", "reset"}, Fail(c, kind),
           kind = "login" => ~Blocked
    PROVE  AccessInv'
<1> USE DEF AccessInv
<1>1. Others(c) /\ call'[c] = [at |-> "failed", how |-> kind, seen |-> ip,
                               new |-> AfterFailure(ip, kind)]
  BY DEF Fail, Others, Become, AccessShape
<1>2. UNCHANGED <<ip, acct, reg, drawn>>
  BY DEF Enter, Quiet
<1>3. ip \in IpRecords \cup {Nothing} /\ now \in Nat
  BY DEF AccessShape, RowsShape
<1>4. AfterFailure(ip, kind) \in IpRecords
  BY <1>3, FailureShape
<1>5. CallShape(call[c])'
  <2>1. call'[c] \in Calls
    BY <1>1, <1>3, <1>4 DEF Calls
  <2> QED
    BY <1>1, <1>2, <2>1 DEF CallShape
<1>6. (CallAt(c, "failed") /\ call[c].how = "login" /\ Calm(call[c].seen)
         => Calm(call[c].new))'
  <2>1. kind = "login" /\ Calm(ip) => Calm(AfterFailure(ip, "login"))
    BY <1>3, FailureCalm DEF Blocked
  <2>2. call'[c].how = kind /\ call'[c].seen = ip
        /\ call'[c].new = AfterFailure(ip, kind)
    BY <1>1
  <2> QED
    BY <2>1, <2>2 DEF Calm
<1>7. ~Registers(c)'
  BY <1>1 DEF Registers
<1> QED
  BY <1>1, <1>5, <1>6, <1>7, EnterKeeps

(* /login is refused, fails, or will clear the record.                     *)
LEMMA LoginStep ==
    ASSUME AccessInv, NEW c \in Callers, NEW right \in BOOLEAN, Login(c, right)
    PROVE  AccessInv'
<1> USE DEF AccessInv
<1>1. Enter(c) /\ Quiet
  BY DEF Login
<1>2. CASE UNCHANGED call
  BY <1>1, <1>2, IdleKeeps
<1>3. CASE ~Blocked /\ Fail(c, "login")
  BY <1>1, <1>3, FailStep
<1>4. CASE ip # Nothing /\ Become(c, [at |-> "clear", seen |-> ip])
  <2>1. Others(c) /\ call'[c] = [at |-> "clear", seen |-> ip]
    BY <1>4 DEF Others, Become, AccessShape
  <2>2. UNCHANGED ip /\ ip \in IpRecords
    BY <1>1, <1>4 DEF Enter, AccessShape, RowsShape
  <2>3. CallShape(call[c])'
    BY <1>4, <2>1, <2>2 DEF CallShape, Calls
  <2>4. ~Registers(c)' /\ ~CallAt(c, "failed")'
    BY <2>1 DEF CallAt, Registers
  <2> QED
    BY <1>1, <2>1, <2>3, <2>4, EnterKeeps
<1> QED
  BY <1>2, <1>3, <1>4 DEF Login

(* /reset-password is refused, fails, or will use the code.                *)
LEMMA ResetStep ==
    ASSUME AccessInv, NEW c \in Callers, NEW code, Reset(c, code)
    PROVE  AccessInv'
<1> USE DEF AccessInv
<1>1. Enter(c) /\ Quiet
  BY DEF Reset
<1>2. CASE UNCHANGED call
  BY <1>1, <1>2, IdleKeeps
<1>3. CASE Fail(c, "reset")
  BY <1>1, <1>3, FailStep
<1>4. CASE /\ Accepted(code)
           /\ Become(c, [at |-> "use", code |-> code, how |-> "reset", seen |-> ip])
  <2>1. Others(c)
        /\ call'[c] = [at |-> "use", code |-> code, how |-> "reset", seen |-> ip]
    BY <1>4 DEF Others, Become, AccessShape
  <2>2. code \in 1..drawn /\ acct # Nothing /\ drawn \in Nat
        /\ ip \in IpRecords \cup {Nothing}
    BY <1>4, AcceptedIsIssued DEF AccessShape, RowsShape
  <2>3. UNCHANGED <<acct, drawn, ip, reg>>
    BY <1>1 DEF Enter, Quiet
  <2>4. CallShape(call[c])'
    BY <2>1, <2>2, <2>3 DEF CallShape, Calls
  <2>5. ~Registers(c)' /\ ~CallAt(c, "failed")'
    BY <2>1 DEF CallAt, Registers
  <2> QED
    BY <1>1, <2>1, <2>4, <2>5, EnterKeeps
<1> QED
  BY <1>2, <1>3, <1>4 DEF Reset

(* A step that writes the record of the IP, and what stays as it was.      *)
LEMMA IpWrite ==
    ASSUME AccessInv, NEW c \in Callers, CallAt(c, "failed") \/ CallAt(c, "clear"),
           Become(c, Idle),
           UNCHANGED <<now, acct, drawn, reg, uses, issued, inWindow, staleUse,
                       overlap>>,
           ip' \in IpRecords, resetFailed' \in BOOLEAN, staleIp' \in BOOLEAN,
           (~resetFailed /\ ~staleIp => Calm(ip))'
    PROVE  AccessInv'
<1> USE DEF AccessInv
<1>1. Others(c) /\ call'[c] = Idle
  BY DEF Others, Become, AccessShape
<1>2. ip' # Nothing
  BY AccessAbsent
<1>3. RowsShape'
  BY DEF AccessShape, RowsShape
<1>4. AccessShape'
  <2>1. CallShape(call[c])'
    BY <1>1 DEF CallShape, Calls, Idle
  <2>2. drawn <= drawn'
    BY DEF AccessShape, RowsShape
  <2> QED
    BY <1>1, <1>2, <1>3, <2>1, <2>2, ShapeKept
<1>5. CodesOnce'
  BY CodesFrame
<1>6. FailuresCalm'
  <2>1. ASSUME NEW d \in Callers
        PROVE  ((CallAt(d, "failed") /\ call[d].how = "login" /\ Calm(call[d].seen))
                => Calm(call[d].new))'
    <3>1. CASE d = c
      BY <1>1, <3>1 DEF CallAt, Idle
    <3>2. CASE d # c
      <4>1. call'[d] = call[d]
        BY <1>1, <3>2 DEF Others
      <4> QED
        BY <4>1 DEF FailuresCalm, Calm, CallAt
    <3> QED
      BY <3>1, <3>2
  <2> QED
    BY <2>1 DEF FailuresCalm
<1>7. WindowCounted'
  <2>1. ~Registers(c) /\ ~Registers(c)'
    BY <1>1 DEF CallAt, Registers, Idle
  <2> QED
    BY <1>1, <2>1, WindowFrame
<1> QED
  BY <1>4, <1>5, <1>6, <1>7

(* The failure is written where it differs from what was read.             *)
LEMMA CountFailureStep ==
    ASSUME AccessInv, NEW c \in Callers, CountFailure(c)
    PROVE  AccessInv'
<1> USE DEF AccessInv
<1>1. CallAt(c, "failed") /\ Become(c, Idle)
      /\ UNCHANGED <<now, acct, drawn, reg, uses, issued, inWindow, staleUse, overlap>>
  BY DEF CountFailure
<1>2. call[c] \in [at : {"failed"}, how : {"login", "reset"},
                   seen : IpRecords \cup {Nothing}, new : IpRecords]
  BY <1>1, CallFields
<1>3. ip' = IF ip = Nothing THEN call[c].new
            ELSE IF call[c].seen = Nothing THEN ip
            ELSE [fails |-> IF call[c].new.fails # call[c].seen.fails
                            THEN call[c].new.fails ELSE ip.fails,
                  until |-> IF call[c].new.until # call[c].seen.until
                            THEN call[c].new.until ELSE ip.until]
  BY DEF CountFailure
<1>4. resetFailed' = (resetFailed \/ call[c].how = "reset")
      /\ staleIp' = (staleIp \/ ip # call[c].seen)
  BY DEF CountFailure
<1>5. ip \in IpRecords \cup {Nothing} /\ resetFailed \in BOOLEAN /\ staleIp \in BOOLEAN
  BY DEF AccessShape, RowsShape
<1>6. ip' \in IpRecords
  BY <1>2, <1>3, <1>5 DEF IpRecords
<1>7. resetFailed' \in BOOLEAN /\ staleIp' \in BOOLEAN
  BY <1>4, <1>5
<1>8. ASSUME ~resetFailed', ~staleIp'
      PROVE  Calm(ip')
  <2>1. ~resetFailed /\ ~staleIp /\ call[c].how = "login" /\ call[c].seen = ip
    BY <1>2, <1>4, <1>5, <1>8
  <2>2. Calm(call[c].new)
    BY <1>1, <2>1 DEF FailuresCalm
  <2>3. ip' = call[c].new
    BY <1>2, <1>3, <1>5, <2>1 DEF IpRecords
  <2> QED
    BY <2>2, <2>3
<1>9. (~resetFailed /\ ~staleIp => Calm(ip))'
  BY <1>8 DEF Calm
<1> QED
  BY <1>1, <1>6, <1>7, <1>9, IpWrite

(* A record that is cleared is calm, if it was when it was read.           *)
LEMMA ClearStep ==
    ASSUME AccessInv, NEW c \in Callers, ClearIp(c)
    PROVE  AccessInv'
<1> USE DEF AccessInv
<1>1. CallAt(c, "clear") /\ Become(c, Idle)
      /\ UNCHANGED <<now, acct, drawn, reg, uses, issued, inWindow, resetFailed,
                     staleUse, overlap>>
  BY DEF ClearIp
<1> DEFINE known == "seen" \in DOMAIN call[c]
<1>2. known \in BOOLEAN /\ (known => call[c].seen \in IpRecords)
  BY <1>1, CallFields
<1>3. ip' = [fails |-> IF known /\ call[c].seen.fails = 0 THEN ip.fails ELSE 0,
             until |-> IF known /\ call[c].seen.until = Nothing THEN ip.until
                       ELSE Nothing]
      /\ staleIp' = (staleIp \/ (known /\ ip # call[c].seen))
  BY DEF ClearIp
<1> HIDE DEF known
<1>4. ip \in IpRecords
  BY <1>1 DEF AccessShape, RowsShape, CallShape, CallAt
<1>5. ip' \in IpRecords
  BY <1>3, <1>4 DEF IpRecords
<1>6. resetFailed' \in BOOLEAN /\ staleIp' \in BOOLEAN
  BY <1>1, <1>3 DEF AccessShape, RowsShape
<1>7. ASSUME ~resetFailed', ~staleIp'
      PROVE  Calm(ip')
  <2>1. ~staleIp /\ (known => ip = call[c].seen)
    BY <1>2, <1>3, <1>7 DEF AccessShape, RowsShape
  <2>2. ip'.fails = 0
    BY <1>3, <2>1
  <2>3. FirstRung \in Nat /\ FirstRung > 1
    <3>1. Rungs["login"] \in Seq([fails : Nat, span : Nat])
          /\ Len(Rungs["login"]) > 0 /\ Rungs["login"][1].fails > 1
      BY AccessAssumption
    <3>2. 1 \in 1..Len(Rungs["login"])
      BY <3>1
    <3>3. Rungs["login"][1] \in [fails : Nat, span : Nat]
      BY <3>1, <3>2, ElementOfSeq
    <3> QED
      BY <3>1, <3>3 DEF FirstRung
  <2> QED
    BY <2>2, <2>3 DEF Calm
<1>8. (~resetFailed /\ ~staleIp => Calm(ip))'
  BY <1>7 DEF Calm
<1> QED
  BY <1>1, <1>5, <1>6, <1>8, IpWrite

(* A request is cut short: a registration with it, if it had committed.    *)
LEMMA KillStep ==
    ASSUME AccessInv, NEW c \in Callers, AccessKill(c)
    PROVE  AccessInv'
<1> USE DEF AccessInv
<1>1. UNCHANGED <<now, acct, inbox, drawn, ip, reg, uses, issued, inWindow,
                  resetFailed, staleIp, staleUse>>
      /\ overlap' = (overlap \/ call[c].at \in {"count", "counted"})
  BY DEF AccessKill, accessRows
<1>2. Others(c) /\ call'[c] = Idle
  BY DEF AccessKill, Others, Become, AccessShape
<1>3. overlap' \in BOOLEAN
  BY <1>1 DEF AccessShape, RowsShape
<1>4. RowsShape'
  BY <1>1, <1>3 DEF AccessShape, RowsShape
<1>5. AccessShape'
  <2>1. CallShape(call[c])'
    BY <1>2 DEF CallShape, Calls, Idle
  <2>2. drawn <= drawn'
    BY <1>1 DEF AccessShape, RowsShape
  <2> QED
    BY <1>1, <1>2, <1>4, <2>1, <2>2, ShapeKept
<1>6. CodesOnce'
  BY <1>1, CodesFrame
<1>7. FailuresCalm'
  <2>1. ~CallAt(c, "failed")'
    BY <1>2 DEF CallAt, Idle
  <2> QED
    BY <1>1, <1>2, <2>1, CalmFrame
<1>8. WindowCounted'
  <2>1. ~Registers(c)'
    BY <1>2 DEF Registers, Idle
  <2>2. CASE call[c].at \in {"count", "counted"}
    BY <1>1, <2>2 DEF WindowCounted
  <2>3. CASE call[c].at = "insert"
    <3>1. Registers(c) /\ CallAt(c, "insert") /\ overlap' = overlap
      BY <1>1, <2>3 DEF Registers, CallAt, AccessShape, RowsShape
    <3>2. ~overlap => inWindow <= Recorded /\ inWindow <= MaxRegistrations
      BY <3>1 DEF WindowCounted
    <3>3. Recorded' = Recorded /\ inWindow' = inWindow
      BY <1>1 DEF Recorded
    <3>4. ~CallAt(c, "insert")' /\ ~CallAt(c, "count")' /\ ~CallAt(c, "counted")'
      BY <1>2 DEF CallAt, Idle
    <3> QED
      BY <1>2, <3>1, <3>2, <3>3, <3>4, WindowMove
  <2>4. CASE ~Registers(c)
    <3>1. overlap' = overlap
      BY <1>1, <2>4 DEF Registers, AccessShape, RowsShape
    <3> QED
      BY <1>1, <1>2, <2>1, <2>4, <3>1, WindowFrame
  <2> QED
    BY <2>2, <2>3, <2>4 DEF Registers
<1> QED
  BY <1>5, <1>6, <1>7, <1>8

(* Time passes, or nothing at all.                                         *)
LEMMA AccessStays ==
    ASSUME AccessInv, now' \in Nat, UNCHANGED <<accessRows, call, accessHistory>>
    PROVE  AccessInv'
<1> USE DEF AccessInv
<1>1. UNCHANGED <<acct, inbox, drawn, ip, reg, call, uses, issued, inWindow,
                  resetFailed, staleIp, staleUse, overlap>>
  BY DEF accessRows, accessHistory
<1>2. AccessShape'
  BY <1>1 DEF AccessShape, RowsShape, CallShape
<1>3. CodesOnce'
  BY <1>1, CodesFrame
<1>4. FailuresCalm'
  BY <1>1 DEF FailuresCalm, Calm, CallAt
<1>5. WindowCounted'
  BY <1>1 DEF WindowCounted, Registers, Recorded, CallAt
<1> QED
  BY <1>2, <1>3, <1>4, <1>5

(* Every step keeps the invariant.                                         *)
LEMMA AccessStep ==
    ASSUME AccessInv, [AccessNext]_accessVars
    PROVE  AccessInv'
<1>1. ASSUME NEW c \in Callers, NEW ours \in BOOLEAN, Register(c, ours)
      PROVE  AccessInv'
  BY <1>1, RegisterStep
<1>2. ASSUME NEW c \in Callers,
             InsertUser(c) \/ ReadCount(c) \/ CommitCount(c) \/ SendCode(c)
             \/ UseCode(c)
      PROVE  AccessInv'
  BY <1>2, InsertStep, ReadCountStep, CommitCountStep, SendStep, UseStep
<1>3. ASSUME NEW c \in Callers, NEW code, Verify(c, code) \/ Reset(c, code)
      PROVE  AccessInv'
  BY <1>3, VerifyStep, ResetStep
<1>4. ASSUME NEW c \in Callers, NEW resend \in BOOLEAN, AskForCode(c, resend)
      PROVE  AccessInv'
  BY <1>4, AskStep
<1>5. ASSUME NEW c \in Callers, NEW right \in BOOLEAN, Login(c, right)
      PROVE  AccessInv'
  BY <1>5, LoginStep
<1>6. ASSUME NEW c \in Callers, CountFailure(c) \/ ClearIp(c) \/ AccessKill(c)
      PROVE  AccessInv'
  BY <1>6, CountFailureStep, ClearStep, KillStep
<1>7. CASE AccessTick
  <2>1. now' \in Nat
    BY <1>7 DEF AccessTick, AccessInv, AccessShape, RowsShape
  <2>2. UNCHANGED <<accessRows, call, accessHistory>>
    BY <1>7 DEF AccessTick
  <2> QED
    BY <2>1, <2>2, AccessStays
<1>8. CASE UNCHANGED accessVars
  <2>1. now' \in Nat /\ UNCHANGED <<accessRows, call, accessHistory>>
    BY <1>8 DEF accessVars, accessRows, accessHistory, AccessInv, AccessShape, RowsShape
  <2> QED
    BY <2>1, AccessStays
<1> QED
  BY <1>1, <1>2, <1>3, <1>4, <1>5, <1>6, <1>7, <1>8 DEF AccessNext

(* The codes and the records of an IP: the invariant of module Access.     *)
THEOREM AccessInvariant == AccessSpec => []AccessInv
<1>1. AccessInit => AccessInv
  BY AccessInitially
<1>2. AccessInv /\ [AccessNext]_accessVars => AccessInv'
  BY AccessStep
<1> QED
  BY <1>1, <1>2, PTL DEF AccessSpec

(* A code does something once and is lost to its own use only, failures    *)
(* of /login alone stay on the first rung, and an IP registers no more     *)
(* accounts in a window than MAX_REGISTRATIONS_PER_IP, each but for the    *)
(* overlaps that the property names (api/auth.py).                         *)
THEOREM AccessIsKept == AccessSpec => []AccessKept
<1>1. AccessInv => AccessKept
  <2> SUFFICES ASSUME AccessInv PROVE AccessKept
    OBVIOUS
  <2>1. AccessShape /\ CodesOnce /\ FailuresCalm /\ WindowCounted
    BY DEF AccessInv
  <2>2. DOMAIN uses = 1..drawn
    BY <2>1 DEF AccessShape, RowsShape
  <2>3. CodesKept
    BY <2>1, <2>2 DEF CodesOnce, CodesKept
  <2>4. Rungs["login"][1].fails \in Nat
    <3>1. Rungs["login"] \in Seq([fails : Nat, span : Nat]) /\ Len(Rungs["login"]) > 0
      BY AccessAssumption
    <3>2. 1 \in 1..Len(Rungs["login"])
      BY <3>1
    <3>3. Rungs["login"][1] \in [fails : Nat, span : Nat]
      BY <3>1, <3>2, ElementOfSeq
    <3> QED
      BY <3>3
  <2>5. IpRecordsKept
    <3>1. ip # Nothing => ip.fails \in Nat
      BY <2>1 DEF AccessShape, RowsShape, IpRecords
    <3> QED
      BY <2>1, <2>4, <3>1
         DEF FailuresCalm, Calm, FirstRung, WindowCounted, IpRecordsKept
  <2> QED
    BY <2>3, <2>5 DEF AccessKept
<1> QED
  BY <1>1, AccessInvariant, PTL

-----------------------------------------------------------------------------
(* Types of access.  Each request counts one failure or one registration   *)
(* at most, so that no record counts more than there were requests.        *)
Registrars == {c \in Callers : Registers(c)}
FailuresFit ==
    /\ ip # Nothing => ip.fails <= accessBounds.calls
    /\ \A c \in Callers : CallAt(c, "failed") => call[c].new.fails <= accessBounds.calls
RegistrationsFit ==
    LET open == Cardinality(Registrars) IN
    /\ IsFiniteSet(Registrars) /\ open <= accessBounds.calls
    /\ reg # Nothing => reg.count + open <= accessBounds.calls
    /\ \A c \in Callers : (CallAt(c, "counted") /\ call[c].seen # Nothing)
          => call[c].seen.count + open <= accessBounds.calls
AccessFits ==
    /\ now \in 0..MaxNow /\ inbox \subseteq 1..drawn
    /\ accessBounds \in [calls : 0..MaxAccessCalls, kills : Nat]
    /\ FailuresFit /\ RegistrationsFit

(* A step that counts no failure, but may find that there is one to count; *)
(* and one that neither starts nor counts a registration.                  *)
CallsNow == accessBounds'.calls
Moves(c, k) == (UNCHANGED call /\ k = call[c]) \/ Become(c, k)
NoFailure(c, k) ==
    /\ UNCHANGED ip /\ accessBounds.calls <= CallsNow
    /\ \/ k.at # "failed" \/ k = call[c]
       \/ /\ CallsNow = accessBounds.calls + 1
          /\ \E kind \in {"login", "reset"} : k.new = AfterFailure(ip, kind)
NoRegistration(c, k) ==
    /\ UNCHANGED reg /\ accessBounds.calls <= CallsNow
    /\ k.at \in {"insert", "count", "counted"} => Registers(c)
    /\ k.at = "counted" => k.seen = reg \/ k = call[c]

(* What is in the inbox was made, the clock stops, and requests count.     *)
Bounded ==
    /\ now' \in 0..MaxNow /\ inbox' \subseteq 1..drawn'
    /\ accessBounds' \in [calls : 0..MaxAccessCalls, kills : Nat]

(* A request comes in.                                                     *)
LEMMA EnterFits ==
    ASSUME AccessInv, AccessFits, NEW c \in Callers, Enter(c)
    PROVE  /\ Bounded /\ CallsNow = accessBounds.calls + 1
           /\ accessBounds.calls \in Nat
           /\ UNCHANGED ip /\ call[c] = Idle /\ ~Registers(c)
<1>1. call[c] \in Calls /\ CallAt(c, "idle")
  BY DEF AccessInv, AccessShape, CallShape, Enter
<1>2. call[c] = Idle
  BY <1>1 DEF Calls, Idle, CallAt
<1>3. accessBounds \in [calls : 0..MaxAccessCalls, kills : Nat]
      /\ accessBounds.calls \in Nat
  BY AccessLimits DEF AccessFits
<1>4. accessBounds' = [accessBounds EXCEPT !.calls = @ + 1]
      /\ accessBounds.calls < MaxAccessCalls
  BY DEF Enter
<1>5. /\ accessBounds' \in [calls : 0..MaxAccessCalls, kills : Nat]
      /\ accessBounds'.calls = accessBounds.calls + 1
  BY <1>3, <1>4, AccessLimits
<1> QED
  BY <1>2, <1>3, <1>5 DEF AccessFits, Enter, Bounded, CallsNow, Registers, Idle

(* What a step does to the records.                                        *)
LEMMA AccessEffects ==
    ASSUME AccessInv, AccessFits, AccessNext
    PROVE  /\ Bounded
           /\ \/ UNCHANGED <<ip, reg, call, accessBounds>>
              \/ \E c \in Callers : \E k :
                    /\ Moves(c, k)
                    /\ NoFailure(c, k) \/ CountFailure(c) \/ ClearIp(c)
                    /\ \/ NoRegistration(c, k) \/ CommitCount(c)
                       \/ \E ours \in BOOLEAN : Register(c, ours)
<1> DEFINE Good(c, k) == /\ Moves(c, k)
                         /\ NoFailure(c, k) \/ CountFailure(c) \/ ClearIp(c)
                         /\ \/ NoRegistration(c, k) \/ CommitCount(c)
                            \/ \E ours \in BOOLEAN : Register(c, ours)
<1>1. /\ now \in 0..MaxNow /\ inbox \subseteq 1..drawn /\ MaxNow \in Nat
      /\ MaxAccessCalls \in Nat
      /\ accessBounds \in [calls : 0..MaxAccessCalls, kills : Nat]
      /\ accessBounds.calls <= accessBounds.calls /\ drawn \in Nat
  BY AccessLimits DEF AccessFits, AccessInv, AccessShape, RowsShape
<1>2. ASSUME UNCHANGED <<now, inbox, drawn, accessBounds>>
      PROVE  Bounded /\ CallsNow = accessBounds.calls /\ accessBounds.calls <= CallsNow
  BY <1>1, <1>2 DEF Bounded, CallsNow
<1>3. ASSUME NEW c \in Callers, NEW ours \in BOOLEAN, Register(c, ours)
      PROVE  Bounded /\ \E k : Good(c, k)
  <2>1. Enter(c) /\ Bounded /\ CallsNow = accessBounds.calls + 1 /\ UNCHANGED ip
        /\ call[c] = Idle
    BY <1>3, EnterFits DEF Register
  <2>2. PICK k : Moves(c, k) /\ k.at # "failed"
    BY <1>3, <2>1 DEF Register, Moves, Idle
  <2>3. NoFailure(c, k)
    BY <1>1, <2>1, <2>2 DEF NoFailure
  <2> QED
    BY <1>3, <2>1, <2>2, <2>3
<1>4. ASSUME NEW c \in Callers, Enter(c), Quiet, NEW k, Moves(c, k),
             k.at \notin {"insert", "count", "counted"},
             \/ k.at # "failed"
             \/ \E kind \in {"login", "reset"} : k.new = AfterFailure(ip, kind)
      PROVE  Bounded /\ Good(c, k)
  <2>1. Bounded /\ CallsNow = accessBounds.calls + 1 /\ UNCHANGED ip
    BY <1>4, EnterFits
  <2>2. NoFailure(c, k) /\ NoRegistration(c, k)
    BY <1>1, <1>4, <2>1 DEF NoFailure, NoRegistration, Quiet
  <2> QED
    BY <1>4, <2>1, <2>2
<1>5. ASSUME NEW c \in Callers, NEW code, Verify(c, code)
      PROVE  Bounded /\ \E k : Good(c, k)
  <2>1. Enter(c) /\ Quiet /\ call[c] = Idle
    BY <1>5, EnterFits DEF Verify
  <2>2. PICK k : Moves(c, k) /\ k.at \in {"use", "idle"}
    BY <1>5, <2>1 DEF Verify, Moves, Idle
  <2> HIDE DEF Good
  <2> QED
    BY <1>4, <2>1, <2>2
<1>6. ASSUME NEW c \in Callers, NEW resend, AskForCode(c, resend)
      PROVE  Bounded /\ \E k : Good(c, k)
  <2>1. Enter(c) /\ Quiet /\ call[c] = Idle
    BY <1>6, EnterFits DEF AskForCode
  <2>2. PICK k : Moves(c, k) /\ k.at \in {"send", "idle"}
    BY <1>6, <2>1 DEF AskForCode, Moves, Idle
  <2> HIDE DEF Good
  <2> QED
    BY <1>4, <2>1, <2>2
<1>7. ASSUME NEW c \in Callers, NEW code, (\E right : Login(c, right)) \/ Reset(c, code)
      PROVE  Bounded /\ \E k : Good(c, k)
  <2>1. Enter(c) /\ Quiet
    BY <1>7 DEF Login, Reset
  <2>2. call[c] = Idle
    BY <2>1, EnterFits
  <2>3. CASE \E kind \in {"login", "reset"} : Fail(c, kind)
    <3>1. PICK kind \in {"login", "reset"} : Fail(c, kind)
      BY <2>3
    <3> DEFINE k == [at |-> "failed", how |-> kind, seen |-> ip,
                     new |-> AfterFailure(ip, kind)]
    <3>2. Moves(c, k)
      BY <3>1 DEF Fail, Moves
    <3>3. k.at = "failed" /\ k.new = AfterFailure(ip, kind)
      OBVIOUS
    <3> HIDE DEF k, Good
    <3> QED
      BY <1>4, <2>1, <3>2, <3>3
  <2>4. CASE \E k : Moves(c, k) /\ k.at \in {"clear", "idle", "use"}
    <3> HIDE DEF Good
    <3> QED
      BY <1>4, <2>1, <2>4
  <2>5. CASE UNCHANGED call
    BY <2>2, <2>4, <2>5 DEF Moves, Idle
  <2>6. CASE Become(c, [at |-> "clear", seen |-> ip])
    BY <2>4, <2>6 DEF Moves
  <2>7. ASSUME NEW cd,
               Become(c, [at |-> "use", code |-> cd, how |-> "reset", seen |-> ip])
        PROVE  Bounded /\ \E k : Good(c, k)
    BY <2>4, <2>7 DEF Moves
  <2>8. \/ \E kind \in {"login", "reset"} : Fail(c, kind)
        \/ UNCHANGED call
        \/ Become(c, [at |-> "clear", seen |-> ip])
        \/ \E cd : Become(c, [at |-> "use", code |-> cd, how |-> "reset", seen |-> ip])
    BY <1>7 DEF Login, Reset
  <2> HIDE DEF Good
  <2> QED
    BY <2>3, <2>5, <2>6, <2>7, <2>8
<1>8. ASSUME NEW c \in Callers, InsertUser(c) \/ SendCode(c)
      PROVE  Bounded /\ \E k : Good(c, k)
  <2>1. UNCHANGED <<now, ip, reg, accessBounds>>
    BY <1>8 DEF InsertUser, SendCode
  <2>2. \/ UNCHANGED <<inbox, drawn>>
        \/ drawn' = drawn + 1 /\ inbox' \subseteq inbox \cup {drawn + 1}
    BY <1>8 DEF InsertUser, SendCode, Issue
  <2>3. 1..drawn \subseteq 1..(drawn + 1) /\ drawn + 1 \in 1..(drawn + 1)
    BY <1>1
  <2>4. inbox' \subseteq 1..drawn'
    BY <1>1, <2>2, <2>3
  <2>5. Bounded /\ accessBounds.calls <= CallsNow
    BY <1>1, <2>1, <2>4 DEF Bounded, CallsNow
  <2>6. PICK k : Moves(c, k) /\ \/ k.at = "idle"
                                \/ k.at = "count" /\ Registers(c)
    <3>1. CASE SendCode(c)
      BY <3>1 DEF SendCode, Moves, Idle
    <3>2. CASE InsertUser(c)
      <4>1. Registers(c)
        BY <3>2 DEF InsertUser, Registers, CallAt
      <4>2. Become(c, Idle) \/ Become(c, [at |-> "count"])
        BY <3>2 DEF InsertUser
      <4> QED
        BY <4>1, <4>2 DEF Moves, Idle
    <3> QED
      BY <1>8, <3>1, <3>2
  <2> QED
    BY <2>1, <2>5, <2>6 DEF NoFailure, NoRegistration
<1>9. ASSUME NEW c \in Callers, ReadCount(c)
      PROVE  Bounded /\ \E k : Good(c, k)
  <2> DEFINE k == [at |-> "counted", seen |-> reg]
  <2>1. UNCHANGED <<now, acct, inbox, drawn, ip, reg, accessBounds>> /\ Moves(c, k)
        /\ Registers(c)
    BY <1>9 DEF ReadCount, accessRows, Moves, Registers, CallAt
  <2>2. k.at = "counted" /\ k.seen = reg
    OBVIOUS
  <2> HIDE DEF k
  <2>3. NoFailure(c, k) /\ NoRegistration(c, k)
    BY <1>2, <2>1, <2>2 DEF NoFailure, NoRegistration
  <2> QED
    BY <1>2, <2>1, <2>3
<1>10. ASSUME NEW c \in Callers, CommitCount(c)
       PROVE  Bounded /\ \E k : Good(c, k)
  <2>1. UNCHANGED <<now, inbox, drawn, ip, accessBounds>> /\ Moves(c, Idle)
    BY <1>10 DEF CommitCount, Moves
  <2>2. NoFailure(c, Idle)
    BY <1>2, <2>1 DEF NoFailure, Idle
  <2> QED
    BY <1>2, <1>10, <2>1, <2>2
<1>11. ASSUME NEW c \in Callers, UseCode(c)
       PROVE  Bounded /\ \E k : Good(c, k)
  <2>1. UNCHANGED <<now, inbox, drawn, ip, reg, accessBounds>>
    BY <1>11 DEF UseCode
  <2>2. PICK k : Moves(c, k) /\ k.at \in {"idle", "clear"}
    BY <1>11 DEF UseCode, Moves, Idle
  <2> QED
    BY <1>2, <2>1, <2>2 DEF NoFailure, NoRegistration
<1>12. ASSUME NEW c \in Callers, CountFailure(c) \/ ClearIp(c)
       PROVE  Bounded /\ \E k : Good(c, k)
  <2>1. UNCHANGED <<now, inbox, drawn, reg, accessBounds>> /\ Moves(c, Idle)
    BY <1>12 DEF CountFailure, ClearIp, Moves
  <2>2. NoRegistration(c, Idle)
    BY <1>2, <2>1 DEF NoRegistration, Idle
  <2> QED
    BY <1>2, <1>12, <2>1, <2>2
<1>13. ASSUME NEW c \in Callers, AccessKill(c)
       PROVE  Bounded /\ \E k : Good(c, k)
  <2>1. UNCHANGED <<now, acct, inbox, drawn, ip, reg>> /\ Moves(c, Idle)
    BY <1>13 DEF AccessKill, accessRows, Moves
  <2>2. Bounded /\ CallsNow = accessBounds.calls
    BY <1>1, <1>13, <2>1 DEF AccessKill, Bounded, CallsNow
  <2> QED
    BY <1>1, <2>1, <2>2 DEF NoFailure, NoRegistration, Idle
<1>14. ASSUME AccessTick
       PROVE  Bounded /\ UNCHANGED <<ip, reg, call, accessBounds>>
  BY <1>1, <1>14 DEF AccessTick, accessRows, Bounded
<1> HIDE DEF Good
<1>15. ASSUME NEW c \in Callers,
              \/ \E ours \in BOOLEAN : Register(c, ours)
              \/ InsertUser(c)
              \/ ReadCount(c)
              \/ CommitCount(c)
              \/ \E code \in inbox \cup {Wrong} : Verify(c, code) \/ Reset(c, code)
              \/ \E resend \in BOOLEAN : AskForCode(c, resend)
              \/ SendCode(c)
              \/ UseCode(c)
              \/ \E right \in BOOLEAN : Login(c, right)
              \/ CountFailure(c)
              \/ ClearIp(c)
              \/ AccessKill(c)
       PROVE  Bounded /\ \E k : Good(c, k)
  <2>1. ASSUME \E code : Verify(c, code) \/ Reset(c, code)
        PROVE  Bounded /\ \E k : Good(c, k)
    BY <1>5, <1>7, <2>1
  <2>2. ASSUME \E right : Login(c, right)
        PROVE  Bounded /\ \E k : Good(c, k)
    BY <1>7, <2>2
  <2> QED
    BY <1>3, <1>6, <1>8, <1>9, <1>10, <1>11, <1>12, <1>13, <1>15, <2>1, <2>2
<1>16. (\E c \in Callers : \E k : Good(c, k)) =>
         \E c \in Callers : \E k :
            /\ Moves(c, k)
            /\ NoFailure(c, k) \/ CountFailure(c) \/ ClearIp(c)
            /\ \/ NoRegistration(c, k) \/ CommitCount(c)
               \/ \E ours \in BOOLEAN : Register(c, ours)
  BY DEF Good
<1>17. CASE AccessTick
  BY <1>14, <1>17
<1>18. CASE ~AccessTick
  <2>1. Bounded /\ \E c \in Callers : \E k : Good(c, k)
    BY <1>15, <1>18 DEF AccessNext
  <2> QED
    BY <1>16, <2>1
<1> QED
  BY <1>17, <1>18

(* The last failure is the first of a block, or one more than before.      *)
LEMMA FailureCounts ==
    ASSUME NEW rec \in IpRecords \cup {Nothing}, NEW kind \in {"login", "reset"}
    PROVE  /\ rec = Nothing => AfterFailure(rec, kind).fails = 1
           /\ rec # Nothing => AfterFailure(rec, kind).fails \in {1, rec.fails + 1}
<1> DEFINE over  == rec.until # Nothing /\ now >= rec.until
           fails == IF over THEN 1 ELSE rec.fails + 1
           until == IF Reached(kind, fails) # {}
                    THEN now + Rungs[kind][Cardinality(Reached(kind, fails))].span
                    ELSE IF over THEN Nothing ELSE rec.until
<1>1. rec = Nothing => AfterFailure(rec, kind).fails = 1
  BY AfterFailureIs
<1>2. rec # Nothing => AfterFailure(rec, kind) = [fails |-> fails, until |-> until]
  BY AfterFailureIs
<1>3. fails \in {1, rec.fails + 1}
  OBVIOUS
<1> HIDE DEF fails, until
<1> QED
  BY <1>1, <1>2, <1>3

(* No record and no failure on its way counts more than there were         *)
(* requests.                                                               *)
LEMMA FailuresStayFit ==
    ASSUME AccessInv, AccessFits, NEW c \in Callers, NEW k, Moves(c, k),
           CallsNow \in Nat,
           NoFailure(c, k) \/ CountFailure(c) \/ ClearIp(c)
    PROVE  FailuresFit'
<1>1. AccessShape /\ RowsShape /\ accessBounds.calls \in Nat /\ FailuresFit
  BY AccessLimits DEF AccessInv, AccessShape, AccessFits
<1>2. ip \in IpRecords \cup {Nothing} /\ Nothing \notin IpRecords
  BY <1>1, AccessAbsent DEF RowsShape
<1>3. /\ call'[c] = k /\ DOMAIN call' = Callers
      /\ \A d \in Callers \ {c} : call'[d] = call[d]
  BY <1>1 DEF Moves, Become, AccessShape
<1>4. \A d \in Callers : CallAt(d, "failed") =>
         /\ call[d].new \in IpRecords /\ call[d].new.fails <= accessBounds.calls
         /\ call[d].new.fails \in Nat
  BY <1>1, CallFields DEF FailuresFit, IpRecords
<1>5. CASE NoFailure(c, k)
  <2>1. UNCHANGED ip /\ accessBounds.calls <= CallsNow
    BY <1>5 DEF NoFailure
  <2>2. ip # Nothing => ip.fails \in Nat /\ ip.fails <= accessBounds.calls
    BY <1>1, <1>2 DEF FailuresFit, IpRecords
  <2>3. ASSUME k.at = "failed" PROVE k.new.fails <= CallsNow
    <3>1. CASE k = call[c]
      BY <1>1, <1>4, <2>1, <2>3, <3>1 DEF CallAt
    <3>2. CASE \E kind \in {"login", "reset"} : /\ k.new = AfterFailure(ip, kind)
                                                /\ CallsNow = accessBounds.calls + 1
      <4>1. ip = Nothing => k.new.fails = 1
        BY <1>2, <3>2, FailureCounts
      <4>2. ip # Nothing => k.new.fails \in {1, ip.fails + 1}
        BY <1>2, <3>2, FailureCounts
      <4> QED
        BY <1>1, <2>2, <3>2, <4>1, <4>2
    <3> QED
      BY <1>5, <2>3, <3>1, <3>2 DEF NoFailure
  <2>4. ASSUME NEW d \in Callers, CallAt(d, "failed")'
        PROVE  call'[d].new.fails <= CallsNow
    <3>1. CASE d = c
      BY <1>3, <2>3, <2>4, <3>1 DEF CallAt
    <3>2. CASE d # c
      <4>1. CallAt(d, "failed") /\ call'[d] = call[d]
        BY <1>3, <2>4, <3>2 DEF CallAt
      <4> QED
        BY <1>1, <1>4, <2>1, <4>1
    <3> QED
      BY <3>1, <3>2
  <2> QED
    BY <1>1, <2>1, <2>2, <2>4 DEF FailuresFit, CallsNow
<1>6. CASE CountFailure(c) \/ ClearIp(c)
  <2>1. UNCHANGED accessBounds /\ Become(c, Idle)
    BY <1>6 DEF CountFailure, ClearIp
  <2>2. \A d \in Callers :
           CallAt(d, "failed")' => CallAt(d, "failed") /\ call'[d] = call[d]
    BY <1>1, <2>1 DEF Become, Idle, CallAt, AccessShape
  <2>3. ip' # Nothing => ip'.fails <= accessBounds.calls
    <3>1. CASE CountFailure(c)
      <4>1. CallAt(c, "failed") /\ call[c].new.fails <= accessBounds.calls
            /\ call[c].new \in IpRecords
        BY <1>4, <3>1 DEF CountFailure
      <4> DEFINE fails == IF call[c].new.fails # call[c].seen.fails
                          THEN call[c].new.fails ELSE ip.fails
                 until == IF call[c].new.until # call[c].seen.until
                          THEN call[c].new.until ELSE ip.until
      <4>2. \/ ip = Nothing /\ ip' = call[c].new
            \/ ip # Nothing /\ ip' = ip
            \/ ip # Nothing /\ ip' = [fails |-> fails, until |-> until]
        BY <3>1 DEF CountFailure
      <4>3. ip # Nothing => fails <= accessBounds.calls
        BY <1>1, <4>1 DEF FailuresFit
      <4> HIDE DEF fails, until
      <4> QED
        BY <1>1, <4>1, <4>2, <4>3 DEF FailuresFit
    <3>2. CASE ClearIp(c)
      <4>1. ip # Nothing
        BY <1>1, <3>2 DEF ClearIp, AccessShape, CallShape, CallAt
      <4>2. ip'.fails = ip.fails \/ ip'.fails = 0
        BY <3>2 DEF ClearIp
      <4> QED
        BY <1>1, <4>1, <4>2 DEF FailuresFit
    <3> QED
      BY <1>6, <3>1, <3>2
  <2> QED
    BY <1>4, <2>1, <2>2, <2>3 DEF FailuresFit
<1> QED
  BY <1>5, <1>6

(* How many registrations are under way after a step of one request.       *)
LEMMA RegistrarsMove ==
    ASSUME AccessInv, AccessFits, NEW c \in Callers, NEW k, Moves(c, k)
    PROVE  LET open == Cardinality(Registrars)
               then == Cardinality(Registrars')
               in == k.at \in {"insert", "count", "counted"}
           IN  /\ IsFiniteSet(Registrars') /\ open \in Nat /\ then \in Nat
               /\ then <= open + 1
               /\ (in => Registers(c)) => then <= open
               /\ Registers(c) /\ ~in => then = open - 1
<1> DEFINE D == Registrars
           E == Registrars'
           in == k.at \in {"insert", "count", "counted"}
<1>1. call'[c] = k /\ \A d \in Callers \ {c} : call'[d] = call[d]
  BY DEF Moves, Become, AccessInv, AccessShape
<1>2. /\ c \in D <=> Registers(c)
      /\ E = IF in THEN D \cup {c} ELSE D \ {c}
  BY <1>1 DEF Registrars, Registers
<1>3. IsFiniteSet(D) /\ Cardinality(D) \in Nat
  BY FS_CardinalityType DEF AccessFits, RegistrationsFit
<1> HIDE DEF D, E
<1>4. CASE in
  <2>1. /\ IsFiniteSet(D \cup {c})
        /\ Cardinality(D \cup {c}) =
              IF c \in D THEN Cardinality(D) ELSE Cardinality(D) + 1
    BY <1>3, FS_AddElement
  <2>2. /\ IsFiniteSet(E) /\ Cardinality(E) \in Nat
        /\ Cardinality(E) <= Cardinality(D) + 1
        /\ c \in D => Cardinality(E) <= Cardinality(D)
    BY <1>2, <1>3, <1>4, <2>1
  <2> QED
    BY <1>2, <1>3, <1>4, <2>2 DEF D, E
<1>5. CASE ~in
  <2>1. /\ IsFiniteSet(D \ {c})
        /\ Cardinality(D \ {c}) = IF c \in D THEN Cardinality(D) - 1 ELSE Cardinality(D)
    BY <1>3, FS_RemoveElement
  <2>2. IsFiniteSet(E) /\ Cardinality(E) \in Nat
    BY <1>2, <1>5, <2>1, FS_CardinalityType
  <2>3. /\ Cardinality(E) <= Cardinality(D) + 1
        /\ Cardinality(E) <= Cardinality(D)
        /\ c \in D => Cardinality(E) = Cardinality(D) - 1
    BY <1>2, <1>3, <1>5, <2>1, <2>2
  <2> QED
    BY <1>2, <1>3, <1>5, <2>2, <2>3 DEF D, E
<1> QED
  BY <1>4, <1>5

(* The record of registrations counts, together with those that are under  *)
(* way, no more than there were requests.                                  *)
LEMMA RegistrationsStayFit ==
    ASSUME AccessInv, AccessFits, NEW c \in Callers, NEW k, Moves(c, k),
           CallsNow \in Nat,
           \/ NoRegistration(c, k) \/ CommitCount(c)
           \/ \E ours \in BOOLEAN : Register(c, ours)
    PROVE  RegistrationsFit'
<1> DEFINE n == accessBounds.calls
           open == Cardinality(Registrars)
           then == Cardinality(Registrars')
<1>1. AccessShape /\ RowsShape /\ n \in Nat
  BY AccessLimits DEF AccessInv, AccessShape, AccessFits
<1>2. call'[c] = k /\ \A d \in Callers \ {c} : call'[d] = call[d]
  BY <1>1 DEF Moves, Become, AccessShape
<1>3. /\ IsFiniteSet(Registrars') /\ open \in Nat /\ then \in Nat
      /\ then <= open + 1
      /\ (k.at \in {"insert", "count", "counted"} => Registers(c)) => then <= open
      /\ Registers(c) /\ k.at \notin {"insert", "count", "counted"} => then = open - 1
  BY RegistrarsMove
<1>4. /\ open <= n
      /\ reg # Nothing => reg.count \in Nat /\ reg.count + open <= n
      /\ \A d \in Callers : (CallAt(d, "counted") /\ call[d].seen # Nothing)
            => call[d].seen.count \in Nat /\ call[d].seen.count + open <= n
  BY <1>1, CallFields DEF AccessFits, RegistrationsFit, RowsShape, Windows
<1>5. SUFFICES /\ then <= CallsNow
               /\ reg' # Nothing => reg'.count + then <= CallsNow
               /\ \A d \in Callers : (CallAt(d, "counted")' /\ call'[d].seen # Nothing)
                     => call'[d].seen.count + then <= CallsNow
  BY <1>3 DEF RegistrationsFit, CallAt, CallsNow
<1>6. ASSUME then <= open, n <= CallsNow, NEW d \in Callers \ {c},
             CallAt(d, "counted")', call'[d].seen # Nothing
      PROVE  call'[d].seen.count + then <= CallsNow
  <2>1. call'[d] = call[d] /\ CallAt(d, "counted")
    BY <1>2, <1>6 DEF CallAt
  <2> HIDE DEF open, then, n
  <2> QED
    BY <1>1, <1>3, <1>4, <1>6, <2>1
<1>7. CASE NoRegistration(c, k)
  <2>1. UNCHANGED reg /\ n <= CallsNow /\ then <= open
        /\ (k.at = "counted" => k.seen = reg \/ k = call[c])
    BY <1>3, <1>7 DEF NoRegistration
  <2>2. ASSUME CallAt(c, "counted")', k.seen # Nothing
        PROVE  k.seen.count + then <= CallsNow
    <3>1. k.at = "counted"
      BY <1>2, <2>2 DEF CallAt
    <3>2. CASE k.seen = reg
      <4> HIDE DEF open, then, n
      <4> QED
        BY <1>1, <1>3, <1>4, <2>1, <2>2, <3>2
    <3>3. CASE k = call[c]
      <4>1. CallAt(c, "counted") /\ call[c].seen # Nothing
        BY <2>2, <3>1, <3>3 DEF CallAt
      <4> HIDE DEF open, then, n
      <4> QED
        BY <1>1, <1>3, <1>4, <2>1, <3>3, <4>1
    <3> QED
      BY <2>1, <3>1, <3>2, <3>3
  <2>3. then <= CallsNow /\ (reg # Nothing => reg.count + then <= CallsNow)
    <3> HIDE DEF open, then, n
    <3> QED
      BY <1>1, <1>3, <1>4, <2>1
  <2>4. ASSUME NEW d \in Callers, CallAt(d, "counted")', call'[d].seen # Nothing
        PROVE  call'[d].seen.count + then <= CallsNow
    <3>1. CASE d = c
      BY <1>2, <2>2, <2>4, <3>1
    <3>2. CASE d # c
      BY <1>6, <2>1, <2>4, <3>2
    <3> QED
      BY <3>1, <3>2
  <2> QED
    BY <2>1, <2>3, <2>4
<1>8. CASE CommitCount(c)
  <2>1. /\ CallAt(c, "counted") /\ k = Idle /\ UNCHANGED accessBounds
    BY <1>1, <1>2, <1>8 DEF CommitCount, Become, AccessShape
  <2>2. then = open - 1 /\ CallsNow = n
    BY <1>3, <2>1 DEF Registers, CallAt, Idle, CallsNow
  <2>3. \/ /\ call[c].seen # Nothing /\ reg # Nothing
           /\ reg' = [reg EXCEPT !.count = call[c].seen.count + 1]
        \/ reg' = [count |-> 1, since |-> now]
        \/ reg' = reg
    BY <1>1, <1>8, <2>1 DEF CommitCount, AccessShape, CallShape, CallAt
  <2>4. reg # Nothing => reg \in Windows
    BY <1>1 DEF RowsShape
  <2>5. reg' # Nothing =>
           \/ call[c].seen # Nothing /\ reg'.count = call[c].seen.count + 1
           \/ reg'.count = 1
           \/ reg # Nothing /\ reg'.count = reg.count
    BY <2>3, <2>4 DEF Windows
  <2>6. then <= CallsNow /\ (reg' # Nothing => reg'.count + then <= CallsNow)
    <3> HIDE DEF open, then, n
    <3> QED
      BY <1>1, <1>3, <1>4, <2>1, <2>2, <2>5
  <2>7. ~CallAt(c, "counted")'
    BY <1>2, <2>1 DEF CallAt, Idle
  <2>8. then <= open /\ n <= CallsNow
    <3> HIDE DEF open, then, n
    <3> QED
      BY <1>1, <1>3, <2>2
  <2> QED
    BY <1>6, <2>6, <2>7, <2>8
<1>9. CASE \E ours \in BOOLEAN : Register(c, ours)
  <2>1. PICK ours \in BOOLEAN : Register(c, ours)
    BY <1>9
  <2>2. CallsNow = n + 1 /\ call[c] = Idle
    BY <2>1, EnterFits DEF Register
  <2>3. k = Idle \/ k = [at |-> "insert", ours |-> ours]
    BY <1>1, <1>2, <2>1, <2>2 DEF Register, Become, AccessShape
  <2>4. ~CallAt(c, "counted")'
    BY <1>2, <2>3 DEF CallAt, Idle
  <2>5. reg' = [count |-> 0, since |-> now] \/ reg' = reg
    BY <2>1 DEF Register
  <2>6. then <= CallsNow /\ (reg' # Nothing => reg'.count + then <= CallsNow)
    <3>1. reg' # Nothing => reg'.count = 0 \/ (reg # Nothing /\ reg'.count = reg.count)
      BY <2>5
    <3> HIDE DEF open, then, n
    <3> QED
      BY <1>1, <1>3, <1>4, <2>2, <3>1
  <2>7. ASSUME NEW d \in Callers \ {c}, CallAt(d, "counted")', call'[d].seen # Nothing
        PROVE  call'[d].seen.count + then <= CallsNow
    <3>1. call'[d] = call[d] /\ CallAt(d, "counted")
      BY <1>2, <2>7 DEF CallAt
    <3> HIDE DEF open, then, n
    <3> QED
      BY <1>1, <1>3, <1>4, <2>2, <2>7, <3>1
  <2> QED
    BY <2>4, <2>6, <2>7
<1> QED
  BY <1>7, <1>8, <1>9

(* The rows of users, ip_blocks and registration_limits have their types:  *)
(* in particular a code and the time it was sent are there or absent       *)
(* together, whichever handlers of api/auth.py interleave, and the records *)
(* of an IP count no more failures and registrations than there were       *)
(* requests.                                                               *)
THEOREM AccessTypeCorrect == AccessSpec => []AccessTypeOK
<1>1. ASSUME AccessInit PROVE AccessFits
  <2>1. Registrars = {}
    BY <1>1 DEF AccessInit, Registrars, Registers, Idle
  <2>2. RegistrationsFit
    BY <1>1, <2>1, FS_EmptySet DEF AccessInit, RegistrationsFit, CallAt, Idle
  <2> QED
    BY <1>1, <2>2, AccessLimits DEF AccessInit, AccessFits, FailuresFit, CallAt, Idle
<1>2. ASSUME AccessInv, AccessFits, [AccessNext]_accessVars PROVE AccessFits'
  <2>1. CASE AccessNext
    <3>1. Bounded /\ CallsNow \in Nat
      BY <1>2, <2>1, AccessEffects, AccessLimits DEF Bounded, CallsNow
    <3>2. CASE UNCHANGED <<ip, reg, call, accessBounds>>
      BY <1>2, <3>1, <3>2
      DEF AccessFits, Bounded, FailuresFit, RegistrationsFit, Registrars,
          Registers, CallAt
    <3>3. CASE \E c \in Callers : \E k :
                  /\ Moves(c, k)
                  /\ NoFailure(c, k) \/ CountFailure(c) \/ ClearIp(c)
                  /\ \/ NoRegistration(c, k) \/ CommitCount(c)
                     \/ \E ours \in BOOLEAN : Register(c, ours)
      <4>1. FailuresFit' /\ RegistrationsFit'
        BY <1>2, <3>1, <3>3, FailuresStayFit, RegistrationsStayFit
      <4> QED
        BY <3>1, <4>1 DEF AccessFits, Bounded
    <3> QED
      BY <1>2, <2>1, <3>2, <3>3, AccessEffects
  <2>2. CASE UNCHANGED accessVars
    BY <1>2, <2>2
    DEF accessVars, AccessFits, FailuresFit, RegistrationsFit, Registrars,
        Registers, CallAt
  <2> QED
    BY <1>2, <2>1, <2>2
<1>3. AccessSpec => []AccessFits
  BY <1>1, <1>2, AccessInvariant, PTL DEF AccessSpec
<1>4. ASSUME AccessInv, AccessFits PROVE AccessTypeOK
  <2>1. accessBounds.calls \in 0..MaxAccessCalls /\ MaxAccessCalls \in Nat
    BY <1>4, AccessLimits DEF AccessFits
  <2>2. acct = Nothing \/ (/\ acct.code \in 0..drawn /\ acct.verified \in BOOLEAN
                           /\ (acct.code = NoCode) = (acct.sent = Nothing))
    <3>1. acct # Nothing =>
             /\ acct \in [code : 0..drawn, sent : Nat \cup {Nothing},
                          verified : BOOLEAN]
             /\ acct.code = NoCode <=> acct.sent = Nothing
      BY <1>4 DEF AccessInv, AccessShape, RowsShape
    <3> QED
      BY <3>1
  <2>3. ip = Nothing \/ (/\ ip.fails \in 0..MaxAccessCalls
                        /\ ip.until \in Nat \cup {Nothing})
    <3>1. ip # Nothing => ip \in IpRecords /\ ip.fails <= accessBounds.calls
      BY <1>4 DEF AccessInv, AccessShape, RowsShape, AccessFits, FailuresFit
    <3> QED
      BY <2>1, <3>1 DEF IpRecords
  <2>4. reg = Nothing \/ reg.count \in 0..MaxAccessCalls
    <3>1. /\ Cardinality(Registrars) \in Nat
          /\ reg # Nothing => /\ reg \in Windows
                              /\ reg.count + Cardinality(Registrars)
                                    <= accessBounds.calls
      BY <1>4, FS_CardinalityType
      DEF AccessInv, AccessShape, RowsShape, AccessFits, RegistrationsFit
    <3> QED
      BY <2>1, <3>1 DEF Windows
  <2> QED
    BY <1>4, <2>2, <2>3, <2>4 DEF AccessTypeOK, AccessFits
<1> QED
  BY <1>3, <1>4, AccessInvariant, PTL

-----------------------------------------------------------------------------
(* Stations.  A list has finitely many rows; and the path a request of one *)
(* station has read.                                                       *)
IsRows(rows) ==
    IsFiniteSet(DOMAIN rows) /\ \A i \in DOMAIN rows : rows[i].path \in BOOLEAN
PathRead(k) == k.do # "create" /\ k.seen[k.id].path

(* A request of one station.  What it removed of S3 is settled, and what   *)
(* it will write follows, when it comes to its commit; and an account's    *)
(* URL was not in the list that it has read, nor was the list full.        *)
SingleOK(k) ==
    /\ DOMAIN k = {"at", "do", "list", "id", "url", "how", "path", "seen",
                   "dropped", "fresh"}
    /\ k.do \in {"create", "update", "delete"} /\ k.how \in CoverInputs
    /\ k.do # "create" => k.id \in DOMAIN k.seen
    /\ k.do = "delete" => k.how = "clear"
    /\ \/ /\ k.at \in {"fetch", "drop"} /\ k.how # "keep"
          /\ k.path = PathRead(k) /\ ~k.dropped
       \/ /\ k.at = "put" /\ k.how \in {"data", "url"}
          /\ k.path = PathRead(k) /\ k.dropped = PathRead(k)
       \/ /\ k.at = "commit" /\ k.how = "keep"
          /\ k.path = PathRead(k) /\ ~k.dropped
       \/ /\ k.at = "commit" /\ k.how = "clear"
          /\ k.path = FALSE /\ k.dropped = PathRead(k)
       \/ k.at = "commit" /\ k.how \in {"data", "url"} /\ k.path = TRUE /\ ~k.dropped
    /\ (k.list = "account" /\ k.do = "create") =>
          /\ \A i \in DOMAIN k.seen : k.seen[i].url # k.url
          /\ ~wasPremium => Cardinality(DOMAIN k.seen) < FreeLimit
    /\ (k.list = "account" /\ k.do = "update") =>
          \A i \in DOMAIN k.seen \ {k.id} : k.seen[i].url # k.url

(* A request for the whole list.                                           *)
NamedBy(k) == {k.items[n].id : n \in DOMAIN k.items}
Gone(k) == {i \in DOMAIN k.seen : k.seen[i].path} \ NamedBy(k)
ReplaceOK(k) ==
    /\ DOMAIN k = {"at", "do", "list", "items", "seen", "dropped", "fresh"}
    /\ k.do = "replace" /\ k.list = "account"
    /\ \/ k.at = "purge" /\ ~k.dropped
       \/ k.at = "commit" /\ k.dropped = (Gone(k) # {})
    /\ IsFiniteSet(DOMAIN k.items)
    /\ \A m, n \in DOMAIN k.items : k.items[m].url = k.items[n].url => m = n
    /\ ~wasPremium => Cardinality(DOMAIN k.items) <= FreeLimit

DeskOK(k) ==
    /\ k.list \in Lists /\ k.fresh \in BOOLEAN /\ k.dropped \in BOOLEAN
    /\ IsRows(k.seen)
    /\ k.fresh => k.seen = stations[k.list]
    /\ SingleOK(k) \/ ReplaceOK(k)

StationsShape ==
    /\ DOMAIN stations = Lists /\ \A L \in Lists : IsRows(stations[L])
    /\ premium \in BOOLEAN /\ wasPremium \in BOOLEAN /\ (premium => wasPremium)
    /\ staleCommit \in BOOLEAN /\ broken \in BOOLEAN
    /\ DOMAIN desk = Desks
    /\ \A d \in Desks : desk[d] = Unused \/ DeskOK(desk[d])

(* A cover is in S3, or a request that took it away will see to its path,  *)
(* and so is one that a request has put there to set the path next.        *)
Removes(d, L, i) ==
    /\ ~DeskAt(d, "free") /\ desk[d].dropped /\ desk[d].list = L
    /\ IF desk[d].do = "replace" THEN i \notin NamedBy(desk[d]) ELSE desk[d].id = i
Covered(L, i) == <<L, i>> \in objects \/ \E d \in Desks : Removes(d, L, i)
WillSetPath(k) ==
    /\ k.at = "commit" /\ k.fresh
    /\ k.do \in {"create", "update"} /\ k.how \in {"data", "url"}
CoversKept ==
    (~staleCommit /\ ~broken) =>
       /\ \A L \in Lists : \A i \in DOMAIN stations[L] :
             stations[L][i].path => Covered(L, i)
       /\ \A d \in Desks : WillSetPath(desk[d]) => Covered(desk[d].list, desk[d].id)

StationsInv == StationsShape /\ ListRules /\ CoversKept

-----------------------------------------------------------------------------
(* Stations.  The list of a payload.                                       *)
First(items, n) == \A m \in 1..(n - 1) : items[m].url # items[n].url
Firsts(items) == {n \in DOMAIN items : First(items, n)}
Rank(items, m) == Cardinality({l \in Firsts(items) : l <= m})

(* FirstOfUrl, with its parts by name.                                     *)
LEMMA FirstOfUrlIs ==
    ASSUME NEW items
    PROVE  FirstOfUrl(items) =
             [n \in 1..Cardinality(Firsts(items)) |->
                items[CHOOSE m \in Firsts(items) : Rank(items, m) = n]]
BY DEF FirstOfUrl, Firsts, First, Rank

(* Every rank is the rank of one item: ranks rise strictly, so there are   *)
(* as many as items.                                                       *)
LEMMA RanksAreTaken ==
    ASSUME NEW T, NEW items \in Seq(T)
    PROVE  /\ IsFiniteSet(Firsts(items)) /\ Firsts(items) \subseteq 1..Len(items)
           /\ Cardinality(Firsts(items)) <= Len(items)
           /\ \A n \in 1..Cardinality(Firsts(items)) :
                 \E m \in Firsts(items) : Rank(items, m) = n
<1> DEFINE K == Firsts(items)
           N == Cardinality(K)
<1>1. K \subseteq 1..Len(items) /\ Len(items) \in Nat
  BY DEF Firsts
<1>2. IsFiniteSet(1..Len(items)) /\ Cardinality(1..Len(items)) = Len(items)
  <2> HIDE DEF K
  <2> QED
    BY <1>1, UpToIsFinite
<1>3. IsFiniteSet(K) /\ N <= Len(items) /\ N \in Nat
  BY <1>1, <1>2, FS_Subset, FS_CardinalityType
<1>4. ASSUME NEW m \in K
      PROVE  Rank(items, m) \in 1..N
  <2> DEFINE Below == {l \in K : l <= m}
  <2>1. IsFiniteSet(Below) /\ Cardinality(Below) <= N /\ Cardinality(Below) \in Nat
    BY <1>3, FS_Subset, FS_CardinalityType
  <2>2. m \in Below
    BY <1>1
  <2>3. Cardinality(Below) # 0
    BY <2>1, <2>2, FS_EmptySet
  <2>4. Rank(items, m) = Cardinality(Below)
    BY DEF Rank
  <2> HIDE DEF Below, N
  <2> QED
    BY <1>3, <2>1, <2>3, <2>4
<1>5. ASSUME NEW m \in K, NEW n \in K, m < n
      PROVE  Rank(items, m) # Rank(items, n)
  <2> DEFINE A == {l \in K : l <= m}
             B == {l \in K : l <= n}
  <2>1. A \subseteq B /\ n \in B /\ n \notin A
    BY <1>1, <1>5
  <2>2. IsFiniteSet(B)
    BY <1>3, FS_Subset
  <2>3. Cardinality(A) # Cardinality(B)
    <3> HIDE DEF A, B
    <3> QED
      BY <2>1, <2>2, FS_Subset
  <2> QED
    BY <2>3 DEF Rank
<1> DEFINE f == [m \in K |-> Rank(items, m)]
<1>6. f \in Injection(K, 1..N)
  <2>1. f \in [K -> 1..N]
    BY <1>4
  <2>2. ASSUME NEW a \in K, NEW b \in K, f[a] = f[b]
        PROVE  a = b
    <3>1. Rank(items, a) = Rank(items, b)
      BY <2>2
    <3>2. a \in Nat /\ b \in Nat
      BY <1>1
    <3>3. ~(a < b) /\ ~(b < a)
      BY <1>5, <3>1
    <3> QED
      BY <3>2, <3>3
  <2> HIDE DEF f, K, N
  <2> QED
    BY <2>1, <2>2 DEF Injection, IsInjective
<1>7. IsFiniteSet(1..N) /\ Cardinality(1..N) = N
  BY <1>3, UpToIsFinite
<1>8. f \in Surjection(K, 1..N)
  <2> HIDE DEF f, K
  <2> QED
    BY <1>6, <1>7, FS_Injection
<1>9. \A n \in 1..N : \E m \in K : Rank(items, m) = n
  <2>1. \A n \in 1..N : \E m \in K : f[m] = n
    <3> HIDE DEF f, K, N
    <3> QED
      BY <1>8 DEF Surjection
  <2> QED
    BY <2>1
<1> QED
  BY <1>1, <1>3, <1>9

(* What is kept of a payload has no URL twice, and is not longer.          *)
LEMMA KeptItems ==
    ASSUME NEW T, NEW items \in Seq(T)
    PROVE  /\ DOMAIN FirstOfUrl(items) = 1..Cardinality(Firsts(items))
           /\ IsFiniteSet(DOMAIN FirstOfUrl(items))
           /\ Cardinality(DOMAIN FirstOfUrl(items)) \in Nat
           /\ Cardinality(DOMAIN FirstOfUrl(items)) <= Len(items)
           /\ \A n \in DOMAIN FirstOfUrl(items) : FirstOfUrl(items)[n] \in T
           /\ \A m, n \in DOMAIN FirstOfUrl(items) :
                 FirstOfUrl(items)[m].url = FirstOfUrl(items)[n].url => m = n
<1> DEFINE N == Cardinality(Firsts(items))
           at(n) == CHOOSE m \in Firsts(items) : Rank(items, m) = n
<1>1. DOMAIN FirstOfUrl(items) = 1..N
      /\ \A n \in 1..N : FirstOfUrl(items)[n] = items[at(n)]
  BY FirstOfUrlIs
<1>2. \A n \in 1..N : at(n) \in Firsts(items) /\ Rank(items, at(n)) = n
  <2>1. \A n \in 1..N : \E m \in Firsts(items) : Rank(items, m) = n
    BY RanksAreTaken
  <2> QED
    BY <2>1
<1> HIDE DEF at
<1>3. Firsts(items) \subseteq 1..Len(items) /\ N <= Len(items) /\ N \in Nat
  BY RanksAreTaken, FS_CardinalityType
<1>4. \A m, n \in Firsts(items) : items[m].url = items[n].url => m = n
  <2>1. ASSUME NEW m \in Firsts(items), NEW n \in Firsts(items), m < n
        PROVE  items[m].url # items[n].url
    <3>1. m \in 1..(n - 1)
      BY <1>3, <2>1
    <3> QED
      BY <3>1 DEF Firsts, First
  <2>2. \A m, n \in Firsts(items) : m < n \/ n < m \/ m = n
    BY <1>3
  <2> QED
    BY <2>1, <2>2
<1>5. IsFiniteSet(1..N) /\ Cardinality(1..N) = N
  BY <1>3, UpToIsFinite
<1>6. ASSUME NEW m \in 1..N, NEW n \in 1..N,
             FirstOfUrl(items)[m].url = FirstOfUrl(items)[n].url
      PROVE  m = n
  <2>1. items[at(m)].url = items[at(n)].url
    BY <1>1, <1>6
  <2>2. at(m) = at(n)
    BY <1>2, <1>4, <2>1
  <2> QED
    BY <1>2, <2>2
<1>7. \A n \in 1..N : FirstOfUrl(items)[n] \in T
  <2>1. \A m \in 1..Len(items) : items[m] \in T
    BY ElementOfSeq
  <2> QED
    BY <1>1, <1>2, <1>3, <2>1
<1> QED
  BY <1>1, <1>3, <1>5, <1>6, <1>7

-----------------------------------------------------------------------------
(* Stations.  One lemma for each step.                                     *)

(* No list, no request and no cover is there yet.                          *)
LEMMA StationsInitially ==
    ASSUME StationsInit
    PROVE  StationsInv
<1>1. DOMAIN stations = Lists /\ \A L \in Lists : DOMAIN stations[L] = {}
  BY DEF StationsInit
<1>2. \A L \in Lists : IsRows(stations[L])
  BY <1>1, FS_EmptySet DEF IsRows
<1>3. StationsShape
  BY <1>1, <1>2 DEF StationsInit, StationsShape
<1>4. ListRules
  <2>1. DOMAIN stations["account"] = {}
    BY <1>1 DEF Lists
  <2>2. Cardinality(DOMAIN stations["account"]) = 0 /\ 0 <= FreeLimit
    BY <2>1, FS_EmptySet, StationsAssumption
  <2> QED
    BY <2>1, <2>2 DEF ListRules
<1>5. \A d \in Desks : ~WillSetPath(desk[d])
  BY DEF StationsInit, Unused, WillSetPath
<1>6. CoversKept
  BY <1>1, <1>5 DEF CoversKept
<1> QED
  BY <1>3, <1>4, <1>6 DEF StationsInv

DeskOthers(d) ==
    /\ DOMAIN desk' = Desks
    /\ \A e \in Desks \ {d} : desk'[e] = desk[e]

(* A request moves, and no list changes.  A cover goes only if the request *)
(* stands for it, and the request gives up what it stood for only by       *)
(* putting the cover back, or else it has broken off.                      *)
LEMMA DeskMoves ==
    ASSUME StationsInv, NEW d \in Desks, DeskOthers(d),
           UNCHANGED <<stations, premium, wasPremium, staleCommit>>,
           broken' \in BOOLEAN, ~broken' => ~broken,
           desk'[d] = Unused \/ DeskOK(desk[d])',
           \A L, i : <<L, i>> \in objects => <<L, i>> \in objects' \/ Removes(d, L, i)',
           ~broken' => \A L, i : Removes(d, L, i) =>
                                    Removes(d, L, i)' \/ <<L, i>> \in objects',
           WillSetPath(desk[d])' => <<desk'[d].list, desk'[d].id>> \in objects'
    PROVE  StationsInv'
<1>1. \A e \in Desks \ {d} : desk'[e] = desk[e]
  BY DEF DeskOthers
<1>2. StationsShape'
  <2>1. ASSUME NEW e \in Desks
        PROVE  desk'[e] = Unused \/ DeskOK(desk[e])'
    <3>1. CASE e = d
      BY <3>1
    <3>2. CASE e # d
      <4>1. desk'[e] = desk[e] /\ (desk[e] = Unused \/ DeskOK(desk[e]))
        BY <1>1, <3>2 DEF StationsInv, StationsShape
      <4> QED
        BY <4>1, ZenonT(40) DEF DeskOK, SingleOK, ReplaceOK
    <3> QED
      BY <3>1, <3>2
  <2> QED
    BY <2>1 DEF StationsInv, StationsShape, IsRows, DeskOthers
<1>3. ListRules'
  BY DEF StationsInv, ListRules
<1>4. ASSUME ~broken'
      PROVE  \A L, i : Covered(L, i) => Covered(L, i)'
  <2>1. \A e \in Desks \ {d} : \A L, i : Removes(e, L, i) => Removes(e, L, i)'
    BY <1>1 DEF Removes, DeskAt, NamedBy
  <2>2. \A L, i : Removes(d, L, i) => Removes(d, L, i)' \/ <<L, i>> \in objects'
    BY <1>4
  <2> QED
    BY <2>1, <2>2 DEF Covered
<1>5. CoversKept'
  <2> SUFFICES ASSUME ~staleCommit', ~broken'
               PROVE  /\ \A L \in Lists : \A i \in DOMAIN stations'[L] :
                            stations'[L][i].path => Covered(L, i)'
                      /\ \A e \in Desks : WillSetPath(desk[e])' =>
                            Covered(desk[e].list, desk[e].id)'
    BY DEF CoversKept
  <2>1. ~staleCommit /\ ~broken
    OBVIOUS
  <2>2. \A L \in Lists : \A i \in DOMAIN stations'[L] :
           stations'[L][i].path => Covered(L, i)'
    BY <1>4, <2>1 DEF StationsInv, CoversKept
  <2>3. ASSUME NEW e \in Desks, WillSetPath(desk[e])'
        PROVE  Covered(desk[e].list, desk[e].id)'
    <3>1. CASE e = d
      BY <2>3, <3>1 DEF Covered
    <3>2. CASE e # d
      <4>1. WillSetPath(desk[e]) /\ desk'[e] = desk[e]
        BY <1>1, <2>3, <3>2 DEF WillSetPath
      <4>2. Covered(desk[e].list, desk[e].id)
        BY <2>1, <4>1 DEF StationsInv, CoversKept
      <4> QED
        BY <1>4, <4>1, <4>2
    <3> QED
      BY <3>1, <3>2
  <2> QED
    BY <2>2, <2>3
<1> QED
  BY <1>2, <1>3, <1>5 DEF StationsInv

(* A request that is called has changed nothing yet.                       *)
LEMMA CalledKeeps ==
    ASSUME StationsInv, NEW d \in Desks, Called(d), DeskOthers(d),
           \/ desk'[d] = desk[d]
           \/ DeskOK(desk[d])' /\ ~desk'[d].dropped /\ ~WillSetPath(desk[d])'
    PROVE  StationsInv'
<1>1. UNCHANGED <<stations, objects, premium, wasPremium, staleCommit, broken>>
      /\ desk[d].at = "free"
  BY DEF Called, DeskAt
<1>2. desk[d] = Unused
  BY <1>1 DEF StationsInv, StationsShape, DeskOK, SingleOK, ReplaceOK
<1>3. \A L, i : ~Removes(d, L, i)
  BY <1>1 DEF Removes, DeskAt
<1>4. ~WillSetPath(desk[d])'
  BY <1>1 DEF WillSetPath
<1>5. broken' \in BOOLEAN
  BY <1>1 DEF StationsInv, StationsShape
<1> QED
  BY <1>1, <1>2, <1>3, <1>4, <1>5, DeskMoves

(* A list that is not full, as a number.                                   *)
LEMMA NotFull ==
    ASSUME StationsShape, NEW n, ~Full(n), wasPremium' = wasPremium
    PROVE  ~wasPremium' => ~(n >= FreeLimit)
BY DEF StationsShape, Full

(* A station is asked for: the URL was not in the list, nor the list full. *)
LEMMA CreateStationStep ==
    ASSUME StationsInv, NEW d \in Desks, NEW L \in Lists, NEW url,
           NEW how \in CoverInputs, CreateStation(d, L, url, how)
    PROVE  StationsInv'
<1>1. Called(d) /\ UNCHANGED <<stations, wasPremium>>
  BY DEF CreateStation, Called
<1>2. CASE UNCHANGED desk
  <2>1. DeskOthers(d) /\ desk'[d] = desk[d]
    BY <1>2 DEF DeskOthers, StationsInv, StationsShape
  <2> QED
    BY <1>1, <2>1, CalledKeeps
<1>3. CASE /\ ~(L = "account" /\ (Full(Cardinality(DOMAIN stations[L]))
                                  \/ UsedBy(stations[L], url) # {}))
           /\ SetDesk(d, [at |-> CoverStep(how), do |-> "create", list |-> L,
                          id |-> born + 1, url |-> url, how |-> how,
                          path |-> FALSE, seen |-> stations[L],
                          dropped |-> FALSE, fresh |-> TRUE])
  <2>1. DeskOthers(d)
        /\ desk'[d] = [at |-> CoverStep(how), do |-> "create", list |-> L,
                       id |-> born + 1, url |-> url, how |-> how,
                       path |-> FALSE, seen |-> stations[L],
                       dropped |-> FALSE, fresh |-> TRUE]
    BY <1>3 DEF DeskOthers, SetDesk, StationsInv, StationsShape
  <2>2. IsRows(desk'[d].seen) /\ desk'[d].seen = stations'[L]
    BY <1>1, <2>1 DEF StationsInv, StationsShape
  <2>3. /\ CoverStep(how) \in {"commit", "fetch", "drop"}
        /\ CoverStep(how) = "commit" <=> how = "keep"
    BY DEF CoverStep, CoverInputs
  <2>4. L = "account" => \A i \in DOMAIN stations[L] : stations[L][i].url # url
    BY <1>3 DEF UsedBy
  <2>5. L = "account" /\ ~wasPremium' => Cardinality(DOMAIN stations[L]) < FreeLimit
    <3>1. IsFiniteSet(DOMAIN stations[L])
      BY DEF StationsInv, StationsShape, IsRows
    <3>2. Cardinality(DOMAIN stations[L]) \in Nat
      BY <3>1, FS_CardinalityType
    <3>3. L = "account" => ~Full(Cardinality(DOMAIN stations[L]))
      BY <1>3
    <3>4. L = "account" /\ ~wasPremium'
             => ~(Cardinality(DOMAIN stations[L]) >= FreeLimit)
      BY <1>1, <3>3, NotFull DEF StationsInv
    <3> QED
      BY <3>2, <3>4, StationsAssumption
  <2>6. SingleOK(desk[d])'
    <3>1. /\ DOMAIN desk'[d] = {"at", "do", "list", "id", "url", "how", "path",
                               "seen", "dropped", "fresh"}
          /\ desk'[d].do = "create" /\ desk'[d].how = how /\ desk'[d].list = L
          /\ desk'[d].at = CoverStep(how) /\ desk'[d].dropped = FALSE
          /\ desk'[d].path = FALSE /\ desk'[d].seen = stations[L]
          /\ desk'[d].url = url
      BY <2>1
    <3>2. PathRead(desk[d])' = FALSE
      BY <3>1 DEF PathRead
    <3> QED
      BY <2>3, <2>4, <2>5, <3>1, <3>2 DEF SingleOK
  <2>7. DeskOK(desk[d])'
    BY <2>1, <2>2, <2>6 DEF DeskOK, IsRows
  <2>8. ~desk'[d].dropped /\ ~WillSetPath(desk[d])'
    BY <2>1, <2>3 DEF WillSetPath
  <2> QED
    BY <1>1, <2>1, <2>7, <2>8, CalledKeeps
<1> QED
  BY <1>2, <1>3 DEF CreateStation

(* An update is asked for: no other station of the list has its URL.       *)
LEMMA UpdateStationStep ==
    ASSUME StationsInv, NEW d \in Desks, NEW L \in Lists, NEW i, NEW url,
           NEW how \in CoverInputs, UpdateStation(d, L, i, url, how)
    PROVE  StationsInv'
<1>1. Called(d) /\ UNCHANGED <<stations, wasPremium>> /\ i \in DOMAIN stations[L]
  BY DEF UpdateStation, Called
<1>2. CASE UNCHANGED desk
  <2>1. DeskOthers(d) /\ desk'[d] = desk[d]
    BY <1>2 DEF DeskOthers, StationsInv, StationsShape
  <2> QED
    BY <1>1, <2>1, CalledKeeps
<1>3. CASE /\ ~(L = "account" /\ UsedBy(stations[L], url) \ {i} # {})
           /\ SetDesk(d, [at |-> CoverStep(how), do |-> "update", list |-> L,
                          id |-> i, url |-> url, how |-> how,
                          path |-> stations[L][i].path, seen |-> stations[L],
                          dropped |-> FALSE, fresh |-> TRUE])
  <2>1. DeskOthers(d)
        /\ desk'[d] = [at |-> CoverStep(how), do |-> "update", list |-> L,
                       id |-> i, url |-> url, how |-> how,
                       path |-> stations[L][i].path, seen |-> stations[L],
                       dropped |-> FALSE, fresh |-> TRUE]
    BY <1>3 DEF DeskOthers, SetDesk, StationsInv, StationsShape
  <2>2. IsRows(desk'[d].seen) /\ desk'[d].seen = stations'[L]
    BY <1>1, <2>1 DEF StationsInv, StationsShape
  <2>3. /\ CoverStep(how) \in {"commit", "fetch", "drop"}
        /\ CoverStep(how) = "commit" <=> how = "keep"
    BY DEF CoverStep, CoverInputs
  <2>4. L = "account" => \A j \in DOMAIN stations[L] \ {i} : stations[L][j].url # url
    BY <1>3 DEF UsedBy
  <2>5. stations[L][i].path \in BOOLEAN
    BY <1>1 DEF StationsInv, StationsShape, IsRows
  <2>6. SingleOK(desk[d])'
    <3>1. /\ DOMAIN desk'[d] = {"at", "do", "list", "id", "url", "how", "path",
                               "seen", "dropped", "fresh"}
          /\ desk'[d].do = "update" /\ desk'[d].how = how /\ desk'[d].list = L
          /\ desk'[d].at = CoverStep(how) /\ desk'[d].dropped = FALSE
          /\ desk'[d].path = stations[L][i].path /\ desk'[d].seen = stations[L]
          /\ desk'[d].url = url /\ desk'[d].id = i
      BY <2>1
    <3>2. PathRead(desk[d])' = desk'[d].path
      BY <2>5, <3>1 DEF PathRead
    <3> QED
      BY <1>1, <2>3, <2>4, <3>1, <3>2 DEF SingleOK
  <2>7. DeskOK(desk[d])'
    BY <2>1, <2>2, <2>6 DEF DeskOK, IsRows
  <2>8. ~desk'[d].dropped /\ ~WillSetPath(desk[d])'
    BY <2>1, <2>3 DEF WillSetPath
  <2> QED
    BY <1>1, <2>1, <2>7, <2>8, CalledKeeps
<1> QED
  BY <1>2, <1>3 DEF UpdateStation

(* A station is to be deleted, and its cover first.                        *)
LEMMA DeleteStationStep ==
    ASSUME StationsInv, NEW d \in Desks, NEW L \in Lists, NEW i,
           DeleteStation(d, L, i)
    PROVE  StationsInv'
<1>1. Called(d) /\ UNCHANGED <<stations, wasPremium>> /\ i \in DOMAIN stations[L]
  BY DEF DeleteStation, Called
<1>2. DeskOthers(d)
      /\ desk'[d] = [at |-> "drop", do |-> "delete", list |-> L, id |-> i,
                     url |-> NoUrl, how |-> "clear",
                     path |-> stations[L][i].path, seen |-> stations[L],
                     dropped |-> FALSE, fresh |-> TRUE]
  BY DEF DeleteStation, DeskOthers, SetDesk, StationsInv, StationsShape
<1>3. IsRows(desk'[d].seen) /\ desk'[d].seen = stations'[L]
  BY <1>1, <1>2 DEF StationsInv, StationsShape
<1>4. stations[L][i].path \in BOOLEAN
  BY <1>1 DEF StationsInv, StationsShape, IsRows
<1>5. SingleOK(desk[d])'
  BY <1>1, <1>2, <1>4 DEF SingleOK, PathRead, CoverInputs
<1>6. DeskOK(desk[d])'
  BY <1>2, <1>3, <1>5 DEF DeskOK, IsRows
<1>7. ~desk'[d].dropped /\ ~WillSetPath(desk[d])'
  BY <1>2 DEF WillSetPath
<1> QED
  BY <1>1, <1>2, <1>6, <1>7, CalledKeeps

(* A whole list is asked for, of which equal URLs are left out.            *)
LEMMA ReplaceStationsStep ==
    ASSUME StationsInv, NEW d \in Desks, NEW payload \in Payloads,
           ReplaceStations(d, payload)
    PROVE  StationsInv'
<1>1. Called(d) /\ UNCHANGED <<stations, wasPremium>>
  BY DEF ReplaceStations, Called
<1>2. CASE UNCHANGED desk
  <2>1. DeskOthers(d) /\ desk'[d] = desk[d]
    BY <1>2 DEF DeskOthers, StationsInv, StationsShape
  <2> QED
    BY <1>1, <2>1, CalledKeeps
<1> DEFINE items == WithIds(FirstOfUrl(payload))
<1>3. CASE /\ ~(Len(payload) > 0 /\ Full(Len(payload) - 1))
           /\ SetDesk(d, [at |-> "purge", do |-> "replace", list |-> "account",
                          items |-> items, seen |-> stations["account"],
                          dropped |-> FALSE, fresh |-> TRUE])
  <2>1. DeskOthers(d)
        /\ desk'[d] = [at |-> "purge", do |-> "replace", list |-> "account",
                       items |-> items, seen |-> stations["account"],
                       dropped |-> FALSE, fresh |-> TRUE]
    BY <1>3 DEF DeskOthers, SetDesk, StationsInv, StationsShape
  <2>2. payload \in Seq([id : Ids \cup {NewId}, url : Urls])
    BY StationsAssumption
  <2>3. /\ DOMAIN items = DOMAIN FirstOfUrl(payload)
        /\ \A n \in DOMAIN items :
              items[n] = FirstOfUrl(payload)[n]
              \/ \E new : items[n] = [FirstOfUrl(payload)[n] EXCEPT !.id = new]
    BY DEF WithIds
  <2>4. \A n \in DOMAIN items : items[n].url = FirstOfUrl(payload)[n].url
    <3>1. \A n \in DOMAIN items :
             FirstOfUrl(payload)[n] \in [id : Ids \cup {NewId}, url : Urls]
      BY <2>2, <2>3, KeptItems
    <3> QED
      BY <2>3, <3>1
  <2>5. /\ IsFiniteSet(DOMAIN items) /\ Cardinality(DOMAIN items) \in Nat
        /\ Cardinality(DOMAIN items) <= Len(payload)
        /\ \A m, n \in DOMAIN items : items[m].url = items[n].url => m = n
    BY <2>2, <2>3, <2>4, KeptItems
  <2> HIDE DEF items
  <2>6. ~wasPremium' => Cardinality(DOMAIN items) <= FreeLimit
    <3>1. Len(payload) \in Nat
      BY <2>2
    <3>2. CASE Len(payload) > 0
      <4>1. ~wasPremium' => ~(Len(payload) - 1 >= FreeLimit)
        BY <1>1, <1>3, <3>2, NotFull DEF StationsInv
      <4> QED
        BY <2>5, <3>1, <4>1, StationsAssumption
    <3>3. CASE ~(Len(payload) > 0)
      BY <2>5, <3>1, <3>3, StationsAssumption
    <3> QED
      BY <3>2, <3>3
  <2>7. IsRows(desk'[d].seen) /\ desk'[d].seen = stations'["account"]
    BY <1>1, <2>1 DEF StationsInv, StationsShape, Lists
  <2>8. ReplaceOK(desk[d])'
    BY <2>1, <2>5, <2>6 DEF ReplaceOK
  <2>9. DeskOK(desk[d])'
    BY <2>1, <2>7, <2>8 DEF DeskOK, IsRows, Lists
  <2>10. ~desk'[d].dropped /\ ~WillSetPath(desk[d])'
    BY <2>1 DEF WillSetPath
  <2> QED
    BY <1>1, <2>1, <2>9, <2>10, CalledKeeps
<1> QED
  BY <1>2, <1>3 DEF ReplaceStations

(* The fields of a request follow from where it is.                        *)
LEMMA DeskFields ==
    ASSUME StationsInv, NEW d \in Desks
    PROVE  /\ DeskAt(d, "free") <=> desk[d] = Unused
           /\ ~DeskAt(d, "free") => DeskOK(desk[d])
           /\ desk[d].at \in {"fetch", "drop", "put"} => SingleOK(desk[d])
           /\ DeskAt(d, "purge") => ReplaceOK(desk[d])
           /\ ~DeskAt(d, "free") => desk[d].dropped \in BOOLEAN
<1>1. desk[d] = Unused \/ DeskOK(desk[d])
  BY DEF StationsInv, StationsShape
<1>2. CASE desk[d] = Unused
  BY <1>2 DEF Unused, DeskAt
<1>3. CASE DeskOK(desk[d])
  <2> desk[d].dropped \in BOOLEAN
    BY <1>3 DEF DeskOK
  <2>1. CASE SingleOK(desk[d])
    BY <1>3, <2>1 DEF SingleOK, DeskAt, Unused
  <2>2. CASE ReplaceOK(desk[d])
    BY <1>3, <2>2 DEF ReplaceOK, DeskAt, Unused
  <2> QED
    BY <1>3, <2>1, <2>2 DEF DeskOK
<1> QED
  BY <1>1, <1>2, <1>3

(* A request ends without a commit; if it had taken a cover away, it broke *)
(* off.                                                                    *)
LEMMA BreaksOff ==
    ASSUME StationsInv, NEW d \in Desks, ~DeskAt(d, "free"), SetDesk(d, Unused),
           UNCHANGED <<stations, objects, premium, wasPremium, staleCommit>>,
           broken' = (broken \/ desk[d].dropped)
    PROVE  StationsInv'
<1>1. DeskOthers(d) /\ desk'[d] = Unused
  BY DEF SetDesk, DeskOthers, StationsInv, StationsShape
<1>2. broken \in BOOLEAN /\ desk[d].dropped \in BOOLEAN
  BY DeskFields DEF StationsInv, StationsShape
<1>3. broken' \in BOOLEAN /\ (~broken' => ~broken /\ ~desk[d].dropped)
  BY <1>2
<1>4. ~broken' => \A L, i : ~Removes(d, L, i)
  BY <1>3 DEF Removes
<1>5. ~WillSetPath(desk[d])'
  BY <1>1 DEF WillSetPath, Unused
<1> QED
  BY <1>1, <1>3, <1>4, <1>5, DeskMoves

(* The cover is downloaded, or the request ends.                           *)
LEMMA FetchStep ==
    ASSUME StationsInv, NEW d \in Desks, FetchRadioCover(d)
    PROVE  StationsInv'
<1>1. /\ DeskAt(d, "fetch") /\ ~DeskAt(d, "free")
      /\ UNCHANGED <<stations, objects, premium, wasPremium, staleCommit, broken>>
  BY DEF FetchRadioCover, DeskAt
<1>2. SingleOK(desk[d]) /\ DeskOK(desk[d]) /\ ~desk[d].dropped /\ broken \in BOOLEAN
  BY <1>1, DeskFields DEF DeskAt, SingleOK, StationsInv, StationsShape
<1>3. CASE SetDesk(d, Unused)
  BY <1>1, <1>2, <1>3, BreaksOff
<1>4. CASE SetDesk(d, [desk[d] EXCEPT !.at = "drop"])
  <2>1. DeskOthers(d) /\ desk'[d] = [desk[d] EXCEPT !.at = "drop"]
    BY <1>4 DEF SetDesk, DeskOthers, StationsInv, StationsShape
  <2>2. /\ DOMAIN desk'[d] = DOMAIN desk[d] /\ desk'[d].at = "drop"
        /\ \A x \in DOMAIN desk[d] \ {"at"} : desk'[d][x] = desk[d][x]
    BY <2>1
  <2>3. SingleOK(desk[d])'
    BY <1>1, <1>2, <2>2 DEF SingleOK, PathRead, DeskAt
  <2>4. DeskOK(desk[d])'
    BY <1>1, <1>2, <2>2, <2>3 DEF DeskOK, IsRows, SingleOK
  <2>5. \A L, i : ~Removes(d, L, i)
    BY <1>2 DEF Removes
  <2>6. ~WillSetPath(desk[d])'
    BY <2>2 DEF WillSetPath
  <2> QED
    BY <1>1, <1>2, <2>1, <2>4, <2>5, <2>6, DeskMoves
<1> QED
  BY <1>3, <1>4 DEF FetchRadioCover

(* The old cover goes, if the request has read a path.                     *)
LEMMA DropStep ==
    ASSUME StationsInv, NEW d \in Desks, DropRadioCover(d)
    PROVE  StationsInv'
<1>1. /\ DeskAt(d, "drop") /\ ~DeskAt(d, "free")
      /\ UNCHANGED <<stations, premium, wasPremium, staleCommit, broken>>
  BY DEF DropRadioCover, DeskAt
<1>2. /\ SingleOK(desk[d]) /\ DeskOK(desk[d]) /\ broken \in BOOLEAN
      /\ ~desk[d].dropped /\ desk[d].path = PathRead(desk[d])
  BY <1>1, DeskFields DEF DeskAt, SingleOK, StationsInv, StationsShape
<1>3. DeskOthers(d)
      /\ desk'[d] = [desk[d] EXCEPT !.dropped = desk[d].path,
                       !.path = IF desk[d].how = "clear" THEN FALSE ELSE @,
                       !.at = IF desk[d].how = "clear" THEN "commit" ELSE "put"]
  BY DEF DropRadioCover, SetDesk, DeskOthers, StationsInv, StationsShape
<1>4. /\ DOMAIN desk'[d] = DOMAIN desk[d]
      /\ desk'[d].at = IF desk[d].how = "clear" THEN "commit" ELSE "put"
      /\ desk'[d].path = IF desk[d].how = "clear" THEN FALSE ELSE desk[d].path
      /\ desk'[d].dropped = desk[d].path
      /\ desk'[d].do = desk[d].do /\ desk'[d].list = desk[d].list
      /\ desk'[d].id = desk[d].id /\ desk'[d].url = desk[d].url
      /\ desk'[d].how = desk[d].how /\ desk'[d].seen = desk[d].seen
      /\ desk'[d].fresh = desk[d].fresh
  BY <1>2, <1>3 DEF SingleOK
<1>5. desk[d].how \in {"clear", "data", "url", "keep"}
      /\ desk[d].do \in {"create", "update", "delete"}
  BY <1>2 DEF SingleOK, CoverInputs
<1>6. desk[d].how # "keep"
  BY <1>1, <1>2 DEF SingleOK, DeskAt
<1>7. PathRead(desk[d])' = PathRead(desk[d])
  BY <1>4 DEF PathRead
<1>8. SingleOK(desk[d])'
  BY <1>1, <1>2, <1>4, <1>5, <1>6, <1>7 DEF SingleOK
<1>9. DeskOK(desk[d])'
  <2>1. desk[d].path \in BOOLEAN
    BY <1>2 DEF PathRead
  <2> QED
    BY <1>1, <1>2, <1>4, <1>8, <2>1 DEF DeskOK, IsRows
<1>10. \A L, i : ~Removes(d, L, i)
  BY <1>2 DEF Removes
<1>11. ASSUME NEW L, NEW i, <<L, i>> \in objects
       PROVE  <<L, i>> \in objects' \/ Removes(d, L, i)'
  <2>1. CASE desk[d].path /\ <<L, i>> = <<desk[d].list, desk[d].id>>
    <3>1. L = desk[d].list /\ i = desk[d].id
      BY <2>1
    <3>2. desk'[d].at # "free" /\ desk'[d].do # "replace"
      BY <1>4, <1>5
    <3> QED
      BY <1>4, <2>1, <3>1, <3>2 DEF Removes, DeskAt
  <2>2. CASE ~(desk[d].path /\ <<L, i>> = <<desk[d].list, desk[d].id>>)
    <3>1. \/ objects' = objects
          \/ desk[d].path /\ objects' = objects \ {<<desk[d].list, desk[d].id>>}
      BY DEF DropRadioCover
    <3> QED
      BY <1>11, <2>2, <3>1
  <2> QED
    BY <2>1, <2>2
<1>12. ~WillSetPath(desk[d])'
  BY <1>4 DEF WillSetPath
<1> QED
  BY <1>1, <1>2, <1>3, <1>9, <1>10, <1>11, <1>12, DeskMoves

(* The new cover is put, or the request breaks off.                        *)
LEMMA PutStep ==
    ASSUME StationsInv, NEW d \in Desks, PutRadioCover(d)
    PROVE  StationsInv'
<1>1. /\ DeskAt(d, "put") /\ ~DeskAt(d, "free")
      /\ UNCHANGED <<stations, premium, wasPremium, staleCommit>>
  BY DEF PutRadioCover, DeskAt
<1>2. SingleOK(desk[d]) /\ DeskOK(desk[d]) /\ desk[d].how \in {"data", "url"}
      /\ broken \in BOOLEAN
  BY <1>1, DeskFields DEF DeskAt, SingleOK, StationsInv, StationsShape
<1>3. CASE /\ objects' = objects \cup {<<desk[d].list, desk[d].id>>}
           /\ SetDesk(d, [desk[d] EXCEPT !.at = "commit", !.path = TRUE,
                                         !.dropped = FALSE])
           /\ UNCHANGED broken
  <2>1. DeskOthers(d)
        /\ desk'[d] = [desk[d] EXCEPT !.at = "commit", !.path = TRUE,
                                      !.dropped = FALSE]
    BY <1>3 DEF SetDesk, DeskOthers, StationsInv, StationsShape
  <2>2. /\ DOMAIN desk'[d] = DOMAIN desk[d]
        /\ desk'[d].at = "commit" /\ desk'[d].path = TRUE
        /\ desk'[d].dropped = FALSE
        /\ desk'[d].do = desk[d].do /\ desk'[d].list = desk[d].list
        /\ desk'[d].id = desk[d].id /\ desk'[d].url = desk[d].url
        /\ desk'[d].how = desk[d].how /\ desk'[d].seen = desk[d].seen
        /\ desk'[d].fresh = desk[d].fresh
    BY <1>2, <2>1 DEF SingleOK
  <2>3. SingleOK(desk[d])'
    BY <1>1, <1>2, <2>2 DEF SingleOK
  <2>4. DeskOK(desk[d])'
    BY <1>1, <1>2, <2>2, <2>3 DEF DeskOK, IsRows
  <2>5. desk[d].do # "replace"
    BY <1>2 DEF SingleOK
  <2>6. \A L, i : Removes(d, L, i) => <<L, i>> \in objects'
    BY <1>3, <2>5 DEF Removes
  <2>7. <<desk'[d].list, desk'[d].id>> \in objects'
    BY <1>3, <2>2
  <2>8. \A L, i : <<L, i>> \in objects => <<L, i>> \in objects'
    BY <1>3
  <2> QED
    BY <1>1, <1>2, <1>3, <2>1, <2>4, <2>6, <2>7, <2>8, DeskMoves
<1>4. CASE /\ SetDesk(d, Unused) /\ broken' = (broken \/ desk[d].dropped)
           /\ UNCHANGED objects
  BY <1>1, <1>4, BreaksOff
<1> QED
  BY <1>3, <1>4 DEF PutRadioCover

(* The covers of the stations that the new list does not name go.          *)
LEMMA PurgeStep ==
    ASSUME StationsInv, NEW d \in Desks, PurgeCovers(d)
    PROVE  StationsInv'
<1> DEFINE gone == {<<"account", i>> : i \in Gone(desk[d])}
<1>1. /\ DeskAt(d, "purge") /\ ~DeskAt(d, "free")
      /\ UNCHANGED <<stations, premium, wasPremium, staleCommit, broken>>
  BY DEF PurgeCovers, DeskAt
<1>2. ReplaceOK(desk[d]) /\ DeskOK(desk[d]) /\ ~desk[d].dropped /\ broken \in BOOLEAN
  BY <1>1, DeskFields DEF DeskAt, ReplaceOK, StationsInv, StationsShape
<1>3. /\ objects' \in {objects \ g : g \in SUBSET gone}
      /\ SetDesk(d, [desk[d] EXCEPT !.at = "commit", !.dropped = gone # {}])
  BY DEF PurgeCovers, Gone, NamedBy
<1>4. DeskOthers(d)
      /\ desk'[d] = [desk[d] EXCEPT !.at = "commit", !.dropped = gone # {}]
  BY <1>3 DEF SetDesk, DeskOthers, StationsInv, StationsShape
<1>5. (gone # {}) = (Gone(desk[d]) # {})
  OBVIOUS
<1>6. PICK g \in SUBSET gone : objects' = objects \ g
  BY <1>3
<1>7. ASSUME NEW L, NEW i, <<L, i>> \in gone
      PROVE  L = "account" /\ i \in Gone(desk[d]) /\ gone # {}
  BY <1>7
<1> HIDE DEF gone
<1>8. /\ DOMAIN desk'[d] = DOMAIN desk[d]
      /\ desk'[d].at = "commit" /\ desk'[d].dropped = (gone # {})
      /\ desk'[d].do = desk[d].do /\ desk'[d].list = desk[d].list
      /\ desk'[d].items = desk[d].items /\ desk'[d].seen = desk[d].seen
      /\ desk'[d].fresh = desk[d].fresh
  BY <1>2, <1>4 DEF ReplaceOK
<1>9. NamedBy(desk[d])' = NamedBy(desk[d]) /\ Gone(desk[d])' = Gone(desk[d])
  BY <1>8 DEF NamedBy, Gone
<1>10. ReplaceOK(desk[d])'
  BY <1>1, <1>2, <1>5, <1>8, <1>9 DEF ReplaceOK
<1>11. DeskOK(desk[d])'
  BY <1>1, <1>2, <1>8, <1>10 DEF DeskOK, IsRows
<1>12. \A L, i : ~Removes(d, L, i)
  BY <1>2 DEF Removes
<1>13. ASSUME NEW L, NEW i, <<L, i>> \in objects
       PROVE  <<L, i>> \in objects' \/ Removes(d, L, i)'
  <2>1. CASE <<L, i>> \notin g
    BY <1>6, <1>13, <2>1
  <2>2. CASE <<L, i>> \in g
    <3>1. L = "account" /\ i \in Gone(desk[d]) /\ gone # {}
      BY <1>7, <2>2
    <3>2. i \notin NamedBy(desk[d])'
      BY <1>9, <3>1 DEF Gone
    <3>3. desk'[d].do = "replace" /\ desk'[d].list = "account"
      BY <1>2, <1>8 DEF ReplaceOK
    <3> QED
      BY <1>8, <3>1, <3>2, <3>3 DEF Removes, DeskAt
  <2> QED
    BY <2>1, <2>2
<1>14. ~WillSetPath(desk[d])'
  BY <1>2, <1>8 DEF WillSetPath, ReplaceOK
<1> QED
  BY <1>1, <1>2, <1>4, <1>11, <1>12, <1>13, <1>14, DeskMoves

(* A killed request breaks off.                                            *)
LEMMA RadioKillStep ==
    ASSUME StationsInv, NEW d \in Desks, RadioKill(d)
    PROVE  StationsInv'
BY BreaksOff DEF RadioKill

(* The account becomes premium or ceases to be.                            *)
LEMMA PremiumStep ==
    ASSUME StationsInv, ChangePremium
    PROVE  StationsInv'
<1>1. /\ premium' = ~premium /\ wasPremium' = (wasPremium \/ ~premium)
      /\ UNCHANGED <<stations, objects, desk, staleCommit, broken>>
  BY DEF ChangePremium
<1>2. premium \in BOOLEAN /\ wasPremium \in BOOLEAN /\ (premium => wasPremium)
  BY DEF StationsInv, StationsShape
<1>3. premium' \in BOOLEAN /\ wasPremium' \in BOOLEAN /\ (premium' => wasPremium')
      /\ (~wasPremium' => ~wasPremium)
  BY <1>1, <1>2
<1>4. ASSUME NEW d \in Desks
      PROVE  desk'[d] = Unused \/ DeskOK(desk[d])'
  <2>1. desk[d] = Unused \/ DeskOK(desk[d])
    BY DEF StationsInv, StationsShape
  <2> QED
    BY <1>1, <1>3, <2>1 DEF DeskOK, SingleOK, ReplaceOK
<1>5. StationsShape'
  BY <1>1, <1>3, <1>4 DEF StationsInv, StationsShape, IsRows
<1>6. ListRules'
  BY <1>1, <1>3 DEF StationsInv, ListRules
<1>7. \A L, i : Covered(L, i)' <=> Covered(L, i)
  BY <1>1 DEF Covered, Removes, DeskAt, NamedBy
<1>8. \A d \in Desks : WillSetPath(desk[d])' <=> WillSetPath(desk[d])
  BY <1>1 DEF WillSetPath
<1>9. CoversKept'
  <2>1. \A d \in Desks : desk'[d].list = desk[d].list /\ desk'[d].id = desk[d].id
    BY <1>1
  <2>2. \A d \in Desks : Covered(desk[d].list, desk[d].id)
                         => Covered(desk[d].list, desk[d].id)'
    BY <1>7, <2>1
  <2> QED
    BY <1>1, <1>7, <1>8, <2>2 DEF StationsInv, CoversKept
<1> QED
  BY <1>5, <1>6, <1>9 DEF StationsInv

-----------------------------------------------------------------------------
(* Stations.  The commit of a request.                                     *)
Here(d) == stations[desk[d].list]
After(d) == Committed(desk[d], Here(d))
Commits(d) == DeskAt(d, "commit") /\ Valid(desk[d])

(* What a commit writes, row by row.                                       *)
LEMMA CommittedIs ==
    ASSUME StationsInv, NEW d \in Desks, Commits(d)
    PROVE  LET k == desk[d] IN
           /\ DeskOK(k) /\ IsRows(Here(d))
           /\ k.do \in {"create", "update", "delete", "replace"}
           /\ k.do = "replace" <=> ReplaceOK(k)
           /\ k.do # "replace" <=> SingleOK(k)
           /\ k.do = "create" =>
                 /\ DOMAIN After(d) = DOMAIN Here(d) \cup {k.id}
                 /\ After(d)[k.id] = [url |-> k.url, path |-> k.path]
                 /\ \A i \in DOMAIN After(d) \ {k.id} : After(d)[i] = Here(d)[i]
           /\ k.do = "update" =>
                 /\ k.id \in DOMAIN Here(d) /\ DOMAIN After(d) = DOMAIN Here(d)
                 /\ After(d)[k.id] = UpdatedRow(k, Here(d)[k.id])
                 /\ \A i \in DOMAIN After(d) \ {k.id} : After(d)[i] = Here(d)[i]
           /\ k.do = "delete" =>
                 /\ DOMAIN After(d) = DOMAIN Here(d) \ {k.id}
                 /\ \A i \in DOMAIN After(d) : After(d)[i] = Here(d)[i]
           /\ k.do = "replace" => After(d) = ListOf(k)
<1> DEFINE k == desk[d]
           rows == Here(d)
<1>1. DeskOK(k)
  BY DeskFields DEF Commits, DeskAt
<1>2. IsRows(rows)
  BY <1>1 DEF DeskOK, StationsInv, StationsShape, Here
<1>3. /\ SingleOK(k) => k.do \in {"create", "update", "delete"}
      /\ ReplaceOK(k) => k.do = "replace"
      /\ SingleOK(k) \/ ReplaceOK(k)
  BY <1>1 DEF DeskOK, SingleOK, ReplaceOK
<1>4. k.do = "update" => k.id \in DOMAIN rows
  BY DEF Commits, Valid, Here
<1>5. k.do = "create" => After(d) = [i \in DOMAIN rows \cup {k.id} |->
                                       IF i = k.id
                                       THEN [url |-> k.url, path |-> k.path]
                                       ELSE rows[i]]
  BY DEF After, Committed
<1>6. k.do = "update" => After(d) = [rows EXCEPT ![k.id] = UpdatedRow(k, rows[k.id])]
  BY DEF After, Committed
<1>7. k.do = "delete" => After(d) = [i \in DOMAIN rows \ {k.id} |-> rows[i]]
  BY DEF After, Committed
<1>8. k.do = "replace" => After(d) = ListOf(k)
  BY DEF After, Committed
<1> HIDE DEF k, rows
<1>9. k.do = "create" =>
         /\ DOMAIN After(d) = DOMAIN rows \cup {k.id}
         /\ After(d)[k.id] = [url |-> k.url, path |-> k.path]
         /\ \A i \in DOMAIN After(d) \ {k.id} : After(d)[i] = rows[i]
  BY <1>5
<1>10. k.do = "update" =>
          /\ DOMAIN After(d) = DOMAIN rows
          /\ After(d)[k.id] = UpdatedRow(k, rows[k.id])
          /\ \A i \in DOMAIN After(d) \ {k.id} : After(d)[i] = rows[i]
  BY <1>4, <1>6
<1>11. k.do = "delete" =>
          /\ DOMAIN After(d) = DOMAIN rows \ {k.id}
          /\ \A i \in DOMAIN After(d) : After(d)[i] = rows[i]
  BY <1>7
<1> QED
  BY <1>1, <1>2, <1>3, <1>4, <1>8, <1>9, <1>10, <1>11 DEF k, rows

(* The columns that an UPDATE leaves.                                      *)
LEMMA UpdatedRowIs ==
    ASSUME NEW k, NEW row
    PROVE  /\ UpdatedRow(k, row).url = IF k.url \notin {NoUrl, k.seen[k.id].url}
                                       THEN k.url ELSE row.url
           /\ UpdatedRow(k, row).path = IF k.path # k.seen[k.id].path
                                        THEN k.path ELSE row.path
BY DEF UpdatedRow

(* The new list, by the ids that the payload names.                        *)
LEMMA ListOfIs ==
    ASSUME NEW k
    PROVE  /\ DOMAIN ListOf(k) = NamedBy(k)
           /\ \A i \in NamedBy(k) :
                 /\ \E n \in DOMAIN k.items :
                       k.items[n].id = i /\ ListOf(k)[i].url = k.items[n].url
                 /\ ListOf(k)[i].path = (i \in DOMAIN k.seen /\ k.seen[i].path)
                 /\ ListOf(k)[i].path \in BOOLEAN
<1> DEFINE at(i) == CHOOSE n \in DOMAIN k.items : k.items[n].id = i
<1>1. DOMAIN ListOf(k) = NamedBy(k)
      /\ \A i \in NamedBy(k) :
            ListOf(k)[i] = [url |-> k.items[at(i)].url,
                            path |-> i \in DOMAIN k.seen /\ k.seen[i].path]
  BY DEF ListOf, NamedBy
<1>2. \A i \in NamedBy(k) : at(i) \in DOMAIN k.items /\ k.items[at(i)].id = i
  BY DEF NamedBy
<1> HIDE DEF at
<1>3. ASSUME NEW i \in NamedBy(k)
      PROVE  /\ ListOf(k)[i].url = k.items[at(i)].url
             /\ ListOf(k)[i].path = (i \in DOMAIN k.seen /\ k.seen[i].path)
  BY <1>1
<1>4. ASSUME NEW i \in NamedBy(k)
      PROVE  ListOf(k)[i].path \in BOOLEAN
  BY <1>3
<1> QED
  BY <1>1, <1>2, <1>3, <1>4

(* A payload names no more ids than it has items.                          *)
LEMMA NamedAtMostOnce ==
    ASSUME NEW k, IsFiniteSet(DOMAIN k.items)
    PROVE  /\ IsFiniteSet(NamedBy(k))
           /\ Cardinality(NamedBy(k)) <= Cardinality(DOMAIN k.items)
<1> DEFINE S == DOMAIN k.items
           f == [n \in S |-> k.items[n].id]
<1>1. f \in [S -> NamedBy(k)] /\ \A i \in NamedBy(k) : \E n \in S : f[n] = i
  BY DEF NamedBy
<1> HIDE DEF f
<1>2. f \in Surjection(S, NamedBy(k))
  BY <1>1 DEF Surjection
<1> QED
  BY <1>2, FS_Surjection

(* A commit leaves finitely many rows.                                     *)
LEMMA AfterIsRows ==
    ASSUME StationsInv, NEW d \in Desks, Commits(d)
    PROVE  IsRows(After(d))
<1> DEFINE k == desk[d]
<1>1. k.do \in {"create", "update", "delete", "replace"} /\ IsRows(Here(d))
  BY CommittedIs
<1>2. k.do # "replace" => k.path \in BOOLEAN
  <2>1. k.do # "replace" => SingleOK(k)
    BY CommittedIs
  <2> QED
    BY <2>1 DEF SingleOK, PathRead, Commits, DeskAt
<1>3. CASE k.do = "create"
  <2>1. /\ DOMAIN After(d) = DOMAIN Here(d) \cup {k.id}
        /\ After(d)[k.id] = [url |-> k.url, path |-> k.path]
        /\ \A i \in DOMAIN After(d) \ {k.id} : After(d)[i] = Here(d)[i]
    BY <1>3, CommittedIs
  <2>2. IsFiniteSet(DOMAIN After(d))
    BY <1>1, <2>1, FS_AddElement DEF IsRows
  <2>3. After(d)[k.id].path \in BOOLEAN
    BY <1>2, <1>3, <2>1
  <2>4. \A i \in DOMAIN After(d) \ {k.id} : After(d)[i].path \in BOOLEAN
    BY <1>1, <2>1 DEF IsRows
  <2> QED
    BY <2>2, <2>3, <2>4 DEF IsRows
<1>4. CASE k.do = "update"
  <2>1. Here(d)[k.id].path \in BOOLEAN
    BY <1>1, <1>4, CommittedIs DEF IsRows
  <2>2. After(d)[k.id].path = IF k.path # k.seen[k.id].path THEN k.path
                              ELSE Here(d)[k.id].path
    <3>1. After(d)[k.id] = UpdatedRow(k, Here(d)[k.id])
      BY <1>4, CommittedIs
    <3> HIDE DEF k
    <3> QED
      BY <3>1, UpdatedRowIs
  <2>3. After(d)[k.id].path \in BOOLEAN
    BY <1>2, <1>4, <2>1, <2>2
  <2> QED
    BY <1>1, <1>4, <2>3, CommittedIs DEF IsRows
<1>5. CASE k.do = "delete"
  <2>1. IsFiniteSet(DOMAIN After(d))
    BY <1>1, <1>5, CommittedIs, FS_Subset DEF IsRows
  <2> QED
    BY <1>1, <1>5, <2>1, CommittedIs DEF IsRows
<1>6. CASE k.do = "replace"
  <2>1. IsFiniteSet(DOMAIN k.items) /\ After(d) = ListOf(k)
    BY <1>6, CommittedIs DEF ReplaceOK
  <2>2. IsFiniteSet(NamedBy(k)) /\ Cardinality(NamedBy(k)) <= Cardinality(DOMAIN k.items)
    BY <2>1, NamedAtMostOnce
  <2> QED
    BY <2>1, <2>2, ListOfIs DEF IsRows
<1> QED
  BY <1>1, <1>3, <1>4, <1>5, <1>6

(* The rules of an account's list survive the commit of a request that has *)
(* read the list as it is.                                                 *)
LEMMA AfterKeepsRules ==
    ASSUME StationsInv, NEW d \in Desks, Commits(d), ~staleCommit,
           desk[d].fresh, desk[d].list = "account"
    PROVE  /\ \A i, j \in DOMAIN After(d) :
                 After(d)[i].url = After(d)[j].url => i = j
           /\ ~wasPremium => Cardinality(DOMAIN After(d)) <= FreeLimit
<1> DEFINE k == desk[d]
           rows == Here(d)
<1>1. /\ k.do \in {"create", "update", "delete", "replace"} /\ IsRows(rows)
      /\ k.seen = rows
  <2>1. k.seen = rows
    BY CommittedIs DEF DeskOK, Here
  <2> QED
    BY <2>1, CommittedIs
<1>2. /\ \A i, j \in DOMAIN rows : rows[i].url = rows[j].url => i = j
      /\ ~wasPremium => Cardinality(DOMAIN rows) <= FreeLimit
  BY DEF StationsInv, ListRules, Here
<1>3. IsFiniteSet(DOMAIN rows) /\ Cardinality(DOMAIN rows) \in Nat /\ FreeLimit \in Nat
  BY <1>1, FS_CardinalityType, StationsAssumption DEF IsRows
<1>4. CASE k.do = "create"
  <2>1. /\ DOMAIN After(d) = DOMAIN rows \cup {k.id}
        /\ After(d)[k.id] = [url |-> k.url, path |-> k.path]
        /\ \A i \in DOMAIN After(d) \ {k.id} : After(d)[i] = rows[i]
    BY <1>4, CommittedIs
  <2>2. /\ \A i \in DOMAIN rows : rows[i].url # k.url
        /\ ~wasPremium => Cardinality(DOMAIN rows) < FreeLimit
    <3>1. SingleOK(k)
      BY <1>4, CommittedIs
    <3> QED
      BY <1>1, <1>4, <3>1 DEF SingleOK
  <2> HIDE DEF k, rows
  <2>3. After(d)[k.id].url = k.url
    BY <2>1
  <2>4. \A i, j \in DOMAIN After(d) : After(d)[i].url = After(d)[j].url => i = j
    BY <1>2, <2>1, <2>2, <2>3
  <2>5. \/ Cardinality(DOMAIN After(d)) = Cardinality(DOMAIN rows)
        \/ Cardinality(DOMAIN After(d)) = Cardinality(DOMAIN rows) + 1
    BY <1>3, <2>1, FS_AddElement
  <2> QED
    BY <1>3, <2>2, <2>4, <2>5
<1>5. CASE k.do = "update"
  <2>1. /\ k.id \in DOMAIN rows /\ DOMAIN After(d) = DOMAIN rows
        /\ After(d)[k.id] = UpdatedRow(k, rows[k.id])
        /\ \A i \in DOMAIN After(d) \ {k.id} : After(d)[i] = rows[i]
    BY <1>5, CommittedIs
  <2>2. \A i \in DOMAIN rows \ {k.id} : rows[i].url # k.url
    <3>1. SingleOK(k)
      BY <1>5, CommittedIs
    <3> QED
      BY <1>1, <1>5, <3>1 DEF SingleOK
  <2> HIDE DEF k, rows
  <2>3. After(d)[k.id].url = k.url \/ After(d)[k.id].url = rows[k.id].url
    BY <2>1, UpdatedRowIs
  <2>4. \A i, j \in DOMAIN After(d) : After(d)[i].url = After(d)[j].url => i = j
    BY <1>2, <2>1, <2>2, <2>3
  <2> QED
    BY <1>2, <2>1, <2>4
<1>6. CASE k.do = "delete"
  <2>1. /\ DOMAIN After(d) = DOMAIN rows \ {k.id}
        /\ \A i \in DOMAIN After(d) : After(d)[i] = rows[i]
    BY <1>6, CommittedIs
  <2> HIDE DEF k, rows
  <2>2. Cardinality(DOMAIN After(d)) <= Cardinality(DOMAIN rows)
        /\ Cardinality(DOMAIN After(d)) \in Nat
    BY <1>3, <2>1, FS_Subset, FS_CardinalityType
  <2> QED
    BY <1>2, <1>3, <2>1, <2>2
<1>7. CASE k.do = "replace"
  <2>1. ReplaceOK(k) /\ After(d) = ListOf(k)
    BY <1>7, CommittedIs
  <2>2. /\ IsFiniteSet(DOMAIN k.items)
        /\ \A m, n \in DOMAIN k.items : k.items[m].url = k.items[n].url => m = n
        /\ ~wasPremium => Cardinality(DOMAIN k.items) <= FreeLimit
    BY <2>1 DEF ReplaceOK
  <2> HIDE DEF k, rows
  <2>3. \A i, j \in DOMAIN After(d) : After(d)[i].url = After(d)[j].url => i = j
    BY <2>1, <2>2, ListOfIs
  <2>4. /\ IsFiniteSet(NamedBy(k))
        /\ Cardinality(NamedBy(k)) <= Cardinality(DOMAIN k.items)
    BY <2>2, NamedAtMostOnce
  <2>5. Cardinality(NamedBy(k)) \in Nat /\ Cardinality(DOMAIN k.items) \in Nat
    BY <2>2, <2>4, FS_CardinalityType
  <2>6. DOMAIN After(d) = NamedBy(k)
    BY <2>1, ListOfIs
  <2>7. ~wasPremium => Cardinality(DOMAIN After(d)) <= FreeLimit
    BY <1>3, <2>2, <2>4, <2>5, <2>6
  <2> QED
    BY <2>3, <2>7
<1> QED
  BY <1>1, <1>4, <1>5, <1>6, <1>7

(* A cover, with no help of request d.                                     *)
CoveredBut(d, L, i) ==
    <<L, i>> \in objects \/ \E e \in Desks \ {d} : Removes(e, L, i)

(* What a commit leaves with a path has its cover without the request that *)
(* commits.                                                                *)
LEMMA AfterKeepsCovers ==
    ASSUME StationsInv, NEW d \in Desks, Commits(d), ~staleCommit, ~broken,
           desk[d].fresh, NEW i \in DOMAIN After(d), After(d)[i].path
    PROVE  CoveredBut(d, desk[d].list, i)
<1> DEFINE k == desk[d]
           rows == Here(d)
<1>1. /\ k.do \in {"create", "update", "delete", "replace"} /\ IsRows(rows)
      /\ k.seen = rows /\ k.at = "commit"
  <2>1. k.seen = rows
    BY CommittedIs DEF DeskOK, Here
  <2> QED
    BY <2>1, CommittedIs DEF Commits, DeskAt
<1>2. ASSUME NEW j \in DOMAIN rows, rows[j].path
      PROVE  Covered(k.list, j)
  <2>1. k.list \in Lists
    BY CommittedIs DEF DeskOK
  <2> QED
    BY <1>2, <2>1 DEF StationsInv, CoversKept, Here
<1>3. WillSetPath(k) => Covered(k.list, k.id)
  BY DEF StationsInv, CoversKept
<1>4. ASSUME Covered(k.list, i), ~Removes(d, k.list, i)
      PROVE  CoveredBut(d, k.list, i)
  BY <1>4 DEF Covered, CoveredBut
<1>5. k.do # "replace" => SingleOK(k)
  BY CommittedIs
<1>6. k.do \in {"create", "update"} /\ k.how \in {"data", "url"} => WillSetPath(k)
  BY <1>1 DEF WillSetPath
<1>7. ASSUME k.do # "replace", i # k.id
      PROVE  ~Removes(d, k.list, i)
  BY <1>7 DEF Removes
<1>8. CASE k.do = "create"
  <2>1. /\ DOMAIN After(d) = DOMAIN rows \cup {k.id}
        /\ After(d)[k.id] = [url |-> k.url, path |-> k.path]
        /\ \A j \in DOMAIN After(d) \ {k.id} : After(d)[j] = rows[j]
    BY <1>8, CommittedIs
  <2>2. CASE i # k.id
    BY <1>2, <1>4, <1>7, <1>8, <2>1, <2>2
  <2>3. CASE i = k.id
    <3>1. k.path
      BY <2>1, <2>3
    <3>2. k.how \in {"data", "url"} /\ ~k.dropped
      BY <1>1, <1>5, <1>8, <3>1 DEF SingleOK, PathRead
    <3>3. ~Removes(d, k.list, i)
      BY <3>2 DEF Removes
    <3> QED
      BY <1>3, <1>4, <1>6, <1>8, <2>3, <3>2, <3>3
  <2> QED
    BY <2>2, <2>3
<1>9. CASE k.do = "update"
  <2>1. /\ k.id \in DOMAIN rows /\ DOMAIN After(d) = DOMAIN rows
        /\ After(d)[k.id] = UpdatedRow(k, rows[k.id])
        /\ \A j \in DOMAIN After(d) \ {k.id} : After(d)[j] = rows[j]
    BY <1>9, CommittedIs
  <2>2. CASE i # k.id
    BY <1>2, <1>4, <1>7, <1>9, <2>1, <2>2
  <2>3. CASE i = k.id
    <3>1. k.path
      <4> HIDE DEF k, rows
      <4> QED
        BY <1>1, <2>1, <2>3, UpdatedRowIs
    <3>2. ~k.dropped /\ (k.how \in {"data", "url"} \/ k.path = rows[k.id].path)
      BY <1>1, <1>5, <1>9, <3>1 DEF SingleOK, PathRead
    <3>3. ~Removes(d, k.list, i)
      BY <3>2 DEF Removes
    <3>4. Covered(k.list, i)
      BY <1>2, <1>3, <1>6, <1>9, <2>1, <2>3, <3>1, <3>2
    <3> QED
      BY <1>4, <3>3, <3>4
  <2> QED
    BY <2>2, <2>3
<1>10. CASE k.do = "delete"
  <2>1. /\ DOMAIN After(d) = DOMAIN rows \ {k.id}
        /\ \A j \in DOMAIN After(d) : After(d)[j] = rows[j]
    BY <1>10, CommittedIs
  <2> QED
    BY <1>2, <1>4, <1>7, <1>10, <2>1
<1>11. CASE k.do = "replace"
  <2>1. After(d) = ListOf(k)
    BY <1>11, CommittedIs
  <2>2. i \in NamedBy(k) /\ i \in DOMAIN rows /\ rows[i].path
    <3> HIDE DEF k, rows
    <3> QED
      BY <1>1, <2>1, ListOfIs
  <2>3. ~Removes(d, k.list, i)
    BY <1>11, <2>2 DEF Removes
  <2> QED
    BY <1>2, <1>4, <2>2, <2>3
<1> QED
  BY <1>1, <1>8, <1>9, <1>10, <1>11

(* A request that has taken a cover away changes the list that it has read.*)
LEMMA DroppedChanges ==
    ASSUME StationsInv, NEW d \in Desks, Commits(d), desk[d].fresh,
           desk[d].dropped
    PROVE  After(d) # Here(d)
<1> DEFINE k == desk[d]
           rows == Here(d)
<1>1. /\ k.do \in {"create", "update", "delete", "replace"}
      /\ k.seen = rows /\ k.at = "commit"
  <2>1. k.seen = rows
    BY CommittedIs DEF DeskOK, Here
  <2> QED
    BY <2>1, CommittedIs DEF Commits, DeskAt
<1>2. CASE k.do # "replace"
  <2>1. SingleOK(k)
    BY <1>2, CommittedIs
  <2>2. k.path = FALSE /\ k.do # "create" /\ rows[k.id].path /\ k.id \in DOMAIN rows
    BY <1>1, <2>1 DEF SingleOK, PathRead
  <2>3. CASE k.do = "update"
    <3>1. After(d)[k.id] = UpdatedRow(k, rows[k.id])
      BY <2>3, CommittedIs
    <3>2. ~After(d)[k.id].path
      <4> HIDE DEF k, rows
      <4> QED
        BY <1>1, <2>2, <3>1, UpdatedRowIs
    <3> QED
      BY <2>2, <3>2
  <2>4. CASE k.do = "delete"
    <3>1. DOMAIN After(d) = DOMAIN rows \ {k.id}
      BY <2>4, CommittedIs
    <3> QED
      BY <2>2, <3>1
  <2> QED
    BY <1>1, <1>2, <2>2, <2>3, <2>4
<1>3. CASE k.do = "replace"
  <2>1. ReplaceOK(k) /\ After(d) = ListOf(k)
    BY <1>3, CommittedIs
  <2>2. PICK i \in DOMAIN rows : i \notin NamedBy(k)
    BY <1>1, <2>1 DEF ReplaceOK, Gone
  <2>3. DOMAIN After(d) = NamedBy(k)
    BY <2>1, ListOfIs
  <2> QED
    BY <2>2, <2>3
<1> QED
  BY <1>2, <1>3

(* A commit takes place: the other requests on the list are overtaken.     *)
LEMMA CommitSucceeds ==
    ASSUME StationsInv, NEW d \in Desks, Commits(d),
           stations' = [stations EXCEPT ![desk[d].list] = After(d)],
           desk' = [Overtaken(desk[d].list, After(d)) EXCEPT ![d] = Unused],
           staleCommit' = (staleCommit \/ ~desk[d].fresh),
           UNCHANGED <<objects, premium, wasPremium, broken>>
    PROVE  StationsInv'
<1> DEFINE k == desk[d]
           L == k.list
           over == Overtaken(L, After(d))
<1>1. DeskOK(k) /\ L \in Lists /\ DOMAIN stations = Lists /\ DOMAIN desk = Desks
  BY CommittedIs DEF DeskOK, StationsInv, StationsShape
<1>2. /\ DOMAIN stations' = Lists /\ stations'[L] = After(d)
      /\ \A M \in Lists \ {L} : stations'[M] = stations[M]
  BY <1>1
<1>3. DOMAIN over = Desks /\ DOMAIN desk' = Desks /\ desk'[d] = Unused
      /\ \A e \in Desks \ {d} : desk'[e] = over[e]
  <2>1. DOMAIN over = Desks
    BY DEF Overtaken
  <2> HIDE DEF over
  <2> QED
    BY <2>1 DEF over
<1>4. ASSUME NEW e \in Desks
      PROVE  over[e] = IF ~DeskAt(e, "free") /\ desk[e].list = L /\ Here(d) # After(d)
                       THEN [desk[e] EXCEPT !.fresh = FALSE] ELSE desk[e]
  BY DEF Overtaken, Here
<1> HIDE DEF over
<1>5. ASSUME NEW e \in Desks \ {d}
      PROVE  \/ /\ desk'[e] = desk[e]
                /\ ~DeskAt(e, "free") /\ desk[e].list = L => Here(d) = After(d)
             \/ ~DeskAt(e, "free") /\ desk'[e] = [desk[e] EXCEPT !.fresh = FALSE]
  BY <1>3, <1>4
<1>6. StationsShape'
  <2>1. ASSUME NEW e \in Desks
        PROVE  desk'[e] = Unused \/ DeskOK(desk[e])'
    <3>1. CASE e = d
      BY <1>3, <3>1
    <3>2. CASE /\ e # d /\ desk'[e] = desk[e]
               /\ ~DeskAt(e, "free") /\ desk[e].list = L => Here(d) = After(d)
      <4>1. CASE DeskAt(e, "free")
        BY <3>2, <4>1, DeskFields
      <4>2. CASE ~DeskAt(e, "free")
        <5>1. DeskOK(desk[e])
          BY <4>2, DeskFields
        <5>2. desk[e].fresh => desk[e].seen = stations'[desk[e].list]
          BY <1>2, <3>2, <4>2, <5>1 DEF DeskOK, Here
        <5> QED
          BY <3>2, <5>1, <5>2, ZenonT(30) DEF DeskOK, SingleOK, ReplaceOK
      <4> QED
        BY <4>1, <4>2
    <3>3. CASE ~DeskAt(e, "free") /\ desk'[e] = [desk[e] EXCEPT !.fresh = FALSE]
      <4>1. DeskOK(desk[e])
        BY <3>3, DeskFields
      <4>2. CASE SingleOK(desk[e])
        <5>1. /\ DOMAIN desk'[e] = DOMAIN desk[e] /\ desk'[e].fresh = FALSE
              /\ \A x \in DOMAIN desk[e] \ {"fresh"} : desk'[e][x] = desk[e][x]
          BY <3>3, <4>2 DEF SingleOK
        <5>2. SingleOK(desk[e])' /\ desk'[e].list = desk[e].list
              /\ desk'[e].seen = desk[e].seen /\ desk'[e].dropped = desk[e].dropped
          BY <4>2, <5>1 DEF SingleOK, PathRead
        <5> QED
          BY <4>1, <5>1, <5>2 DEF DeskOK, IsRows
      <4>3. CASE ReplaceOK(desk[e])
        <5>1. /\ DOMAIN desk'[e] = DOMAIN desk[e] /\ desk'[e].fresh = FALSE
              /\ \A x \in DOMAIN desk[e] \ {"fresh"} : desk'[e][x] = desk[e][x]
          BY <3>3, <4>3 DEF ReplaceOK
        <5>2. /\ desk'[e].do = desk[e].do /\ desk'[e].list = desk[e].list
              /\ desk'[e].at = desk[e].at /\ desk'[e].dropped = desk[e].dropped
              /\ desk'[e].items = desk[e].items /\ desk'[e].seen = desk[e].seen
          BY <4>3, <5>1 DEF ReplaceOK
        <5>3. Gone(desk[e])' = Gone(desk[e])
          BY <5>2 DEF Gone, NamedBy
        <5>4. ReplaceOK(desk[e])'
          BY <4>3, <5>1, <5>2, <5>3 DEF ReplaceOK
        <5> QED
          BY <4>1, <5>1, <5>2, <5>4 DEF DeskOK, IsRows
      <4> QED
        BY <4>1, <4>2, <4>3 DEF DeskOK
    <3> QED
      BY <1>5, <3>1, <3>2, <3>3
  <2>2. IsRows(After(d))
    BY AfterIsRows
  <2>3. ASSUME NEW M \in Lists
        PROVE  IsRows(stations[M])'
    <3>1. CASE M = L
      BY <1>2, <2>2, <3>1 DEF IsRows
    <3>2. CASE M # L
      BY <1>2, <3>2 DEF StationsInv, StationsShape, IsRows
    <3> QED
      BY <3>1, <3>2
  <2>4. staleCommit' \in BOOLEAN
    BY DEF StationsInv, StationsShape
  <2> QED
    BY <1>2, <1>3, <2>1, <2>3, <2>4 DEF StationsInv, StationsShape
<1>7. ~staleCommit' => ~staleCommit /\ k.fresh
  BY <1>1 DEF DeskOK, StationsInv, StationsShape
<1>8. ListRules'
  <2> SUFFICES ASSUME ~staleCommit'
               PROVE  /\ \A i, j \in DOMAIN stations'["account"] :
                            stations'["account"][i].url = stations'["account"][j].url
                               => i = j
                      /\ ~wasPremium => Cardinality(DOMAIN stations'["account"])
                                           <= FreeLimit
    BY DEF ListRules
  <2>1. CASE L = "account"
    BY <1>2, <1>7, <2>1, AfterKeepsRules
  <2>2. CASE L # "account"
    <3>1. stations'["account"] = stations["account"]
      BY <1>2, <2>2 DEF Lists
    <3> QED
      BY <1>7, <3>1 DEF StationsInv, ListRules
  <2> QED
    BY <2>1, <2>2
<1>9. \A M, i : CoveredBut(d, M, i) => Covered(M, i)'
  <2>1. ASSUME NEW e \in Desks \ {d}, NEW M, NEW i, Removes(e, M, i)
        PROVE  Removes(e, M, i)'
    <3>1. DeskOK(desk[e])
      BY <2>1, DeskFields DEF Removes
    <3>2. CASE desk'[e] = desk[e]
      BY <2>1, <3>2 DEF Removes, DeskAt, NamedBy
    <3>3. CASE desk'[e] = [desk[e] EXCEPT !.fresh = FALSE]
      <4>1. CASE SingleOK(desk[e])
        <5>1. /\ desk'[e].at = desk[e].at /\ desk'[e].dropped = desk[e].dropped
              /\ desk'[e].do = desk[e].do /\ desk'[e].list = desk[e].list
              /\ desk'[e].id = desk[e].id /\ desk[e].do # "replace"
          BY <3>3, <4>1 DEF SingleOK
        <5> QED
          BY <2>1, <5>1 DEF Removes, DeskAt
      <4>2. CASE ReplaceOK(desk[e])
        <5>1. /\ desk'[e].at = desk[e].at /\ desk'[e].dropped = desk[e].dropped
              /\ desk'[e].do = desk[e].do /\ desk'[e].list = desk[e].list
              /\ desk'[e].items = desk[e].items /\ desk[e].do = "replace"
          BY <3>3, <4>2 DEF ReplaceOK
        <5>2. NamedBy(desk[e])' = NamedBy(desk[e])
          BY <5>1 DEF NamedBy
        <5> QED
          BY <2>1, <5>1, <5>2 DEF Removes, DeskAt
      <4> QED
        BY <3>1, <4>1, <4>2 DEF DeskOK
    <3> QED
      BY <1>5, <3>2, <3>3
  <2> QED
    BY <2>1 DEF CoveredBut, Covered
<1>10. CoversKept'
  <2> SUFFICES ASSUME ~staleCommit', ~broken'
               PROVE  /\ \A M \in Lists : \A i \in DOMAIN stations'[M] :
                            stations'[M][i].path => Covered(M, i)'
                      /\ \A e \in Desks : WillSetPath(desk[e])' =>
                            Covered(desk[e].list, desk[e].id)'
    BY DEF CoversKept
  <2>1. ~staleCommit /\ ~broken /\ k.fresh
    BY <1>7
  <2>2. ASSUME NEW M \in Lists, NEW i \in DOMAIN stations'[M], stations'[M][i].path
        PROVE  Covered(M, i)'
    <3>1. CASE M = L
      BY <1>2, <1>9, <2>1, <2>2, <3>1, AfterKeepsCovers
    <3>2. CASE M # L
      <4>1. Covered(M, i)
        BY <1>2, <2>1, <2>2, <3>2 DEF StationsInv, CoversKept
      <4>2. ~Removes(d, M, i)
        BY <3>2 DEF Removes
      <4> QED
        BY <1>9, <4>1, <4>2 DEF Covered, CoveredBut
    <3> QED
      BY <3>1, <3>2
  <2>3. ASSUME NEW e \in Desks, WillSetPath(desk[e])'
        PROVE  Covered(desk[e].list, desk[e].id)'
    <3>1. e # d
      BY <1>3, <2>3 DEF WillSetPath, Unused
    <3>2. /\ desk'[e] = desk[e]
          /\ ~DeskAt(e, "free") /\ desk[e].list = L => Here(d) = After(d)
      <4>1. ASSUME ~DeskAt(e, "free"), desk'[e] = [desk[e] EXCEPT !.fresh = FALSE]
            PROVE  FALSE
        <5>1. "fresh" \in DOMAIN desk[e]
          <6>1. SingleOK(desk[e]) \/ ReplaceOK(desk[e])
            BY <4>1, DeskFields DEF DeskOK
          <6> QED
            BY <6>1 DEF SingleOK, ReplaceOK
        <5>2. desk'[e].fresh = FALSE
          BY <4>1, <5>1
        <5> QED
          BY <2>3, <5>2 DEF WillSetPath
      <4> QED
        BY <1>5, <3>1, <4>1
    <3>3. WillSetPath(desk[e]) /\ ~DeskAt(e, "free")
      BY <2>3, <3>2 DEF WillSetPath, DeskAt
    <3>4. Covered(desk[e].list, desk[e].id)
      BY <2>1, <3>3 DEF StationsInv, CoversKept
    <3>5. ~Removes(d, desk[e].list, desk[e].id)
      <4>1. ASSUME Removes(d, desk[e].list, desk[e].id)
            PROVE  FALSE
        <5>1. k.dropped /\ desk[e].list = L
          BY <4>1 DEF Removes
        <5> QED
          BY <2>1, <3>2, <3>3, <5>1, DroppedChanges
      <4> QED
        BY <4>1
    <3>6. Covered(desk[e].list, desk[e].id)
          => CoveredBut(d, desk[e].list, desk[e].id)
      BY <3>5 DEF Covered, CoveredBut
    <3> QED
      BY <1>9, <3>2, <3>4, <3>6
  <2> QED
    BY <2>2, <2>3
<1> QED
  BY <1>6, <1>8, <1>10 DEF StationsInv

(* A commit takes place or fails.                                          *)
LEMMA CommitStep ==
    ASSUME StationsInv, NEW d \in Desks, CommitStation(d)
    PROVE  StationsInv'
<1>1. /\ DeskAt(d, "commit") /\ ~DeskAt(d, "free")
      /\ UNCHANGED <<objects, premium, wasPremium>>
  BY DEF CommitStation, DeskAt
<1>2. CASE /\ Valid(desk[d])
           /\ stations' = [stations EXCEPT ![desk[d].list] = After(d)]
           /\ desk' = [Overtaken(desk[d].list, After(d)) EXCEPT ![d] = Unused]
           /\ staleCommit' = (staleCommit \/ ~desk[d].fresh)
           /\ UNCHANGED broken
  BY <1>1, <1>2, CommitSucceeds DEF Commits
<1>3. CASE /\ SetDesk(d, Unused) /\ broken' = (broken \/ desk[d].dropped)
           /\ UNCHANGED <<stations, staleCommit>>
  BY <1>1, <1>3, BreaksOff
<1> QED
  BY <1>2, <1>3 DEF CommitStation, After, Here

(* A step that changes nothing.                                            *)
LEMMA StationsStay ==
    ASSUME StationsInv, UNCHANGED stationVars
    PROVE  StationsInv'
<1>1. UNCHANGED <<stations, objects, desk, premium, wasPremium, staleCommit, broken>>
  BY DEF stationVars
<1>2. StationsShape'
  <2>1. ASSUME NEW d \in Desks
        PROVE  desk'[d] = Unused \/ DeskOK(desk[d])'
    <3>1. desk[d] = Unused \/ DeskOK(desk[d])
      BY DEF StationsInv, StationsShape
    <3> QED
      BY <1>1, <3>1 DEF DeskOK, SingleOK, ReplaceOK
  <2> QED
    BY <1>1, <2>1 DEF StationsInv, StationsShape, IsRows
<1>3. ListRules'
  BY <1>1 DEF StationsInv, ListRules
<1>4. \A L, i : Covered(L, i)' <=> Covered(L, i)
  BY <1>1 DEF Covered, Removes, DeskAt, NamedBy
<1>5. \A d \in Desks : WillSetPath(desk[d])' <=> WillSetPath(desk[d])
  BY <1>1 DEF WillSetPath
<1>6. \A d \in Desks : Covered(desk[d].list, desk[d].id)
                       => Covered(desk[d].list, desk[d].id)'
  BY <1>1, <1>4
<1>7. CoversKept'
  BY <1>1, <1>4, <1>5, <1>6 DEF StationsInv, CoversKept
<1> QED
  BY <1>2, <1>3, <1>7 DEF StationsInv

(* Every step keeps the invariant.                                         *)
LEMMA StationsStep ==
    ASSUME StationsInv, StationsNext
    PROVE  StationsInv'
<1>1. CASE ChangePremium
  BY <1>1, PremiumStep
<1>2. ASSUME NEW d \in Desks, NEW L \in Lists, NEW url \in Urls,
             NEW how \in CoverInputs, CreateStation(d, L, url, how)
      PROVE  StationsInv'
  BY <1>2, CreateStationStep
<1>3. ASSUME NEW d \in Desks, NEW L \in Lists, NEW i \in Ids,
             NEW url \in Urls \cup {NoUrl}, NEW how \in CoverInputs,
             UpdateStation(d, L, i, url, how)
      PROVE  StationsInv'
  BY <1>3, UpdateStationStep
<1>4. ASSUME NEW d \in Desks, NEW L \in Lists, NEW i \in Ids,
             DeleteStation(d, L, i)
      PROVE  StationsInv'
  BY <1>4, DeleteStationStep
<1>5. ASSUME NEW d \in Desks, NEW payload \in Payloads, ReplaceStations(d, payload)
      PROVE  StationsInv'
  BY <1>5, ReplaceStationsStep
<1>6. ASSUME NEW d \in Desks,
             \/ FetchRadioCover(d) \/ DropRadioCover(d) \/ PutRadioCover(d)
             \/ PurgeCovers(d) \/ CommitStation(d) \/ RadioKill(d)
      PROVE  StationsInv'
  BY <1>6, FetchStep, DropStep, PutStep, PurgeStep, CommitStep, RadioKillStep
<1> QED
  BY <1>1, <1>2, <1>3, <1>4, <1>5, <1>6 DEF StationsNext

(* Every state of the stations satisfies the invariant.                    *)
THEOREM StationsInvariant == StationsSpec => []StationsInv
<1>1. StationsInit => StationsInv
  BY StationsInitially
<1>2. StationsInv /\ [StationsNext]_stationVars => StationsInv'
  BY StationsStep, StationsStay
<1> QED
  BY <1>1, <1>2, PTL DEF StationsSpec

(* What accounts and the catalog can rely on: no URL twice and the limit,  *)
(* and covers behind the paths.                                            *)
THEOREM StationsAreKept == StationsSpec => []StationsKept
<1>1. StationsInv => StationsKept
  <2> SUFFICES ASSUME StationsInv
               PROVE  ListRules /\ PathsHaveCovers
    BY DEF StationsKept
  <2>1. ListRules
    BY DEF StationsInv
  <2>2. ASSUME ~staleCommit, ~broken, NEW L \in Lists,
               NEW i \in DOMAIN stations[L], stations[L][i].path
        PROVE  \/ <<L, i>> \in objects
               \/ \E d \in Desks : /\ ~DeskAt(d, "free") /\ desk[d].dropped
                                   /\ desk[d].list = L
                                   /\ desk[d].do = "replace" \/ desk[d].id = i
    <3>1. Covered(L, i)
      BY <2>2 DEF StationsInv, CoversKept
    <3>2. ASSUME NEW d \in Desks, Removes(d, L, i)
          PROVE  /\ ~DeskAt(d, "free") /\ desk[d].dropped /\ desk[d].list = L
                 /\ desk[d].do = "replace" \/ desk[d].id = i
      BY <3>2 DEF Removes
    <3> QED
      BY <3>1, <3>2 DEF Covered
  <2>3. PathsHaveCovers
    BY <2>2 DEF PathsHaveCovers
  <2> QED
    BY <2>1, <2>3
<1> QED
  BY <1>1, StationsInvariant, PTL

-----------------------------------------------------------------------------
(* Types of stations.  Every id was made by uuid4, every URL was given,    *)
(* and what a request is to write keeps to that.                           *)
RowsTyped(rows) ==
    \A i \in DOMAIN rows : i \in 1..born /\ rows[i].url \in Urls
Asked(k) ==
    IF k.do = "replace"
    THEN \A n \in DOMAIN k.items :
            k.items[n].id \in 1..born /\ k.items[n].url \in Urls
    ELSE /\ k.id \in 1..born
         /\ k.do = "create" => k.url \in Urls
         /\ k.do = "update" => k.url \in Urls \cup {NoUrl}
StationsTyped ==
    /\ born \in 0..MaxBorn /\ objects \subseteq Lists \X (1..born)
    /\ \A L \in Lists : RowsTyped(stations[L])
    /\ \A d \in Desks : DeskAt(d, "free") \/ Asked(desk[d])

(* A later record of a request that asks for the same.                     *)
SameRequest(k, j) ==
    /\ j.do = k.do
    /\ IF k.do = "replace" THEN j.items = k.items ELSE j.id = k.id /\ j.url = k.url
GoesOn(d) == ~DeskAt(d, "free") /\ SameRequest(desk[d], desk'[d])
DeskSteps(d) ==
    /\ \A e \in Desks \ {d} : desk'[e] = desk[e] \/ GoesOn(e)
    /\ desk'[d] \in {Unused, desk[d]} \/ GoesOn(d) \/ Asked(desk[d])'

(* What was asked for stays so while more ids are made.                    *)
LEMMA SameAsked ==
    ASSUME NEW k, NEW j, Asked(k), SameRequest(k, j),
           born <= born', born \in Nat, born' \in Nat
    PROVE  IF j.do = "replace"
           THEN \A n \in DOMAIN j.items :
                   j.items[n].id \in 1..born' /\ j.items[n].url \in Urls
           ELSE /\ j.id \in 1..born'
                /\ j.do = "create" => j.url \in Urls
                /\ j.do = "update" => j.url \in Urls \cup {NoUrl}
<1>1. 1..born \subseteq 1..born'
  OBVIOUS
<1> QED
  BY <1>1 DEF Asked, SameRequest

(* The fields that stay while a request moves on.                          *)
LEMMA RequestFields ==
    ASSUME StationsInv, NEW d \in Desks, ~DeskAt(d, "free")
    PROVE  /\ desk[d].do # "replace" =>
                 {"at", "do", "id", "url", "path", "dropped", "fresh"}
                    \subseteq DOMAIN desk[d]
           /\ desk[d].do = "replace" =>
                 {"at", "do", "items", "dropped", "fresh"} \subseteq DOMAIN desk[d]
BY DeskFields DEF DeskOK, SingleOK, ReplaceOK

(* What a step must keep of the types.                                     *)
LEMMA TypedMoves ==
    ASSUME StationsInv, StationsTyped, NEW d \in Desks,
           born' \in 0..MaxBorn, born <= born', DeskSteps(d),
           objects' \subseteq objects \cup (Lists \X (1..born')),
           \A L \in Lists : stations'[L] = stations[L] \/ RowsTyped(stations[L])'
    PROVE  StationsTyped'
<1>1. born \in Nat /\ born' \in Nat /\ 1..born \subseteq 1..born'
  BY StationsAssumption DEF StationsTyped
<1>2. \A L \in Lists : RowsTyped(stations[L])'
  BY <1>1 DEF StationsTyped, RowsTyped
<1>3. objects' \subseteq Lists \X (1..born')
  BY <1>1 DEF StationsTyped
<1>4. ASSUME NEW e \in Desks, ~DeskAt(e, "free"), SameRequest(desk[e], desk'[e])
      PROVE  Asked(desk[e])'
  <2>1. Asked(desk[e])
    BY <1>4 DEF StationsTyped
  <2> QED
    BY <1>1, <1>4, <2>1, SameAsked DEF Asked
<1>5. ASSUME NEW e \in Desks
      PROVE  DeskAt(e, "free")' \/ Asked(desk[e])'
  <2>1. CASE desk'[e] = desk[e]
    <3>1. CASE DeskAt(e, "free")
      BY <2>1, <3>1 DEF DeskAt
    <3>2. CASE ~DeskAt(e, "free")
      BY <1>4, <2>1, <3>2 DEF SameRequest
    <3> QED
      BY <3>1, <3>2
  <2>2. CASE desk'[e] = Unused
    BY <2>2 DEF DeskAt, Unused
  <2>3. CASE ~DeskAt(e, "free") /\ SameRequest(desk[e], desk'[e])
    BY <1>4, <2>3
  <2> QED
    BY <2>1, <2>2, <2>3 DEF DeskSteps, GoesOn
<1> QED
  BY <1>2, <1>3, <1>5 DEF StationsTyped

(* The ids and URLs of a payload, with the ids that uuid4 makes for it.    *)
LEMMA PayloadTyped ==
    ASSUME NEW payload \in Payloads, \A n \in DOMAIN payload : payload[n].id <= born,
           born \in Nat
    PROVE  LET items == FirstOfUrl(payload)
               made == NewBefore(items, Len(items))
           IN  /\ made \in Nat
               /\ \A n \in DOMAIN WithIds(items) :
                     /\ WithIds(items)[n].id \in 1..(born + made)
                     /\ WithIds(items)[n].url \in Urls
<1> DEFINE T == [id : Ids \cup {NewId}, url : Urls]
           S == {r \in T : r.id <= born}
           items == FirstOfUrl(payload)
           N == Cardinality(Firsts(payload))
           made == NewBefore(items, Len(items))
           New(n) == {m \in 1..n : items[m].id = NewId}
<1>1. payload \in Seq(T)
  BY StationsAssumption
<1>2. payload \in Seq(S)
  <2>1. payload \in [1..Len(payload) -> T] /\ Len(payload) \in Nat
    BY <1>1, LenProperties
  <2>2. \A n \in 1..Len(payload) : payload[n] \in S
    BY <2>1
  <2> HIDE DEF T, S
  <2>3. payload \in [1..Len(payload) -> S]
    BY <2>1, <2>2
  <2> QED
    BY <2>1, <2>3, SeqDef
<1>3. DOMAIN items = 1..N /\ (\A n \in 1..N : items[n] \in S) /\ N \in Nat
  <2> HIDE DEF S
  <2>1. DOMAIN items = 1..N /\ \A n \in 1..N : items[n] \in S
    BY <1>2, KeptItems
  <2>2. N \in Nat
    BY <1>2, RanksAreTaken, FS_CardinalityType
  <2> QED
    BY <2>1, <2>2
<1>4. items \in Seq(S) /\ Len(items) = N
  <2> DEFINE one(n) == payload[CHOOSE m \in Firsts(payload) : Rank(payload, m) = n]
  <2>1. items = [n \in 1..N |-> one(n)]
    BY FirstOfUrlIs
  <2> HIDE DEF one
  <2> HIDE DEF items, N, S
  <2> QED
    BY <1>3, <2>1
<1>5. \A n \in 1..N :
         /\ NewBefore(items, n) \in Nat /\ NewBefore(items, n) <= made
         /\ items[n].id = NewId => NewBefore(items, n) >= 1
  <2>1. TAKE n \in 1..N
  <2>2. /\ IsFiniteSet(1..N) /\ made = Cardinality(New(N))
        /\ New(N) \subseteq 1..N /\ New(n) \subseteq New(N)
    <3>1. IsFiniteSet(1..N)
      <4>1. N \in Nat
        BY <1>3
      <4> HIDE DEF items, N, S
      <4> QED
        BY <4>1, UpToIsFinite
    <3>2. made = Cardinality(New(N))
      BY <1>4 DEF NewBefore
    <3>3. New(N) \subseteq 1..N /\ New(n) \subseteq New(N)
      <4> HIDE DEF items, N, S
      <4> QED
        BY <1>3
    <3> QED
      BY <3>1, <3>2, <3>3
  <2>3. IsFiniteSet(New(N)) /\ IsFiniteSet(New(n))
    <3> HIDE DEF New
    <3> QED
      BY <2>2, FS_Subset
  <2>4. Cardinality(New(n)) \in Nat /\ Cardinality(New(n)) <= Cardinality(New(N))
    <3> HIDE DEF New
    <3> QED
      BY <2>2, <2>3, FS_Subset, FS_CardinalityType
  <2>5. items[n].id = NewId => Cardinality(New(n)) >= 1
    <3>1. SUFFICES ASSUME items[n].id = NewId PROVE Cardinality(New(n)) >= 1
      OBVIOUS
    <3>2. n \in New(n)
      <4> HIDE DEF items, N, S
      <4> QED
        BY <1>3, <3>1
    <3>3. Cardinality(New(n)) # 0
      <4> HIDE DEF New
      <4> QED
        BY <2>3, <3>2, FS_EmptySet
    <3> HIDE DEF New
    <3> QED
      BY <2>4, <3>3
  <2>6. NewBefore(items, n) = Cardinality(New(n))
    BY DEF NewBefore
  <2> HIDE DEF New, made
  <2> QED
    BY <2>2, <2>3, <2>4, <2>5, <2>6
<1>6. made \in Nat
  <2>1. IsFiniteSet(New(N)) /\ made = Cardinality(New(N))
    <3>1. IsFiniteSet(1..N) /\ New(N) \subseteq 1..N
      <4>1. N \in Nat
        BY <1>3
      <4> HIDE DEF items, N, S
      <4> QED
        BY <4>1, UpToIsFinite
    <3>2. made = Cardinality(New(N))
      BY <1>4 DEF NewBefore
    <3> QED
      BY <3>1, <3>2, FS_Subset
  <2> QED
    BY <2>1, FS_CardinalityType
<1>7. ASSUME NEW n \in 1..N
      PROVE  /\ WithIds(items)[n].id \in 1..(born + made)
             /\ WithIds(items)[n].url \in Urls
  <2>1. WithIds(items)[n] = IF items[n].id = NewId
                            THEN [items[n] EXCEPT !.id = born + NewBefore(items, n)]
                            ELSE items[n]
    BY <1>3 DEF WithIds
  <2>2. items[n] \in T /\ items[n].id <= born
    BY <1>3
  <2>3. items[n].id \in Nat /\ items[n].url \in Urls
    BY <2>2, StationsAssumption DEF Ids, NewId
  <2>4. items[n].id # NewId => items[n].id >= 1
    BY <2>3 DEF NewId
  <2>5. WithIds(items)[n].url = items[n].url
        /\ WithIds(items)[n].id = IF items[n].id = NewId THEN born + NewBefore(items, n)
                                  ELSE items[n].id
    <3> HIDE DEF items
    <3> QED
      BY <2>1, <2>2
  <2>6. /\ NewBefore(items, n) \in Nat
        /\ NewBefore(items, n) <= made
        /\ items[n].id = NewId => NewBefore(items, n) >= 1
    BY <1>5
  <2> HIDE DEF items, made, N
  <2> QED
    BY <1>6, <2>2, <2>3, <2>4, <2>5, <2>6
<1>8. DOMAIN WithIds(items) = 1..N
  BY <1>3 DEF WithIds
<1> QED
  BY <1>6, <1>7, <1>8

(* The rows that a commit leaves.                                          *)
LEMMA AfterTyped ==
    ASSUME StationsInv, StationsTyped, NEW d \in Desks, Commits(d)
    PROVE  RowsTyped(After(d))
<1> DEFINE k == desk[d]
<1>1. k.do \in {"create", "update", "delete", "replace"} /\ k.list \in Lists
  BY CommittedIs DEF DeskOK
<1>2. Asked(k)
  BY DEF StationsTyped, Commits, DeskAt
<1>3. RowsTyped(Here(d))
  BY <1>1 DEF StationsTyped, Here
<1>4. CASE k.do = "create"
  <2>1. /\ DOMAIN After(d) = DOMAIN Here(d) \cup {k.id}
        /\ After(d)[k.id] = [url |-> k.url, path |-> k.path]
        /\ \A i \in DOMAIN After(d) \ {k.id} : After(d)[i] = Here(d)[i]
    BY <1>4, CommittedIs
  <2>2. After(d)[k.id].url = k.url
    BY <2>1
  <2> QED
    BY <1>2, <1>3, <1>4, <2>1, <2>2 DEF Asked, RowsTyped
<1>5. CASE k.do = "update"
  <2>1. /\ k.id \in DOMAIN Here(d) /\ DOMAIN After(d) = DOMAIN Here(d)
        /\ After(d)[k.id] = UpdatedRow(k, Here(d)[k.id])
        /\ \A i \in DOMAIN After(d) \ {k.id} : After(d)[i] = Here(d)[i]
    BY <1>5, CommittedIs
  <2>2. After(d)[k.id].url \in {Here(d)[k.id].url} \cup (Urls \cap {k.url})
    <3>1. k.url \in Urls \cup {NoUrl}
      BY <1>2, <1>5 DEF Asked
    <3> HIDE DEF k
    <3> QED
      BY <2>1, <3>1, UpdatedRowIs
  <2> QED
    BY <1>3, <2>1, <2>2 DEF RowsTyped
<1>6. CASE k.do = "delete"
  BY <1>3, <1>6, CommittedIs DEF RowsTyped
<1>7. CASE k.do = "replace"
  <2>1. After(d) = ListOf(k)
    BY <1>7, CommittedIs
  <2>2. \A n \in DOMAIN k.items : k.items[n].id \in 1..born /\ k.items[n].url \in Urls
    BY <1>2, <1>7 DEF Asked
  <2>3. ASSUME NEW i \in NamedBy(k)
        PROVE  i \in 1..born /\ ListOf(k)[i].url \in Urls
    <3>1. PICK n \in DOMAIN k.items :
             k.items[n].id = i /\ ListOf(k)[i].url = k.items[n].url
      BY ListOfIs
    <3> QED
      BY <2>2, <3>1
  <2>4. DOMAIN ListOf(k) = NamedBy(k)
    BY ListOfIs
  <2> QED
    BY <2>1, <2>3, <2>4 DEF RowsTyped
<1> QED
  BY <1>1, <1>4, <1>5, <1>6, <1>7

(* Each step keeps the types.                                              *)
LEMMA StationsTypedStep ==
    ASSUME StationsInv, StationsTyped, [StationsNext]_stationVars
    PROVE  StationsTyped'
<1>1. /\ born \in Nat /\ born \in 0..MaxBorn /\ MaxBorn \in Nat
      /\ DOMAIN desk = Desks /\ DOMAIN stations = Lists /\ born <= born
  BY StationsAssumption DEF StationsTyped, StationsInv, StationsShape
<1>2. ASSUME UNCHANGED <<stations, objects, born>>, NEW d \in Desks, DeskSteps(d)
      PROVE  StationsTyped'
  BY <1>1, <1>2, TypedMoves
<1>3. ASSUME NEW d \in Desks, UNCHANGED stations,
             objects' \subseteq objects \cup (Lists \X (1..born')),
             born' \in 0..MaxBorn, born <= born',
             NEW k, SetDesk(d, k),
             \/ k = Unused \/ Asked(desk[d])'
             \/ ~DeskAt(d, "free") /\ SameRequest(desk[d], k)
      PROVE  StationsTyped'
  <2>1. desk'[d] = k /\ \A e \in Desks \ {d} : desk'[e] = desk[e]
    BY <1>1, <1>3 DEF SetDesk
  <2>2. DeskSteps(d)
    BY <1>3, <2>1 DEF DeskSteps, GoesOn
  <2> QED
    BY <1>3, <2>2, TypedMoves
<1>4. ASSUME UNCHANGED <<stations, objects, desk, born>>
      PROVE  StationsTyped'
  BY <1>4 DEF StationsTyped, RowsTyped, Asked, DeskAt
<1>5. ASSUME NEW d \in Desks, NEW L \in Lists, NEW url \in Urls,
             NEW how \in CoverInputs, CreateStation(d, L, url, how)
      PROVE  StationsTyped'
  <2>1. UNCHANGED <<stations, objects>>
    BY <1>5 DEF CreateStation, Called
  <2>2. CASE UNCHANGED <<desk, born>>
    BY <1>4, <2>1, <2>2
  <2> DEFINE k == [at |-> CoverStep(how), do |-> "create", list |-> L,
                   id |-> born + 1, url |-> url, how |-> how,
                   path |-> FALSE, seen |-> stations[L],
                   dropped |-> FALSE, fresh |-> TRUE]
  <2>3. CASE born < MaxBorn /\ born' = born + 1 /\ SetDesk(d, k)
    <3>1. born' \in 0..MaxBorn /\ born <= born' /\ born' \in 1..born'
      BY <1>1, <2>3
    <3>2. desk'[d] = k
      BY <1>1, <2>3 DEF SetDesk
    <3>3. Asked(desk[d])'
      BY <2>3, <3>1, <3>2 DEF Asked
    <3> HIDE DEF k
    <3> QED
      BY <1>3, <2>1, <2>3, <3>1, <3>3
  <2> QED
    BY <1>5, <2>2, <2>3 DEF CreateStation
<1>6. ASSUME NEW d \in Desks, NEW L \in Lists, NEW i, NEW url \in Urls \cup {NoUrl},
             NEW how, UpdateStation(d, L, i, url, how) \/ DeleteStation(d, L, i)
      PROVE  StationsTyped'
  <2>1. UNCHANGED <<stations, objects, born>> /\ i \in 1..born
    BY <1>6 DEF UpdateStation, DeleteStation, Called, StationsTyped, RowsTyped
  <2>2. CASE UNCHANGED desk
    BY <1>4, <2>1, <2>2
  <2>3. ASSUME NEW k, SetDesk(d, k), k.do \in {"update", "delete"}, k.id = i,
               k.do = "update" => k.url = url
        PROVE  StationsTyped'
    <3>1. desk'[d] = k
      BY <1>1, <2>3 DEF SetDesk
    <3>2. Asked(desk[d])'
      BY <2>1, <2>3, <3>1 DEF Asked
    <3> QED
      BY <1>1, <1>3, <2>1, <2>3, <3>2
  <2>4. CASE DeleteStation(d, L, i)
    <3> DEFINE k == [at |-> "drop", do |-> "delete", list |-> L, id |-> i,
                     url |-> NoUrl, how |-> "clear", path |-> stations[L][i].path,
                     seen |-> stations[L], dropped |-> FALSE, fresh |-> TRUE]
    <3>1. SetDesk(d, k)
      BY <2>4 DEF DeleteStation
    <3>2. k.do = "delete" /\ k.id = i
      OBVIOUS
    <3> HIDE DEF k
    <3> QED
      BY <2>3, <3>1, <3>2
  <2>5. CASE UpdateStation(d, L, i, url, how)
    <3> DEFINE k == [at |-> CoverStep(how), do |-> "update", list |-> L,
                     id |-> i, url |-> url, how |-> how,
                     path |-> stations[L][i].path, seen |-> stations[L],
                     dropped |-> FALSE, fresh |-> TRUE]
    <3>1. UNCHANGED desk \/ SetDesk(d, k)
      BY <2>5 DEF UpdateStation
    <3>2. k.do = "update" /\ k.id = i /\ k.url = url
      OBVIOUS
    <3> HIDE DEF k
    <3> QED
      BY <2>2, <2>3, <3>1, <3>2
  <2> QED
    BY <1>6, <2>4, <2>5
<1>7. ASSUME NEW d \in Desks, NEW payload \in Payloads, ReplaceStations(d, payload)
      PROVE  StationsTyped'
  <2> DEFINE items == FirstOfUrl(payload)
             made  == NewBefore(items, Len(items))
             k     == [at |-> "purge", do |-> "replace",
                       list |-> "account", items |-> WithIds(items),
                       seen |-> stations["account"],
                       dropped |-> FALSE, fresh |-> TRUE]
  <2>1. /\ UNCHANGED <<stations, objects>>
        /\ \A n \in DOMAIN payload : payload[n].id <= born
    BY <1>7 DEF ReplaceStations, Called
  <2>2. CASE UNCHANGED <<desk, born>>
    BY <1>4, <2>1, <2>2
  <2>3. CASE born + made <= MaxBorn /\ born' = born + made /\ SetDesk(d, k)
    <3>1. /\ made \in Nat
          /\ \A n \in DOMAIN WithIds(items) :
                /\ WithIds(items)[n].id \in 1..(born + made)
                /\ WithIds(items)[n].url \in Urls
      BY <1>1, <2>1, PayloadTyped
    <3>2. born' \in 0..MaxBorn /\ born <= born'
      <4> HIDE DEF made, k
      <4> QED
        BY <1>1, <2>3, <3>1
    <3>3. desk'[d].do = "replace" /\ desk'[d].items = WithIds(items)
      <4> HIDE DEF items, made
      <4> QED
        BY <1>1, <2>3 DEF SetDesk
    <3>4. Asked(desk[d])'
      <4> HIDE DEF items, made, k
      <4> QED
        BY <2>3, <3>1, <3>3 DEF Asked
    <3> HIDE DEF items, made, k
    <3> QED
      BY <1>3, <2>1, <2>3, <3>2, <3>4
  <2> QED
    BY <1>7, <2>2, <2>3 DEF ReplaceStations
<1>8. ASSUME NEW d \in Desks, FetchRadioCover(d) \/ RadioKill(d)
      PROVE  StationsTyped'
  <2>1. UNCHANGED <<stations, objects, born>> /\ ~DeskAt(d, "free")
    BY <1>8 DEF FetchRadioCover, RadioKill, DeskAt
  <2>2. PICK k : SetDesk(d, k) /\ (k = Unused \/ SameRequest(desk[d], k))
    BY <1>8, <2>1, RequestFields DEF FetchRadioCover, RadioKill, SameRequest
  <2> QED
    BY <1>1, <1>3, <2>1, <2>2
<1>9. ASSUME NEW d \in Desks, DropRadioCover(d) \/ PurgeCovers(d)
      PROVE  StationsTyped'
  <2>1. UNCHANGED <<stations, born>> /\ ~DeskAt(d, "free") /\ objects' \subseteq objects
    BY <1>9 DEF DropRadioCover, PurgeCovers, DeskAt
  <2>2. PICK k : SetDesk(d, k) /\ SameRequest(desk[d], k)
    <3>1. CASE PurgeCovers(d)
      <4>1. PICK dropped :
               SetDesk(d, [desk[d] EXCEPT !.at = "commit", !.dropped = dropped])
        BY <3>1 DEF PurgeCovers
      <4> DEFINE k == [desk[d] EXCEPT !.at = "commit", !.dropped = dropped]
      <4>2. SameRequest(desk[d], k)
        BY <2>1, RequestFields DEF SameRequest
      <4> HIDE DEF k
      <4> QED
        BY <4>1, <4>2 DEF k
    <3>2. CASE DropRadioCover(d)
      <4> DEFINE gone == desk[d].path
                 path == IF desk[d].how = "clear" THEN FALSE ELSE desk[d].path
                 at   == IF desk[d].how = "clear" THEN "commit" ELSE "put"
                 k    == [desk[d] EXCEPT !.dropped = gone, !.path = path, !.at = at]
      <4>1. SetDesk(d, k)
        BY <3>2 DEF DropRadioCover
      <4>2. desk[d].do # "replace"
        BY <3>2, DeskFields DEF DropRadioCover, DeskAt, SingleOK
      <4>3. SameRequest(desk[d], k)
        <5> HIDE DEF gone, path, at
        <5> QED
          BY <2>1, <4>2, RequestFields DEF SameRequest
      <4> HIDE DEF k
      <4> QED
        BY <4>1, <4>3
    <3> QED
      BY <1>9, <3>1, <3>2
  <2> QED
    BY <1>1, <1>3, <2>1, <2>2
<1>10. ASSUME NEW d \in Desks, PutRadioCover(d)
       PROVE  StationsTyped'
  <2>1. UNCHANGED <<stations, born>> /\ DeskAt(d, "put") /\ ~DeskAt(d, "free")
        /\ objects' \subseteq objects \cup {<<desk[d].list, desk[d].id>>}
    BY <1>10 DEF PutRadioCover, DeskAt
  <2>2. SingleOK(desk[d]) /\ DeskOK(desk[d]) /\ Asked(desk[d])
    BY <2>1, DeskFields DEF DeskAt, StationsTyped
  <2>3. <<desk[d].list, desk[d].id>> \in Lists \X (1..born)
    BY <2>2 DEF SingleOK, DeskOK, Asked
  <2>4. PICK k : SetDesk(d, k) /\ (k = Unused \/ SameRequest(desk[d], k))
    <3>1. PICK k : /\ SetDesk(d, k)
                   /\ \/ k = Unused
                      \/ k = [desk[d] EXCEPT !.at = "commit", !.path = TRUE,
                                             !.dropped = FALSE]
      BY <1>10 DEF PutRadioCover
    <3>2. desk[d].do # "replace"
      BY <2>2 DEF SingleOK
    <3> QED
      BY <2>1, <3>1, <3>2, RequestFields DEF SameRequest
  <2> QED
    BY <1>1, <1>3, <2>1, <2>3, <2>4
<1>11. ASSUME NEW d \in Desks, CommitStation(d)
       PROVE  StationsTyped'
  <2>1. UNCHANGED <<objects, born>> /\ DeskAt(d, "commit")
    BY <1>11 DEF CommitStation
  <2>2. CASE SetDesk(d, Unused) /\ UNCHANGED stations
    <3>1. \E k : k = Unused /\ SetDesk(d, k)
      BY <2>2
    <3> QED
      BY <1>1, <1>3, <2>1, <2>2, <3>1
  <2>3. CASE /\ Valid(desk[d])
             /\ stations' = [stations EXCEPT ![desk[d].list] = After(d)]
             /\ desk' = [Overtaken(desk[d].list, After(d)) EXCEPT ![d] = Unused]
    <3>1. Commits(d) /\ RowsTyped(After(d))
      BY <2>1, <2>3, AfterTyped DEF Commits
    <3>2. \A L \in Lists : stations'[L] = stations[L] \/ RowsTyped(stations[L])'
      <4>1. \A L \in Lists : stations'[L] = stations[L] \/ stations'[L] = After(d)
        BY <1>1, <2>3
      <4>2. ASSUME NEW rows, RowsTyped(rows), born' = born, NEW L, stations'[L] = rows
            PROVE  RowsTyped(stations[L])'
        BY <4>2 DEF RowsTyped
      <4> QED
        BY <2>1, <3>1, <4>1, <4>2
    <3>3. DeskSteps(d)
      <4>1. /\ desk'[d] = Unused
            /\ \A e \in Desks \ {d} :
                  desk'[e] = Overtaken(desk[d].list, After(d))[e]
        BY <2>3 DEF Overtaken
      <4>2. \A e \in Desks \ {d} :
               \/ desk'[e] = desk[e]
               \/ ~DeskAt(e, "free") /\ desk'[e] = [desk[e] EXCEPT !.fresh = FALSE]
        BY <4>1 DEF Overtaken
      <4>3. \A e \in Desks \ {d} : desk'[e] = desk[e] \/ GoesOn(e)
        BY <4>2, RequestFields DEF GoesOn, SameRequest
      <4> QED
        BY <4>1, <4>3 DEF DeskSteps
    <3> QED
      BY <1>1, <2>1, <3>2, <3>3, TypedMoves
  <2> QED
    BY <1>11, <2>2, <2>3 DEF CommitStation, After, Here
<1>12. CASE ChangePremium \/ UNCHANGED stationVars
  BY <1>4, <1>12 DEF ChangePremium, stationVars
<1> QED
  BY <1>5, <1>6, <1>7, <1>8, <1>9, <1>10, <1>11, <1>12 DEF StationsNext

(* Every station of an account and of the catalog has a URL that a client  *)
(* sent for it, and an id that uuid4 made, and so has every cover in S3:   *)
(* the handlers of api/user_radio_stations.py and api/radio_stations.py,   *)
(* which write back what they read before a download, lose no URL.         *)
THEOREM StationsTypeCorrect == StationsSpec => []StationsTypeOK
<1>1. ASSUME StationsInit PROVE StationsTyped
  BY <1>1, StationsAssumption DEF StationsInit, StationsTyped, RowsTyped, Unused, DeskAt
<1>2. StationsInv /\ StationsTyped /\ [StationsNext]_stationVars => StationsTyped'
  BY StationsTypedStep
<1>3. StationsInv /\ StationsTyped => StationsTypeOK
  BY DEF StationsInv, StationsShape, IsRows, StationsTyped, RowsTyped, StationsTypeOK
<1> QED
  BY <1>1, <1>2, <1>3, StationsInvariant, PTL DEF StationsSpec

-----------------------------------------------------------------------------
(* Albums.  The requests in progress on a cover and on the row.            *)
LoadOK(k) ==
    \/ k = Resting
    \/ /\ DOMAIN k = {"at", "proc"} /\ k.at \in {"disk", "s3"}
    \/ /\ DOMAIN k = {"at", "proc", "body"}
       /\ k.at \in {"got", "fetched", "write", "writing", "unlinked"}

(* A request that creates the album holds the write lock, and there is no  *)
(* album yet; an attachment writes what it has read, and a track.          *)
TaskOK(p, k) ==
    \/ k = Resting
    \/ /\ DOMAIN k = {"at", "do", "edit", "ts", "seen", "path"}
       /\ k.at # "idle"
       /\ k.do \in {"create", "edit", "delete", "attach"}
       /\ k.do = "create" => writer = p /\ album = None
       /\ k.do = "attach" => k.seen.ids \subseteq k.edit.ids

AlbumsShape ==
    /\ DOMAIN mem = Procs /\ DOMAIN load = Loaders /\ DOMAIN task = Procs
    /\ last \in Procs \cup {None}
    /\ overlapped \in BOOLEAN /\ torn \in BOOLEAN
    /\ \A l \in Loaders : LoadOK(load[l])
    /\ \A p \in Procs : TaskOK(p, task[p])

(* What the requests on the cover hold is the cover, too.                  *)
Clean == last # None /\ cover # None /\ ~overlapped /\ ~torn
Writing == disk = Torn /\ \E l \in Loaders : LoadAt(l, "writing")
CacheCurrent ==
    Clean =>
       /\ mem[last] \in {None, cover}
       /\ disk \in {None, cover} \/ Writing
       /\ \A l \in Loaders :
             "body" \in DOMAIN load[l] => load[l].body \in {None, cover}

AlbumsInv == AlbumsShape /\ CacheCurrent

-----------------------------------------------------------------------------
(* Albums.  Nobody has asked for a cover, and no request is in progress.   *)
LEMMA AlbumsInitially ==
    ASSUME AlbumsInit
    PROVE  AlbumsInv
<1>1. AlbumsShape
  BY DEF AlbumsInit, CacheInit, AlbumsShape, LoadOK, TaskOK
<1>2. CacheCurrent
  BY DEF AlbumsInit, CacheInit, CacheCurrent, Clean
<1> QED
  BY <1>1, <1>2 DEF AlbumsInv

(* The task of p is replaced, and no other becomes wrong.                  *)
TaskMoves(p) ==
    /\ DOMAIN task' = Procs /\ \A q \in Procs \ {p} : task'[q] = task[q]
    /\ TaskOK(p, task[p])'
    /\ \A q \in Procs \ {p} : (writer = q /\ album = None)
                                 => (writer' = q /\ album' = None)

(* Then all tasks are right.                                               *)
LEMMA TasksShape ==
    ASSUME AlbumsShape, NEW p \in Procs, TaskMoves(p)
    PROVE  DOMAIN task' = Procs /\ \A q \in Procs : TaskOK(q, task[q])'
<1>1. ASSUME NEW q \in Procs
      PROVE  TaskOK(q, task[q])'
  <2>1. CASE q = p
    BY <2>1 DEF TaskMoves, TaskOK
  <2>2. CASE q # p
    <3>1. TaskOK(q, task[q]) /\ task'[q] = task[q]
      BY <2>2 DEF AlbumsShape, TaskMoves
    <3> QED
      BY <2>2, <3>1 DEF TaskMoves, TaskOK
  <2> QED
    BY <2>1, <2>2
<1> QED
  BY <1>1 DEF TaskMoves

(* A step that leaves the cover and its caches alone.                      *)
LEMMA CachesRest ==
    ASSUME AlbumsInv,
           UNCHANGED <<cover, mem, disk, load, last, overlapped, torn>>,
           DOMAIN task' = Procs, \A q \in Procs : TaskOK(q, task[q])'
    PROVE  AlbumsInv'
<1>1. AlbumsShape'
  BY DEF AlbumsInv, AlbumsShape, LoadOK
<1>2. CacheCurrent'
  BY DEF AlbumsInv, CacheCurrent, Clean, Writing, LoadAt
<1> QED
  BY <1>1, <1>2 DEF AlbumsInv

(* A step of a request for a cover.                                        *)
LEMMA LoadsKeep ==
    ASSUME AlbumsInv, UNCHANGED <<coverVars, task, rowVars>>,
           \/ LoadNext \/ \E l \in Loaders, p \in Procs : StartLoad(l, p)
    PROVE  AlbumsInv'
<1>1. cover' = cover /\ UNCHANGED <<task, writer, album>>
  BY DEF coverVars, rowVars
<1>2. DOMAIN task' = Procs /\ \A q \in Procs : TaskOK(q, task[q])'
  BY <1>1 DEF AlbumsInv, AlbumsShape, TaskOK
<1>3. /\ DOMAIN load = Loaders /\ DOMAIN mem = Procs /\ last \in Procs \cup {None}
      /\ overlapped \in BOOLEAN /\ torn \in BOOLEAN
      /\ \A l \in Loaders : LoadOK(load[l])
  BY DEF AlbumsInv, AlbumsShape
<1>4. ASSUME NEW l \in Loaders, NEW k, LoadGoto(l, k), LoadOK(k),
             UNCHANGED <<last, overlapped>>, torn' \in BOOLEAN,
             torn => torn', DOMAIN mem' = Procs,
             Clean' => /\ mem'[last] \in {None, cover, mem[last]}
                       /\ "body" \in DOMAIN k => k.body \in {None, cover}
                       /\ \/ disk' \in {None, cover}
                          \/ disk' = Torn /\ k.at = "writing"
                          \/ disk' = disk /\ load[l].at # "writing"
      PROVE  AlbumsInv'
  <2>1. DOMAIN load' = Loaders /\ load'[l] = k
        /\ \A m \in Loaders \ {l} : load'[m] = load[m]
    BY <1>3, <1>4 DEF LoadGoto
  <2>2. \A m \in Loaders : LoadOK(load[m])'
    BY <1>3, <1>4, <2>1 DEF LoadOK
  <2>3. AlbumsShape'
    BY <1>2, <1>3, <1>4, <2>1, <2>2 DEF AlbumsShape
  <2>4. CacheCurrent'
    <3> SUFFICES ASSUME Clean'
                 PROVE  /\ mem'[last] \in {None, cover}
                        /\ disk' \in {None, cover} \/ Writing'
                        /\ \A m \in Loaders : "body" \in DOMAIN load'[m] =>
                              load'[m].body \in {None, cover}
      BY <1>1, <1>4 DEF CacheCurrent
    <3>1. Clean
      BY <1>1, <1>3, <1>4 DEF Clean
    <3>2. /\ mem[last] \in {None, cover}
          /\ disk \in {None, cover} \/ Writing
          /\ \A m \in Loaders :
                "body" \in DOMAIN load[m] => load[m].body \in {None, cover}
      BY <3>1 DEF AlbumsInv, CacheCurrent
    <3>3. disk' \in {None, cover} \/ Writing'
      BY <1>4, <2>1, <3>2 DEF Writing, LoadAt
    <3> QED
      BY <1>4, <2>1, <3>2, <3>3
  <2> QED
    BY <2>3, <2>4 DEF AlbumsInv
<1>5. ASSUME NEW l \in Loaders, NEW p \in Procs, StartLoad(l, p)
      PROVE  AlbumsInv'
  <2>1. CASE UNCHANGED load
    BY <1>1, <1>2, <1>5, <2>1, CachesRest
       DEF StartLoad, cacheHistory
  <2>2. CASE LoadGoto(l, [at |-> "disk", proc |-> p])
    <3>1. UNCHANGED <<mem, disk, last, overlapped, torn>> /\ load[l].at = "idle"
      BY <1>5 DEF StartLoad, cacheHistory, LoadAt
    <3> QED
      BY <1>3, <1>4, <2>2, <3>1 DEF LoadOK
  <2> QED
    BY <1>5, <2>1, <2>2 DEF StartLoad
<1>6. ASSUME NEW l \in Loaders, ReadDisk(l)
      PROVE  AlbumsInv'
  <2>1. /\ LoadGoto(l, [at |-> "got", proc |-> load[l].proc, body |-> disk])
        /\ torn' = (torn \/ disk = Torn) /\ load[l].at = "disk"
        /\ UNCHANGED <<mem, disk, last, overlapped>>
    BY <1>6 DEF ReadDisk, LoadAt
  <2>2. torn' \in BOOLEAN /\ (torn => torn')
    BY <1>3, <2>1
  <2>3. Clean' => disk \in {None, cover}
    BY <1>1, <1>3, <2>1 DEF AlbumsInv, CacheCurrent, Clean, Writing
  <2>4. LoadOK([at |-> "got", proc |-> load[l].proc, body |-> disk])
    BY DEF LoadOK
  <2> QED
    BY <1>3, <1>4, <2>1, <2>2, <2>3, <2>4
<1>7. ASSUME NEW l \in Loaders, AfterDisk(l)
      PROVE  AlbumsInv'
  <2>1. UNCHANGED <<disk, last, overlapped, torn>> /\ load[l].at = "got"
    BY <1>7 DEF AfterDisk, cacheHistory, LoadAt
  <2>2. CASE /\ load[l].body # None
             /\ mem' = [mem EXCEPT ![load[l].proc] = load[l].body]
             /\ LoadGoto(l, Resting)
    <3>1. Clean' => load[l].body \in {None, cover}
      <4>1. "body" \in DOMAIN load[l]
        BY <1>3, <2>1 DEF LoadOK, Resting
      <4> QED
        BY <1>1, <2>1, <4>1 DEF AlbumsInv, CacheCurrent, Clean
    <3>2. DOMAIN mem' = Procs
          /\ (Clean' => mem'[last] \in {None, cover, mem[last]})
      BY <1>3, <2>1, <2>2, <3>1 DEF Clean
    <3> QED
      BY <1>3, <1>4, <2>1, <2>2, <3>2 DEF LoadOK, Resting
  <2>3. CASE LoadGoto(l, [at |-> "s3", proc |-> load[l].proc]) /\ UNCHANGED mem
    <3>1. LoadOK([at |-> "s3", proc |-> load[l].proc])
      BY DEF LoadOK
    <3> QED
      BY <1>3, <1>4, <2>1, <2>3, <3>1
  <2> QED
    BY <1>7, <2>2, <2>3 DEF AfterDisk
<1>8. ASSUME NEW l \in Loaders, GetObject(l)
      PROVE  AlbumsInv'
  <2>1. UNCHANGED <<mem, disk, last, overlapped, torn>> /\ load[l].at = "s3"
    BY <1>8 DEF GetObject, cacheHistory, LoadAt
  <2>2. CASE LoadGoto(l, Resting)
    BY <1>3, <1>4, <2>1, <2>2 DEF LoadOK, Resting
  <2>3. CASE LoadGoto(l, [at |-> "fetched", proc |-> load[l].proc, body |-> cover])
    <3>1. LoadOK([at |-> "fetched", proc |-> load[l].proc, body |-> cover])
      BY DEF LoadOK
    <3> QED
      BY <1>3, <1>4, <2>1, <2>3, <3>1
  <2> QED
    BY <1>8, <2>2, <2>3 DEF GetObject
<1>9. ASSUME NEW l \in Loaders, NEW k,
             load[l].at \in {"fetched", "write", "writing", "unlinked"},
             \E at \in {"write", "writing"} : k = [load[l] EXCEPT !.at = at]
      PROVE  /\ LoadOK(k) /\ k.body = load[l].body
             /\ Clean => load[l].body \in {None, cover}
  <2>1. DOMAIN load[l] = {"at", "proc", "body"}
    BY <1>3, <1>9 DEF LoadOK, Resting
  <2> QED
    BY <1>9, <2>1 DEF LoadOK, AlbumsInv, CacheCurrent
<1>10. ASSUME NEW l \in Loaders, AfterObject(l)
       PROVE  AlbumsInv'
  <2> DEFINE k == [load[l] EXCEPT !.at = "write"]
  <2>1. /\ UNCHANGED <<disk, last, overlapped, torn>> /\ load[l].at = "fetched"
        /\ LoadGoto(l, k) /\ mem' = [mem EXCEPT ![load[l].proc] = load[l].body]
    BY <1>10 DEF AfterObject, cacheHistory, LoadAt
  <2>2. /\ LoadOK(k) /\ k.body = load[l].body
        /\ Clean => load[l].body \in {None, cover}
    BY <1>9, <2>1
  <2> HIDE DEF k
  <2>3. Clean' <=> Clean
    BY <1>1, <2>1 DEF Clean
  <2>4. DOMAIN mem' = Procs
        /\ (Clean' => mem'[last] \in {None, cover, mem[last]})
    BY <1>3, <2>1, <2>2, <2>3 DEF Clean
  <2> QED
    BY <1>3, <1>4, <2>1, <2>2, <2>3, <2>4
<1>11. ASSUME NEW l \in Loaders, OpenFile(l)
       PROVE  AlbumsInv'
  <2> DEFINE k == [load[l] EXCEPT !.at = "writing"]
  <2>1. /\ UNCHANGED <<mem, last, overlapped, torn>> /\ load[l].at = "write"
        /\ LoadGoto(l, k) /\ disk' = Torn
    BY <1>11 DEF OpenFile, cacheHistory, LoadAt
  <2>2. /\ LoadOK(k) /\ k.body = load[l].body /\ k.at = "writing"
        /\ Clean => load[l].body \in {None, cover}
    <3>1. "at" \in DOMAIN load[l]
      BY <1>3, <2>1 DEF LoadOK, Resting
    <3> QED
      BY <1>9, <2>1, <3>1
  <2> HIDE DEF k
  <2>3. Clean' <=> Clean
    BY <1>1, <2>1 DEF Clean
  <2> QED
    BY <1>3, <1>4, <2>1, <2>2, <2>3
<1>12. ASSUME NEW l \in Loaders, WriteFile(l)
       PROVE  AlbumsInv'
  <2>1. /\ UNCHANGED <<mem, last, overlapped, torn>> /\ LoadGoto(l, Resting)
        /\ load[l].at \in {"writing", "unlinked"}
        /\ disk' = IF load[l].at = "writing" THEN load[l].body ELSE disk
    BY <1>12 DEF WriteFile, cacheHistory, LoadAt
  <2>2. Clean' <=> Clean
    BY <1>1, <2>1 DEF Clean
  <2>3. Clean => load[l].body \in {None, cover}
    <3>1. "body" \in DOMAIN load[l]
      BY <1>3, <2>1 DEF LoadOK, Resting
    <3> QED
      BY <3>1 DEF AlbumsInv, CacheCurrent
  <2> QED
    BY <1>3, <1>4, <2>1, <2>2, <2>3 DEF LoadOK, Resting
<1>13. ASSUME NEW p \in Procs, Evict(p)
       PROVE  AlbumsInv'
  <2>1. /\ UNCHANGED <<disk, load, last, overlapped, torn>>
        /\ mem' = [mem EXCEPT ![p] = None]
    BY <1>13 DEF Evict, cacheHistory
  <2>2. AlbumsShape'
    BY <1>2, <1>3, <2>1 DEF AlbumsShape, LoadOK
  <2>3. CacheCurrent'
    BY <1>1, <1>3, <2>1 DEF AlbumsInv, CacheCurrent, Clean, Writing, LoadAt
  <2> QED
    BY <2>2, <2>3 DEF AlbumsInv
<1> QED
  BY <1>5, <1>6, <1>7, <1>8, <1>10, <1>11, <1>12, <1>13 DEF LoadNext

-----------------------------------------------------------------------------
(* Albums.  The steps of the requests on the row.                          *)

(* A request begins: it holds the lock if it creates the album.            *)
LEMMA BeginStep ==
    ASSUME AlbumsInv, NEW p \in Procs, Begin(p),
           \/ \E e \in Edits, ts \in Stamps :
                 CreateAlbum(p, e, ts) \/ UpdateAlbum(p, e, ts)
           \/ DeleteAlbum(p)
           \/ \E t \in TrackNames : AttachTrack(p, t)
    PROVE  AlbumsInv'
<1>1. /\ UNCHANGED <<cover, mem, disk, load, last, overlapped, torn>>
      /\ album' = album
  BY DEF Begin, coverVars, cacheVars, cacheHistory
<1>2. None \notin Procs
  BY AlbumsAssumption
<1>3. ASSUME DOMAIN task' = Procs, \A q \in Procs \ {p} : task'[q] = task[q],
             TaskOK(p, task[p])', writer' = writer \/ writer = None
      PROVE  AlbumsInv'
  <2>1. TaskMoves(p)
    BY <1>1, <1>2, <1>3 DEF TaskMoves
  <2> QED
    BY <1>1, <2>1, TasksShape, CachesRest DEF AlbumsInv
<1>4. CASE UNCHANGED <<writer, task>>
  BY <1>1, <1>4, CachesRest DEF AlbumsInv, AlbumsShape, TaskOK
<1>5. \A how : FirstStep(how) # "idle"
  BY DEF FirstStep
<1>6. ASSUME NEW k, Goto(p, k)
      PROVE  /\ DOMAIN task' = Procs /\ task'[p] = k
             /\ \A q \in Procs \ {p} : task'[q] = task[q]
  BY <1>6 DEF Goto, AlbumsInv, AlbumsShape
<1>7. ASSUME NEW e \in Edits, NEW ts \in Stamps, CreateAlbum(p, e, ts)
      PROVE  AlbumsInv'
  <2> DEFINE k == [at |-> FirstStep(e.cover), do |-> "create", edit |-> e,
                   ts |-> ts, seen |-> None, path |-> FALSE]
  <2>1. CASE writer = None /\ writer' = p /\ Goto(p, k)
    <3>1. /\ DOMAIN task' = Procs /\ task'[p] = k
          /\ \A q \in Procs \ {p} : task'[q] = task[q]
      BY <1>6, <2>1
    <3>2. TaskOK(p, task[p])'
      BY <1>1, <1>5, <1>7, <2>1, <3>1 DEF TaskOK, CreateAlbum
    <3> QED
      BY <1>3, <2>1, <3>1, <3>2
  <2> QED
    BY <1>4, <1>7, <2>1 DEF CreateAlbum
<1>8. ASSUME NEW e \in Edits, NEW ts \in Stamps, UpdateAlbum(p, e, ts)
      PROVE  AlbumsInv'
  <2> DEFINE k == [at |-> FirstStep(e.cover), do |-> "edit", edit |-> e,
                   ts |-> ts, seen |-> album, path |-> album.path]
  <2>1. CASE Goto(p, k)
    <3>1. /\ DOMAIN task' = Procs /\ task'[p] = k
          /\ \A q \in Procs \ {p} : task'[q] = task[q]
      BY <1>6, <2>1
    <3>2. TaskOK(p, task[p])'
      BY <1>5, <3>1 DEF TaskOK
    <3> QED
      BY <1>3, <1>8, <3>1, <3>2 DEF UpdateAlbum
  <2> QED
    BY <1>4, <1>8, <2>1 DEF UpdateAlbum
<1>9. CASE DeleteAlbum(p)
  <2> DEFINE k == [at |-> "drop", do |-> "delete", edit |-> [ids |-> None,
                   cover |-> "clear"], ts |-> None, seen |-> album,
                   path |-> album.path]
  <2>1. /\ DOMAIN task' = Procs /\ task'[p] = k
        /\ \A q \in Procs \ {p} : task'[q] = task[q]
    BY <1>6, <1>9 DEF DeleteAlbum
  <2>2. TaskOK(p, task[p])'
    BY <2>1 DEF TaskOK
  <2> QED
    BY <1>3, <1>9, <2>1, <2>2 DEF DeleteAlbum
<1>10. ASSUME NEW t \in TrackNames, AttachTrack(p, t)
       PROVE  AlbumsInv'
  <2> DEFINE k == [at |-> "commit", do |-> "attach",
                   edit |-> [ids |-> album.ids \cup {t}, cover |-> "keep"],
                   ts |-> None, seen |-> album, path |-> album.path]
  <2>1. CASE Goto(p, k)
    <3>1. /\ DOMAIN task' = Procs /\ task'[p] = k
          /\ \A q \in Procs \ {p} : task'[q] = task[q]
      BY <1>6, <2>1
    <3>2. TaskOK(p, task[p])'
      BY <3>1 DEF TaskOK
    <3> QED
      BY <1>3, <1>10, <3>1, <3>2 DEF AttachTrack
  <2> QED
    BY <1>4, <1>10, <2>1 DEF AttachTrack
<1> QED
  BY <1>7, <1>8, <1>9, <1>10

(* A request goes on without the row.                                      *)
LEMMA TaskGoesOn ==
    ASSUME AlbumsInv, NEW p \in Procs, NEW k, Goto(p, k), album' = album,
           \/ writer' = writer /\ TaskOK(p, k)
           \/ Release(p) /\ k = Resting
    PROVE  DOMAIN task' = Procs /\ \A q \in Procs : TaskOK(q, task[q])'
<1>1. DOMAIN task' = Procs /\ task'[p] = k
      /\ \A q \in Procs \ {p} : task'[q] = task[q]
  BY DEF Goto, AlbumsInv, AlbumsShape
<1>2. TaskOK(p, task[p])'
  BY <1>1 DEF TaskOK
<1>3. TaskMoves(p)
  BY <1>1, <1>2 DEF TaskMoves, Release
<1> QED
  BY <1>3, TasksShape DEF AlbumsInv

(* The fields of a request that is in progress, moved on.                  *)
LEMMA TaskGoto ==
    ASSUME AlbumsInv, NEW p \in Procs, task[p].at # "idle", NEW at, at # "idle",
           NEW path
    PROVE  /\ TaskOK(p, [task[p] EXCEPT !.at = at])
           /\ TaskOK(p, [task[p] EXCEPT !.at = at, !.path = path])
<1>1. /\ DOMAIN task[p] = {"at", "do", "edit", "ts", "seen", "path"}
      /\ TaskOK(p, task[p]) /\ task[p] # Resting
  BY DEF AlbumsInv, AlbumsShape, TaskOK, Resting
<1>2. ASSUME NEW k, DOMAIN k = DOMAIN task[p], k.at = at, k.do = task[p].do,
             k.edit = task[p].edit, k.seen = task[p].seen
      PROVE  TaskOK(p, k)
  BY <1>1, <1>2 DEF TaskOK
<1> DEFINE moved == [task[p] EXCEPT !.at = at]
           cleared == [task[p] EXCEPT !.at = at, !.path = path]
<1>3. /\ DOMAIN moved = DOMAIN task[p] /\ moved.at = at
      /\ moved.do = task[p].do /\ moved.edit = task[p].edit
      /\ moved.seen = task[p].seen
  BY <1>1
<1>4. /\ DOMAIN cleared = DOMAIN task[p] /\ cleared.at = at
      /\ cleared.do = task[p].do /\ cleared.edit = task[p].edit
      /\ cleared.seen = task[p].seen
  BY <1>1
<1> HIDE DEF moved, cleared
<1>5. TaskOK(p, moved) /\ TaskOK(p, cleared)
  BY <1>2, <1>3, <1>4
<1> QED
  BY <1>5 DEF moved, cleared

(* The cover of the request is downloaded, and the old object dropped.     *)
LEMMA FetchAndDropStep ==
    ASSUME AlbumsInv, NEW p \in Procs, FetchCover(p) \/ DropObject(p)
    PROVE  AlbumsInv'
<1>1. CASE FetchCover(p)
  <2>1. /\ UNCHANGED <<cover, mem, disk, load, last, overlapped, torn, album>>
        /\ task[p].at = "fetch"
    BY <1>1 DEF FetchCover, At, coverVars, cacheVars, cacheHistory
  <2>2. TaskOK(p, [task[p] EXCEPT !.at = "drop"])
    BY <2>1, TaskGoto
  <2>3. DOMAIN task' = Procs /\ \A q \in Procs : TaskOK(q, task[q])'
    BY <1>1, <2>1, <2>2, TaskGoesOn DEF FetchCover
  <2> QED
    BY <2>1, <2>3, CachesRest
<1>2. CASE DropObject(p)
  <2>1. /\ UNCHANGED <<mem, disk, load, last, overlapped, torn, album, writer>>
        /\ task[p].at = "drop" /\ cover' \in {cover, None}
    BY <1>2 DEF DropObject, At, cacheVars, cacheHistory, rowVars
  <2> DEFINE at == IF task[p].do = "delete" THEN "commit" ELSE "forget"
  <2>2. TaskOK(p, [task[p] EXCEPT !.at = at])
    BY <2>1, TaskGoto
  <2>3. DOMAIN task' = Procs /\ \A q \in Procs : TaskOK(q, task[q])'
    BY <1>2, <2>1, <2>2, TaskGoesOn DEF DropObject
  <2>4. AlbumsShape'
    BY <2>1, <2>3 DEF AlbumsInv, AlbumsShape, LoadOK
  <2>5. CacheCurrent'
    BY <2>1 DEF AlbumsInv, CacheCurrent, Clean, Writing, LoadAt
  <2> QED
    BY <2>4, <2>5 DEF AlbumsInv
<1> QED
  BY <1>1, <1>2

(* An invalidation that overlaps nothing leaves nothing in the caches.     *)
LEMMA ForgetStep ==
    ASSUME AlbumsInv, NEW p \in Procs, Forget(p)
    PROVE  AlbumsInv'
<1>1. /\ cover' = cover /\ torn' = torn /\ album' = album /\ writer' = writer
      /\ task[p].at = "forget" /\ mem' = [mem EXCEPT ![p] = None]
      /\ disk' = None /\ last' = p
      /\ load' = [l \in Loaders |->
                    IF load[l].at = "writing"
                    THEN [load[l] EXCEPT !.at = "unlinked"] ELSE load[l]]
      /\ overlapped' = (Loading \/ \E q \in Procs \ {p} : task[q].at = "put")
  BY DEF Forget, Forgotten, At, LoadAt, coverVars, rowVars
<1>2. overlapped' \in BOOLEAN /\ (~overlapped' => ~Loading)
  BY <1>1
<1>3. /\ DOMAIN load = Loaders /\ DOMAIN mem = Procs /\ torn \in BOOLEAN
      /\ \A l \in Loaders : LoadOK(load[l])
  BY DEF AlbumsInv, AlbumsShape
<1>4. \A l \in Loaders : LoadOK(load[l])'
  <2>1. ASSUME NEW l \in Loaders, load[l].at = "writing"
        PROVE  LoadOK([load[l] EXCEPT !.at = "unlinked"])
    BY <1>3, <2>1 DEF LoadOK, Resting
  <2> QED
    BY <1>1, <1>3, <2>1 DEF LoadOK
<1>5. DOMAIN task' = Procs /\ \A q \in Procs : TaskOK(q, task[q])'
  <2>1. /\ TaskOK(p, [task[p] EXCEPT !.at = "commit", !.path = FALSE])
        /\ TaskOK(p, [task[p] EXCEPT !.at = "put"])
    BY <1>1, TaskGoto
  <2> QED
    BY <1>1, <2>1, TaskGoesOn DEF Forget
<1>6. AlbumsShape'
  BY <1>1, <1>2, <1>3, <1>4, <1>5 DEF AlbumsShape
<1>7. ASSUME ~overlapped', NEW l \in Loaders
      PROVE  load'[l] = Resting
  BY <1>1, <1>2, <1>3, <1>7 DEF Loading, LoadOK
<1>8. CacheCurrent'
  <2>1. mem'[last'] = None /\ disk' = None
    BY <1>1, <1>3
  <2>2. "body" \notin DOMAIN Resting
    BY DEF Resting
  <2> QED
    BY <1>7, <2>1, <2>2 DEF CacheCurrent, Clean
<1> QED
  BY <1>6, <1>8 DEF AlbumsInv

(* A cover is put behind caches that are empty, or the step is noted.      *)
LEMMA PutCoverStep ==
    ASSUME AlbumsInv, NEW p \in Procs, PutCover(p)
    PROVE  AlbumsInv'
<1>1. /\ UNCHANGED <<mem, disk, load, last, torn, album>> /\ task[p].at = "put"
  BY DEF PutCover, At, cacheVars
<1>2. overlapped \in BOOLEAN /\ \A l \in Loaders : LoadOK(load[l])
  BY DEF AlbumsInv, AlbumsShape
<1>3. CASE /\ overlapped' = (overlapped \/ Loading \/ disk # None
                                        \/ mem[last] # None)
           /\ Goto(p, [task[p] EXCEPT !.at = "commit", !.path = TRUE])
           /\ writer' = writer
  <2>1. TaskOK(p, [task[p] EXCEPT !.at = "commit", !.path = TRUE])
    BY <1>1, TaskGoto
  <2>2. DOMAIN task' = Procs /\ \A q \in Procs : TaskOK(q, task[q])'
    BY <1>1, <1>3, <2>1, TaskGoesOn
  <2>3. /\ overlapped' \in BOOLEAN
        /\ ~overlapped' => ~Loading /\ disk = None /\ mem[last] = None
    BY <1>2, <1>3
  <2>4. AlbumsShape'
    BY <1>1, <2>2, <2>3 DEF AlbumsInv, AlbumsShape, LoadOK
  <2>5. ASSUME ~Loading, NEW l \in Loaders
        PROVE  "body" \notin DOMAIN load[l]
    BY <1>2, <2>5 DEF Loading, LoadOK, Resting
  <2>6. CacheCurrent'
    BY <1>1, <2>3, <2>5 DEF CacheCurrent, Clean
  <2> QED
    BY <2>4, <2>6 DEF AlbumsInv
<1>4. CASE /\ Goto(p, Resting) /\ Release(p)
           /\ UNCHANGED <<coverVars, overlapped>>
  <2>1. DOMAIN task' = Procs /\ \A q \in Procs : TaskOK(q, task[q])'
    BY <1>1, <1>4, TaskGoesOn
  <2> QED
    BY <1>1, <1>4, <2>1, CachesRest DEF coverVars
<1> QED
  BY <1>3, <1>4 DEF PutCover

(* A commit needs the write lock: while the album is being created, only   *)
(* that request commits.                                                   *)
LEMMA CommitAlbumStep ==
    ASSUME AlbumsInv, NEW p \in Procs, Commit(p)
    PROVE  AlbumsInv'
<1>1. /\ UNCHANGED <<cover, mem, disk, load, last, overlapped, torn>>
      /\ Goto(p, Resting) /\ Release(p)
      /\ album' = album \/ writer \in {None, p}
  BY DEF Commit, coverVars, cacheVars, cacheHistory
<1>2. /\ DOMAIN task' = Procs /\ task'[p] = Resting
      /\ \A q \in Procs \ {p} : task'[q] = task[q]
  BY <1>1 DEF Goto, AlbumsInv, AlbumsShape
<1>3. None \notin Procs
  BY AlbumsAssumption
<1>4. TaskMoves(p)
  BY <1>1, <1>2, <1>3 DEF TaskMoves, TaskOK, Release
<1> QED
  BY <1>1, <1>4, TasksShape, CachesRest DEF AlbumsInv

(* A killed process loses its memory, its requests and its lock.           *)
LEMMA AlbumKillStep ==
    ASSUME AlbumsInv, NEW p \in Procs, AlbumKill(p)
    PROVE  AlbumsInv'
<1>1. /\ UNCHANGED <<cover, disk, last, overlapped, album>>
      /\ mem' = [mem EXCEPT ![p] = None]
      /\ load' = [l \in Loaders |->
                    IF load[l].at # "idle" /\ load[l].proc = p
                    THEN Resting ELSE load[l]]
      /\ torn' = (torn \/ \E l \in Loaders :
                              load[l].at = "writing" /\ load[l].proc = p)
      /\ Goto(p, Resting) /\ Release(p)
  BY DEF AlbumKill, CacheKilled, LoadAt, coverVars
<1>2. /\ DOMAIN load = Loaders /\ DOMAIN mem = Procs /\ torn \in BOOLEAN
      /\ \A l \in Loaders : LoadOK(load[l])
  BY DEF AlbumsInv, AlbumsShape
<1>3. /\ torn' \in BOOLEAN
      /\ ~torn' => /\ ~torn
                   /\ \A l \in Loaders :
                         load[l].at = "writing" => load'[l] = load[l]
  BY <1>1, <1>2
<1>4. DOMAIN task' = Procs /\ \A q \in Procs : TaskOK(q, task[q])'
  BY <1>1, TaskGoesOn
<1>5. AlbumsShape'
  BY <1>1, <1>2, <1>3, <1>4 DEF AlbumsInv, AlbumsShape, LoadOK
<1>6. CacheCurrent'
  <2> SUFFICES ASSUME Clean'
               PROVE  /\ mem'[last] \in {None, cover}
                      /\ disk \in {None, cover} \/ Writing'
                      /\ \A l \in Loaders : "body" \in DOMAIN load'[l] =>
                            load'[l].body \in {None, cover}
    BY <1>1 DEF CacheCurrent
  <2>1. Clean /\ last \in Procs
    BY <1>1, <1>3 DEF Clean, AlbumsInv, AlbumsShape
  <2>2. /\ mem[last] \in {None, cover}
        /\ disk \in {None, cover} \/ Writing
        /\ \A l \in Loaders :
              "body" \in DOMAIN load[l] => load[l].body \in {None, cover}
    BY <2>1 DEF AlbumsInv, CacheCurrent
  <2>3. Writing => Writing'
    BY <1>1, <1>3 DEF Writing, LoadAt, Clean
  <2>4. "body" \notin DOMAIN Resting
    BY DEF Resting
  <2>5. mem'[last] \in {None, cover}
    BY <1>1, <1>2, <2>1, <2>2
  <2>6. \A l \in Loaders : load'[l] = Resting \/ load'[l] = load[l]
    BY <1>1
  <2> QED
    BY <2>2, <2>3, <2>4, <2>5, <2>6
<1> QED
  BY <1>5, <1>6 DEF AlbumsInv

(* Every step keeps the invariant.                                         *)
LEMMA AlbumsStep ==
    ASSUME AlbumsInv, [AlbumsNext]_albumVars
    PROVE  AlbumsInv'
<1>1. CASE UNCHANGED albumVars
  <2>1. UNCHANGED <<cover, mem, disk, load, last, overlapped, torn, task,
                    writer, album>>
    BY <1>1 DEF albumVars, coverVars, cacheVars, cacheHistory, rowVars
  <2> QED
    BY <2>1, CachesRest DEF AlbumsInv, AlbumsShape, TaskOK
<1>2. CASE AlbumTick
  <2>1. UNCHANGED <<cover, mem, disk, load, last, overlapped, torn, task,
                    writer, album>>
    BY <1>2 DEF AlbumTick, coverVars, cacheVars, cacheHistory, rowVars
  <2> QED
    BY <2>1, CachesRest DEF AlbumsInv, AlbumsShape, TaskOK
<1>3. CASE Resolve
  <2>1. UNCHANGED <<coverVars, task, rowVars>> /\ LoadNext
    BY <1>3 DEF Resolve, LoadNext, ReadDisk, AfterDisk, GetObject, AfterObject,
                OpenFile, WriteFile, Evict
  <2> QED
    BY <2>1, LoadsKeep
<1>4. ASSUME NEW p \in Procs, NEW l \in Loaders, GetAlbumCover(l, p)
      PROVE  AlbumsInv'
  <2>1. UNCHANGED <<coverVars, task, rowVars>> /\ StartLoad(l, p)
    BY <1>4 DEF GetAlbumCover, StartLoad
  <2> QED
    BY <2>1, LoadsKeep
<1>5. ASSUME NEW p \in Procs,
             \/ \E e \in Edits, ts \in Stamps :
                   CreateAlbum(p, e, ts) \/ UpdateAlbum(p, e, ts)
             \/ DeleteAlbum(p)
             \/ \E t \in TrackNames : AttachTrack(p, t)
      PROVE  AlbumsInv'
  <2>1. Begin(p)
    BY <1>5 DEF CreateAlbum, UpdateAlbum, DeleteAlbum, AttachTrack
  <2> QED
    BY <1>5, <2>1, BeginStep
<1>6. ASSUME NEW p \in Procs,
             \/ FetchCover(p) \/ DropObject(p) \/ Forget(p) \/ PutCover(p)
             \/ Commit(p) \/ AlbumKill(p)
      PROVE  AlbumsInv'
  BY <1>6, FetchAndDropStep, ForgetStep, PutCoverStep, CommitAlbumStep,
     AlbumKillStep
<1> QED
  BY <1>1, <1>2, <1>3, <1>4, <1>5, <1>6 DEF AlbumsNext

(* Every state of the album and its cover satisfies the invariant.         *)
THEOREM AlbumsInvariant == AlbumsSpec => []AlbumsInv
<1>1. AlbumsInit => AlbumsInv
  BY AlbumsInitially
<1>2. AlbumsInv /\ [AlbumsNext]_albumVars => AlbumsInv'
  BY AlbumsStep
<1> QED
  BY <1>1, <1>2, PTL DEF AlbumsSpec

(* After an invalidation that overlapped nothing, the disk cache and the   *)
(* memory of its process hold the cover that is in S3, or nothing.         *)
THEOREM CoversAreCurrent == AlbumsSpec => []CoverIsCurrent
<1>1. AlbumsInv => CoverIsCurrent
  BY DEF AlbumsInv, CacheCurrent, Clean, Writing, CoverIsCurrent, Loading, LoadAt
<1> QED
  BY <1>1, AlbumsInvariant, PTL

(* The steps by which the row of an album changes.                         *)
LEMMA WhoWrites ==
    ASSUME [AlbumsNext]_albumVars, album' # album
    PROVE  \E p \in Procs : Commit(p)
<1>1. CASE UNCHANGED albumVars
  BY <1>1 DEF albumVars, rowVars
<1>2. CASE AlbumTick \/ Resolve
  BY <1>2 DEF AlbumTick, Resolve, rowVars
<1>3. ASSUME NEW p \in Procs, NEW l \in Loaders, GetAlbumCover(l, p)
      PROVE  FALSE
  BY <1>3 DEF GetAlbumCover, rowVars
<1>4. ASSUME NEW p \in Procs,
             \/ \E e \in Edits, ts \in Stamps :
                   CreateAlbum(p, e, ts) \/ UpdateAlbum(p, e, ts)
             \/ DeleteAlbum(p)
             \/ \E t \in TrackNames : AttachTrack(p, t)
      PROVE  FALSE
  BY <1>4 DEF CreateAlbum, UpdateAlbum, DeleteAlbum, AttachTrack, Begin
<1>5. ASSUME NEW p \in Procs,
             \/ FetchCover(p) \/ DropObject(p) \/ Forget(p) \/ PutCover(p)
             \/ AlbumKill(p)
      PROVE  FALSE
  BY <1>5 DEF FetchCover, DropObject, Forget, PutCover, AlbumKill, rowVars
<1> QED
  BY <1>1, <1>2, <1>3, <1>4, <1>5 DEF AlbumsNext

(* A track leaves the album only by a request that was told to leave it    *)
(* out, or by an attachment that had read the album without it.            *)
LEMMA TracksStayStep ==
    ASSUME AlbumsInv, [AlbumsNext]_albumVars, album # None, album' # None,
           NEW t \in album.ids \ album'.ids
    PROVE  \E p \in Procs :
              /\ At(p, "commit") /\ task'[p].at = "idle"
              /\ task[p].edit.ids # None /\ t \notin task[p].edit.ids
              /\ task[p].do = "attach" => t \notin task[p].seen.ids
<1>1. PICK p \in Procs : Commit(p)
  BY WhoWrites
<1>2. At(p, "commit") /\ task'[p] = Resting /\ TaskOK(p, task[p]) /\ task[p] # Resting
  BY <1>1 DEF Commit, Goto, AlbumsInv, AlbumsShape, At, Resting
<1>3. task[p].do # "create" /\ (task[p].do = "attach"
                                  => task[p].seen.ids \subseteq task[p].edit.ids)
  BY <1>2 DEF TaskOK
<1>4. album' = Written(task[p])
  BY <1>1, <1>3 DEF Commit
<1>5. task[p].edit.ids # None /\ album'.ids = task[p].edit.ids
  BY <1>4 DEF Written
<1> QED
  BY <1>2, <1>3, <1>5 DEF Resting

(* So a cover that takes a minute to download undoes no import.            *)
THEOREM AttachedTracksStay == AlbumsSpec => AttachedTrackStays
<1>1. AlbumsInv /\ [AlbumsNext]_albumVars =>
         [(album # None /\ album' # None) =>
            \A t \in album.ids \ album'.ids :
               \E p \in Procs :
                  /\ At(p, "commit") /\ task'[p].at = "idle"
                  /\ task[p].edit.ids # None /\ t \notin task[p].edit.ids
                  /\ task[p].do = "attach" => t \notin task[p].seen.ids]_albumVars
  BY TracksStayStep
<1> QED
  BY <1>1, AlbumsInvariant, PTL DEF AlbumsSpec, AttachedTrackStays

-----------------------------------------------------------------------------
(* Types of albums.  The caches and the loads hold bodies that were        *)
(* uploaded, and the requests what they may write into the row.            *)
Held == Bodies \cup {None, Torn}
CacheTyped ==
    /\ cover \in Bodies \cup {None} /\ uploads \in 0..MaxUploads
    /\ mem \in [Procs -> Held] /\ disk \in Held
    /\ \A l \in Loaders : "body" \in DOMAIN load[l] => load[l].body \in Held
Rows == [at : 0..MaxTime, ids : SUBSET TrackNames, path : BOOLEAN]
TaskTyped(k) ==
    k # Resting =>
       /\ k.edit.ids = None \/ k.edit.ids \subseteq TrackNames
       /\ k.ts = None \/ k.ts \in 0..MaxTime
       /\ k.path \in BOOLEAN
RowTyped ==
    /\ album = None \/ album \in Rows
    /\ \A p \in Procs : TaskTyped(task[p])
    /\ writer \in Procs \cup {None} /\ (writer # None => task[writer] # Resting)
    /\ clock \in 0..MaxTime /\ writes \in 0..MaxWrites

(* Loads put what they have read into the caches.                          *)
LEMMA LoadsTyped ==
    ASSUME AlbumsInv, CacheTyped, UNCHANGED <<coverVars, task, rowVars>>,
           \/ LoadNext \/ \E l \in Loaders, p \in Procs : StartLoad(l, p)
    PROVE  CacheTyped'
<1>1. /\ UNCHANGED <<cover, uploads>> /\ DOMAIN load = Loaders
      /\ \A l \in Loaders :
            LoadOK(load[l]) /\ ("body" \in DOMAIN load[l] => load[l].body \in Held)
      /\ mem \in [Procs -> Held] /\ disk \in Held
  BY DEF coverVars, CacheTyped, AlbumsInv, AlbumsShape
<1>2. ASSUME NEW l \in Loaders, NEW k, LoadGoto(l, k) \/ UNCHANGED load,
             "body" \in DOMAIN k => k.body \in Held,
             mem' \in [Procs -> Held], disk' \in Held
      PROVE  CacheTyped'
  <2>1. \A m \in Loaders : load'[m] = k \/ load'[m] = load[m]
    BY <1>1, <1>2 DEF LoadGoto
  <2>2. \A m \in Loaders : "body" \in DOMAIN load'[m] => load'[m].body \in Held
    BY <1>1, <1>2, <2>1
  <2> QED
    BY <1>1, <1>2, <2>2 DEF CacheTyped, Held
<1>3. ASSUME NEW b \in Held, NEW p
      PROVE  [mem EXCEPT ![p] = b] \in [Procs -> Held]
  BY <1>1, <1>3
<1>4. /\ "body" \notin DOMAIN Resting /\ {None, Torn} \subseteq Held
      /\ cover # None => cover \in Held
  BY DEF Resting, Held, CacheTyped
<1>5. ASSUME NEW l \in Loaders, NEW p \in Procs, StartLoad(l, p)
      PROVE  CacheTyped'
  <2>1. /\ UNCHANGED <<mem, disk>>
        /\ UNCHANGED load \/ LoadGoto(l, [at |-> "disk", proc |-> p])
    BY <1>5 DEF StartLoad
  <2>2. "body" \notin DOMAIN [at |-> "disk", proc |-> p]
    OBVIOUS
  <2> QED
    BY <1>1, <1>2, <2>1, <2>2
<1>6. ASSUME NEW l \in Loaders, ReadDisk(l) \/ GetObject(l)
      PROVE  CacheTyped'
  <2>1. UNCHANGED <<mem, disk>>
    BY <1>6 DEF ReadDisk, GetObject
  <2>2. PICK k : LoadGoto(l, k) /\ ("body" \in DOMAIN k => k.body \in Held)
    BY <1>1, <1>4, <1>6 DEF ReadDisk, GetObject
  <2> QED
    BY <1>1, <1>2, <2>1, <2>2
<1>7. ASSUME NEW l \in Loaders, AfterDisk(l)
      PROVE  CacheTyped'
  <2>1. "body" \in DOMAIN load[l] /\ load[l].body \in Held
    BY <1>1, <1>7 DEF AfterDisk, LoadAt, LoadOK, Resting
  <2>2. disk' = disk /\ mem' \in [Procs -> Held]
    BY <1>1, <1>3, <1>7, <2>1 DEF AfterDisk
  <2>3. PICK k : LoadGoto(l, k) /\ "body" \notin DOMAIN k
    BY <1>4, <1>7 DEF AfterDisk
  <2> QED
    BY <1>1, <1>2, <2>2, <2>3
<1>8. ASSUME NEW l \in Loaders, AfterObject(l) \/ OpenFile(l)
      PROVE  CacheTyped'
  <2>1. "body" \in DOMAIN load[l] /\ load[l].body \in Held /\ "at" \in DOMAIN load[l]
    BY <1>1, <1>8 DEF AfterObject, OpenFile, LoadAt, LoadOK, Resting
  <2>2. disk' \in Held /\ mem' \in [Procs -> Held]
    BY <1>1, <1>3, <1>4, <1>8, <2>1 DEF AfterObject, OpenFile
  <2>3. PICK k : LoadGoto(l, k) /\ k.body = load[l].body
    BY <1>8, <2>1 DEF AfterObject, OpenFile
  <2> QED
    BY <1>1, <1>2, <2>1, <2>2, <2>3
<1>9. ASSUME NEW l \in Loaders, WriteFile(l)
      PROVE  CacheTyped'
  <2>1. "body" \in DOMAIN load[l] /\ load[l].body \in Held
    BY <1>1, <1>9 DEF WriteFile, LoadOK, Resting
  <2>2. disk' \in Held /\ mem' = mem /\ LoadGoto(l, Resting)
    BY <1>1, <1>9, <2>1 DEF WriteFile
  <2> QED
    BY <1>1, <1>2, <1>4, <2>2
<1>10. ASSUME NEW p \in Procs, Evict(p)
       PROVE  CacheTyped'
  <2>1. UNCHANGED <<load, disk>> /\ mem' \in [Procs -> Held]
    BY <1>3, <1>4, <1>10 DEF Evict
  <2> QED
    BY <1>1, <2>1 DEF CacheTyped, Held
<1> QED
  BY <1>5, <1>6, <1>7, <1>8, <1>9, <1>10 DEF LoadNext

(* So do the requests on the row.                                          *)
LEMMA CacheTypedStep ==
    ASSUME AlbumsInv, CacheTyped, [AlbumsNext]_albumVars
    PROVE  CacheTyped'
<1>1. /\ DOMAIN load = Loaders
      /\ \A l \in Loaders :
            LoadOK(load[l]) /\ ("body" \in DOMAIN load[l] => load[l].body \in Held)
      /\ mem \in [Procs -> Held] /\ disk \in Held
  BY DEF CacheTyped, AlbumsInv, AlbumsShape
<1>2. ASSUME UNCHANGED <<cover, uploads, mem, disk, load>>
      PROVE  CacheTyped'
  BY <1>2 DEF CacheTyped, Held
<1>3. ASSUME cover' \in Bodies \cup {None}, uploads' \in 0..MaxUploads,
             mem' \in [Procs -> Held], disk' \in Held,
             \A l \in Loaders : "body" \in DOMAIN load'[l] => load'[l].body \in Held
      PROVE  CacheTyped'
  BY <1>3 DEF CacheTyped, Held
<1>4. \A p : [mem EXCEPT ![p] = None] \in [Procs -> Held]
  BY <1>1 DEF Held
<1>5. ASSUME NEW p \in Procs,
             \/ \E e \in Edits, ts \in Stamps :
                   CreateAlbum(p, e, ts) \/ UpdateAlbum(p, e, ts)
             \/ DeleteAlbum(p) \/ \E t \in TrackNames : AttachTrack(p, t)
             \/ FetchCover(p) \/ Commit(p)
      PROVE  CacheTyped'
  BY <1>2, <1>5 DEF CreateAlbum, UpdateAlbum, DeleteAlbum, AttachTrack, Begin,
     FetchCover, Commit, coverVars, cacheVars
<1>6. ASSUME NEW p \in Procs, DropObject(p)
      PROVE  CacheTyped'
  BY <1>3, <1>6 DEF DropObject, cacheVars, CacheTyped
<1>7. ASSUME NEW p \in Procs, Forget(p)
      PROVE  CacheTyped'
  <2>1. /\ UNCHANGED <<cover, uploads>> /\ disk' = None
        /\ mem' = [mem EXCEPT ![p] = None]
        /\ load' = [l \in Loaders |->
                      IF load[l].at = "writing"
                      THEN [load[l] EXCEPT !.at = "unlinked"] ELSE load[l]]
    BY <1>7 DEF Forget, Forgotten, LoadAt, coverVars
  <2>2. ASSUME NEW l \in Loaders, "body" \in DOMAIN load'[l]
        PROVE  load'[l].body \in Held
    <3>1. CASE load[l].at = "writing"
      <4>1. DOMAIN load[l] = {"at", "proc", "body"} /\ load[l].body \in Held
        BY <1>1, <3>1 DEF LoadOK, Resting
      <4>2. load'[l] = [load[l] EXCEPT !.at = "unlinked"]
        BY <2>1, <3>1
      <4> QED
        BY <4>1, <4>2
    <3>2. CASE load[l].at # "writing"
      BY <1>1, <2>1, <2>2, <3>2
    <3> QED
      BY <3>1, <3>2
  <2>3. disk' \in Held /\ mem' \in [Procs -> Held]
    BY <1>4, <2>1 DEF Held
  <2> QED
    BY <1>3, <2>1, <2>2, <2>3 DEF CacheTyped
<1>8. ASSUME NEW p \in Procs, PutCover(p)
      PROVE  CacheTyped'
  <2>1. UNCHANGED <<mem, disk, load>>
        /\ \/ UNCHANGED <<cover, uploads>>
           \/ uploads < MaxUploads /\ uploads' = uploads + 1 /\ cover' = uploads + 1
    BY <1>8 DEF PutCover, cacheVars, coverVars
  <2>2. cover' \in Bodies \cup {None} /\ uploads' \in 0..MaxUploads
    BY <2>1, CacheAssumption DEF CacheTyped, Bodies
  <2> QED
    BY <1>1, <1>3, <2>1, <2>2
<1>9. ASSUME NEW p \in Procs, AlbumKill(p)
      PROVE  CacheTyped'
  <2>1. /\ UNCHANGED <<cover, uploads, disk>> /\ mem' = [mem EXCEPT ![p] = None]
        /\ \A l \in Loaders : load'[l] = Resting \/ load'[l] = load[l]
    BY <1>9 DEF AlbumKill, CacheKilled, coverVars
  <2>2. "body" \notin DOMAIN Resting
    BY DEF Resting
  <2>3. \A l \in Loaders : "body" \in DOMAIN load'[l] => load'[l].body \in Held
    BY <1>1, <2>1, <2>2
  <2> QED
    BY <1>1, <1>3, <1>4, <2>1, <2>3 DEF CacheTyped
<1>10. CASE Resolve \/ \E p \in Procs, l \in Loaders : GetAlbumCover(l, p)
  <2>1. /\ UNCHANGED <<coverVars, task, rowVars>>
        /\ LoadNext \/ \E l \in Loaders, p \in Procs : StartLoad(l, p)
    BY <1>10 DEF Resolve, LoadNext, ReadDisk, AfterDisk, GetObject, AfterObject,
       OpenFile, WriteFile, Evict, GetAlbumCover, StartLoad
  <2> QED
    BY <2>1, LoadsTyped
<1>11. CASE AlbumTick \/ UNCHANGED albumVars
  BY <1>2, <1>11 DEF AlbumTick, albumVars, coverVars, cacheVars
<1> QED
  BY <1>5, <1>6, <1>7, <1>8, <1>9, <1>10, <1>11 DEF AlbumsNext

(* A task of p that keeps to the types, and what becomes of the lock.      *)
LEMMA TaskTypedMoves ==
    ASSUME AlbumsInv, RowTyped, NEW p \in Procs, NEW k, Goto(p, k), TaskTyped(k),
           \/ writer' = writer /\ k # Resting
           \/ writer' = p /\ k # Resting
           \/ Release(p)
    PROVE  /\ \A q \in Procs : TaskTyped(task[q])'
           /\ writer' \in Procs \cup {None}
           /\ writer' # None => task'[writer'] # Resting
<1>1. task'[p] = k /\ \A q \in Procs \ {p} : task'[q] = task[q]
  BY DEF Goto, AlbumsInv, AlbumsShape
<1>2. \A q \in Procs : TaskTyped(task[q])'
  BY <1>1 DEF RowTyped, TaskTyped
<1>3. None \notin Procs
  BY AlbumsAssumption
<1> QED
  BY <1>1, <1>2, <1>3 DEF RowTyped, Release

(* A request that moves on keeps to the types.                             *)
LEMMA TaskTypedGoesOn ==
    ASSUME AlbumsInv, RowTyped, NEW p \in Procs, task[p].at # "idle",
           NEW at, NEW path \in BOOLEAN
    PROVE  /\ TaskTyped([task[p] EXCEPT !.at = at])
           /\ TaskTyped([task[p] EXCEPT !.at = at, !.path = path])
           /\ at # "idle" => /\ [task[p] EXCEPT !.at = at] # Resting
                             /\ [task[p] EXCEPT !.at = at, !.path = path] # Resting
<1>1. /\ DOMAIN task[p] = {"at", "do", "edit", "ts", "seen", "path"}
      /\ task[p] # Resting /\ TaskTyped(task[p])
  BY DEF AlbumsInv, AlbumsShape, TaskOK, Resting, RowTyped
<1> DEFINE k == task[p]
           moved == [k EXCEPT !.at = at]
           cleared == [k EXCEPT !.at = at, !.path = path]
<1>2. /\ moved.at = at /\ moved.edit = k.edit
      /\ moved.ts = k.ts /\ moved.path = k.path
      /\ cleared.at = at /\ cleared.edit = k.edit
      /\ cleared.ts = k.ts /\ cleared.path = path
  BY <1>1
<1> HIDE DEF moved, cleared
<1>3. TaskTyped(moved) /\ TaskTyped(cleared)
  BY <1>1, <1>2 DEF TaskTyped
<1>4. at # "idle" => moved # Resting /\ cleared # Resting
  BY <1>2 DEF Resting
<1> QED
  BY <1>3, <1>4 DEF moved, cleared

(* Each step keeps the row, the requests and the lock to the types.        *)
LEMMA RowTypedStep ==
    ASSUME AlbumsInv, RowTyped, [AlbumsNext]_albumVars
    PROVE  RowTyped'
<1>1. /\ MaxTime \in Nat /\ MaxWrites \in Nat
      /\ clock \in 0..MaxTime /\ writes \in 0..MaxWrites
      /\ album = None \/ album \in Rows
  BY AlbumsAssumption DEF RowTyped
<1>2. ASSUME UNCHANGED <<task, rowVars>>,
             clock' \in 0..MaxTime, writes' \in 0..MaxWrites
      PROVE  RowTyped'
  BY <1>2 DEF RowTyped, rowVars, TaskTyped, Rows
<1>3. ASSUME NEW p \in Procs, NEW k, Goto(p, k), TaskTyped(k),
             \/ writer' = writer /\ k # Resting
             \/ writer' = p /\ k # Resting
             \/ Release(p),
             album' = album \/ album' = None \/ album' \in Rows,
             clock' = clock, writes' \in 0..MaxWrites
      PROVE  RowTyped'
  <2>1. /\ \A q \in Procs : TaskTyped(task[q])'
        /\ writer' \in Procs \cup {None}
        /\ writer' # None => task'[writer'] # Resting
    BY <1>3, TaskTypedMoves
  <2>2. album' = None \/ album' \in Rows
    BY <1>1, <1>3
  <2> QED
    BY <1>1, <1>3, <2>1, <2>2 DEF RowTyped, Rows
<1>4. ASSUME NEW p \in Procs, Begin(p)
      PROVE  album' = album /\ clock' = clock /\ writes' \in 0..MaxWrites
  BY <1>1, <1>4 DEF Begin
<1>5. ASSUME NEW p \in Procs, NEW e \in Edits, NEW ts \in Stamps,
             CreateAlbum(p, e, ts) \/ UpdateAlbum(p, e, ts)
      PROVE  RowTyped'
  <2>1. Begin(p) /\ album' = album /\ clock' = clock /\ writes' \in 0..MaxWrites
    BY <1>4, <1>5 DEF CreateAlbum, UpdateAlbum
  <2>2. (e.ids = None \/ e.ids \subseteq TrackNames) /\ (ts = None \/ ts \in 0..MaxTime)
    <3>1. /\ e \in [ids : (SUBSET TrackNames) \cup {None}, cover : Covers]
          /\ ts \in 0..MaxTime \cup {None}
      BY AlbumsAssumption
    <3>2. e.ids \in (SUBSET TrackNames) \cup {None}
      BY <3>1
    <3> QED
      BY <3>1, <3>2
  <2>3. CASE UNCHANGED <<writer, task>>
    BY <1>1, <1>2, <2>1, <2>3 DEF rowVars
  <2>4. ASSUME NEW do, NEW seen, NEW path \in BOOLEAN,
               Goto(p, [at |-> FirstStep(e.cover), do |-> do, edit |-> e,
                        ts |-> ts, seen |-> seen, path |-> path]),
               writer' = writer \/ writer' = p
        PROVE  RowTyped'
    <3> DEFINE k == [at |-> FirstStep(e.cover), do |-> do, edit |-> e,
                     ts |-> ts, seen |-> seen, path |-> path]
    <3>1. k # Resting /\ TaskTyped(k) /\ Goto(p, k)
      <4>1. k.edit = e /\ k.ts = ts /\ k.path = path /\ k.do = do
        OBVIOUS
      <4>2. k # Resting
        <5>1. "do" \in DOMAIN k /\ "do" \notin DOMAIN Resting
          BY DEF Resting
        <5> QED
          BY <5>1
      <4> HIDE DEF k
      <4> QED
        BY <2>2, <2>4, <4>1, <4>2 DEF TaskTyped, k
    <3> HIDE DEF k
    <3> QED
      BY <1>3, <2>1, <2>4, <3>1
  <2>5. CASE CreateAlbum(p, e, ts)
    BY <2>3, <2>4, <2>5 DEF CreateAlbum
  <2>6. CASE UpdateAlbum(p, e, ts)
    <3>1. album.path \in BOOLEAN
      BY <1>1, <2>6 DEF UpdateAlbum, Rows
    <3> QED
      BY <2>3, <2>4, <2>6, <3>1 DEF UpdateAlbum
  <2> QED
    BY <1>5, <2>5, <2>6
<1>6. ASSUME NEW p \in Procs, DeleteAlbum(p) \/ \E t \in TrackNames : AttachTrack(p, t)
      PROVE  RowTyped'
  <2>1. Begin(p) /\ album' = album /\ clock' = clock /\ writes' \in 0..MaxWrites
        /\ writer' = writer
    BY <1>4, <1>6 DEF DeleteAlbum, AttachTrack
  <2>2. album.path \in BOOLEAN /\ album.ids \subseteq TrackNames
    BY <1>1, <1>6 DEF DeleteAlbum, AttachTrack, Rows
  <2>3. CASE UNCHANGED task
    BY <1>1, <1>2, <2>1, <2>3 DEF rowVars
  <2>4. CASE DeleteAlbum(p)
    <3> DEFINE k == [at |-> "drop", do |-> "delete", edit |-> [ids |-> None,
                     cover |-> "clear"], ts |-> None, seen |-> album,
                     path |-> album.path]
    <3>1. k # Resting /\ TaskTyped(k)
      BY <2>2 DEF TaskTyped, Resting
    <3>2. Goto(p, k)
      BY <2>4 DEF DeleteAlbum
    <3> HIDE DEF k
    <3> QED
      BY <1>3, <2>1, <3>1, <3>2
  <2>5. ASSUME NEW t \in TrackNames, AttachTrack(p, t)
        PROVE  RowTyped'
    <3> DEFINE k == [at |-> "commit", do |-> "attach",
                     edit |-> [ids |-> album.ids \cup {t}, cover |-> "keep"],
                     ts |-> None, seen |-> album, path |-> album.path]
    <3>1. k # Resting /\ TaskTyped(k)
      BY <2>2 DEF TaskTyped, Resting
    <3>2. UNCHANGED task \/ Goto(p, k)
      BY <2>5 DEF AttachTrack
    <3> HIDE DEF k
    <3> QED
      BY <1>3, <2>1, <2>3, <3>1, <3>2
  <2> QED
    BY <1>6, <2>4, <2>5
<1>7. TaskTyped(Resting)
  BY DEF TaskTyped
<1>8. ASSUME NEW p \in Procs, FetchCover(p) \/ DropObject(p) \/ Forget(p) \/ PutCover(p)
      PROVE  RowTyped'
  <2>1. /\ album' = album /\ clock' = clock /\ writes' \in 0..MaxWrites
        /\ task[p].at # "idle"
    BY <1>1, <1>8 DEF FetchCover, DropObject, Forget, PutCover, At, rowVars, albumBounds
  <2>2. CASE Goto(p, Resting) /\ Release(p)
    BY <1>3, <1>7, <2>1, <2>2
  <2>3. ASSUME NEW k, Goto(p, k), TaskTyped(k), k # Resting, writer' = writer
        PROVE  RowTyped'
    BY <1>3, <2>1, <2>3
  <2>4. ASSUME NEW at, at # "idle", writer' = writer, NEW path \in BOOLEAN,
               \/ Goto(p, [task[p] EXCEPT !.at = at])
               \/ Goto(p, [task[p] EXCEPT !.at = at, !.path = path])
        PROVE  RowTyped'
    BY <2>1, <2>3, <2>4, TaskTypedGoesOn
  <2>5. CASE FetchCover(p)
    BY <2>2, <2>4, <2>5 DEF FetchCover
  <2>6. CASE DropObject(p)
    BY <2>4, <2>6 DEF DropObject, rowVars
  <2>7. CASE Forget(p)
    BY <2>4, <2>7 DEF Forget, rowVars
  <2>8. CASE PutCover(p)
    BY <2>2, <2>4, <2>8 DEF PutCover
  <2> QED
    BY <1>8, <2>5, <2>6, <2>7, <2>8
<1>9. ASSUME NEW p \in Procs, Commit(p)
      PROVE  RowTyped'
  <2> DEFINE k == task[p]
  <2>1. /\ clock' = clock /\ writes' = writes /\ k # Resting
        /\ Goto(p, Resting) /\ Release(p)
    BY <1>9 DEF Commit, albumBounds, At, Resting
  <2>2. /\ k.edit.ids = None \/ k.edit.ids \subseteq TrackNames
        /\ k.ts = None \/ k.ts \in 0..MaxTime
        /\ k.path \in BOOLEAN
    BY <2>1 DEF RowTyped, TaskTyped
  <2>3. Stamp(k) \in 0..MaxTime
    BY <1>1, <2>2 DEF Stamp
  <2>4. album # None => /\ album.at \in 0..MaxTime /\ album.ids \subseteq TrackNames
                        /\ album.path \in BOOLEAN
    BY <1>1 DEF Rows
  <2>5. album # None => Written(k) \in Rows
    <3> DEFINE at == IF Stamp(k) # k.seen.at THEN Stamp(k) ELSE album.at
               ids == IF k.edit.ids # None /\ k.edit.ids # k.seen.ids
                      THEN k.edit.ids ELSE album.ids
               path == IF k.path # k.seen.path THEN k.path ELSE album.path
    <3>1. Written(k) = [at |-> at, ids |-> ids, path |-> path]
      BY DEF Written
    <3>2. album # None => /\ at \in 0..MaxTime /\ ids \subseteq TrackNames
                          /\ path \in BOOLEAN
      BY <2>2, <2>3, <2>4
    <3> HIDE DEF at, ids, path
    <3> QED
      BY <3>1, <3>2 DEF Rows
  <2>6. [at |-> Stamp(k), path |-> k.path,
         ids |-> IF k.edit.ids = None THEN {} ELSE k.edit.ids] \in Rows
    <3> DEFINE ids == IF k.edit.ids = None THEN {} ELSE k.edit.ids
    <3>1. ids \subseteq TrackNames
      BY <2>2
    <3> HIDE DEF ids, k
    <3>2. [at |-> Stamp(k), path |-> k.path, ids |-> ids] \in Rows
      BY <2>2, <2>3, <3>1 DEF Rows
    <3> QED
      BY <3>2 DEF ids
  <2>7. album' = album \/ album' = None \/ album' \in Rows
    BY <1>9, <2>5, <2>6 DEF Commit
  <2> HIDE DEF k
  <2> QED
    BY <1>1, <1>3, <1>7, <2>1, <2>7
<1>10. ASSUME NEW p \in Procs, AlbumKill(p)
       PROVE  RowTyped'
  BY <1>1, <1>3, <1>7, <1>10 DEF AlbumKill
<1>11. CASE Resolve \/ \E p \in Procs, l \in Loaders : GetAlbumCover(l, p)
  <2>1. UNCHANGED <<task, rowVars, clock, writes>>
    BY <1>11 DEF Resolve, LoadNext, ReadDisk, AfterDisk, GetObject, AfterObject,
       OpenFile, WriteFile, Evict, GetAlbumCover, StartLoad, albumBounds
  <2> QED
    BY <1>1, <1>2, <2>1
<1>12. CASE AlbumTick
  BY <1>1, <1>2, <1>12 DEF AlbumTick
<1>13. CASE UNCHANGED albumVars
  BY <1>1, <1>2, <1>13 DEF albumVars, albumBounds
<1> QED
  BY <1>5, <1>6, <1>8, <1>9, <1>10, <1>11, <1>12, <1>13 DEF AlbumsNext

(* The album of api/albums.py, its cover and the caches of cover_cache.py  *)
(* have their types; in particular the write lock is held by nobody or by  *)
(* a process whose request is still in progress, so that no failure, kill  *)
(* or answer leaves it taken.                                              *)
THEOREM AlbumsTypeCorrect == AlbumsSpec => []AlbumsTypeOK
<1>1. ASSUME AlbumsInit PROVE CacheTyped /\ RowTyped
  <2>1. CacheTyped
    BY <1>1, CacheAssumption
    DEF AlbumsInit, CacheInit, CacheTyped, Held, Bodies, Resting
  <2>2. RowTyped
    BY <1>1, AlbumsAssumption DEF AlbumsInit, RowTyped, Rows, TaskTyped
  <2> QED
    BY <2>1, <2>2
<1>2. AlbumsInv /\ CacheTyped /\ RowTyped /\ [AlbumsNext]_albumVars
         => CacheTyped' /\ RowTyped'
  BY CacheTypedStep, RowTypedStep
<1>3. ASSUME AlbumsInv, CacheTyped, RowTyped PROVE AlbumsTypeOK
  <2>1. \A l \in Loaders :
           load[l].at \in {"idle", "disk", "got", "s3", "fetched", "write",
                           "writing", "unlinked"}
    BY <1>3 DEF AlbumsInv, AlbumsShape, LoadOK, Resting
  <2>2. CacheTypeOK
    BY <1>3, <2>1 DEF CacheTyped, CacheTypeOK, Held
  <2>3. writer # None => task[writer].at # "idle"
    BY <1>3 DEF RowTyped, AlbumsInv, AlbumsShape, TaskOK
  <2> QED
    BY <1>3, <2>2, <2>3 DEF AlbumsTypeOK, RowTyped, Rows
<1> QED
  BY <1>1, <1>2, <1>3, AlbumsInvariant, PTL DEF AlbumsSpec

-----------------------------------------------------------------------------
(* A step of the instance is a step of each component or leaves it alone.  *)
LEMMA ServicesSteps ==
    ASSUME [ServicesNext]_servicesVars
    PROVE  /\ [AlbumsNext]_albumVars /\ [StationsNext]_stationVars
           /\ [AccessNext]_accessVars /\ [PlaybackNext]_playbackVars
BY DEF ServicesNext, servicesVars

(* What the runs check is a behaviour of each component, so whatever is    *)
(* proved of the four of them alone holds in the instance.                 *)
THEOREM ServicesImplementAll ==
    ServicesSpec => AlbumsSpec /\ StationsSpec /\ AccessSpec /\ PlaybackSpec
<1>1. ServicesInit => AlbumsInit /\ StationsInit /\ AccessInit /\ PlaybackInit
  BY DEF ServicesInit
<1>2. [ServicesNext]_servicesVars =>
         /\ [AlbumsNext]_albumVars /\ [StationsNext]_stationVars
         /\ [AccessNext]_accessVars /\ [PlaybackNext]_playbackVars
  BY ServicesSteps
<1> QED
  BY <1>1, <1>2, PTL
  DEF ServicesSpec, AlbumsSpec, StationsSpec, AccessSpec, PlaybackSpec

(* All four components keep to their types in the specification that the   *)
(* runs check, whose steps are those of one component at a time.           *)
THEOREM ServicesTypeCorrect == ServicesSpec => []ServicesTypeOK
<1>1. AlbumsTypeOK /\ StationsTypeOK /\ AccessTypeOK /\ PlaybackTypeOK => ServicesTypeOK
  BY DEF ServicesTypeOK
<1> QED
  BY <1>1, ServicesImplementAll, AlbumsTypeCorrect, StationsTypeCorrect,
     AccessTypeCorrect, PlaybackTypeCorrect, PTL
=============================================================================
