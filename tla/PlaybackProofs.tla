--------------------------- MODULE PlaybackProofs ---------------------------
(***************************************************************************)
(* What TLAPS proves of module Playback for every value of its constants:  *)
(* every range that is sent lies inside the file, and a frozen track is    *)
(* played no longer than the life of a token or a URL.                     *)
(***************************************************************************)
EXTENDS Playback, TLAPS

(* A grant that was not signed late outlives the moment by its TTL at most,*)
(* and while the track is frozen, the moment at which it froze: no token   *)
(* is made meanwhile.                                                      *)
GrantsAreShort ==
    \A g \in grants :
       /\ g.kind = "token" => ~g.late
       /\ g.exp <= second + TTL(g.kind)
       /\ (Frozen /\ ~g.late) => g.exp <= froze + TTL(g.kind)

PlaybackInv == PlaybackTypeOK /\ PlaybackKept /\ GrantsAreShort

-----------------------------------------------------------------------------
(* _parse_range_header: for every header and every size, the interval is   *)
(* one of numbers, and inside the file unless the file is empty.           *)
THEOREM IntervalInFile ==
    ASSUME NEW r \in Ranges, NEW size \in Nat
    PROVE  LET i == Interval(r, size) IN
           /\ i \in [start : Int, end : Int]
           /\ size > 0 => 0 <= i.start /\ i.start <= i.end /\ i.end < size
<1> DEFINE first == IF r.first = Absent THEN 0 ELSE r.first
           last  == IF r.last = Absent THEN size - 1 ELSE r.last
<1>1. first \in Nat /\ last \in Int /\ (size > 0 => last \in Nat)
  <2>1. r.first \in Offsets \cup {Absent} /\ r.last \in Offsets \cup {Absent}
    BY DEF Ranges
  <2>2. Offsets \subseteq Nat
    BY PlaybackAssumption DEF PlaybackAssumption
  <2>3. first \in Nat
    <3>1. CASE r.first = Absent
      BY <3>1
    <3>2. CASE r.first # Absent
      BY <2>1, <2>2, <3>2
    <3> QED
      BY <3>1, <3>2
  <2>4. last \in Int /\ (size > 0 => last \in Nat)
    <3>1. CASE r.last = Absent
      <4>1. last = size - 1
        BY <3>1
      <4> HIDE DEF last
      <4> QED
        BY <4>1
    <3>2. CASE r.last # Absent
      <4>1. last \in Nat
        BY <2>1, <2>2, <3>2
      <4> HIDE DEF last
      <4> QED
        BY <4>1
    <3> QED
      BY <3>1, <3>2
  <2> HIDE DEF first, last
  <2> QED
    BY <2>3, <2>4
<1> DEFINE start == AtMost(first, size - 1)
           end   == AtMost(last, size - 1)
<1> HIDE DEF first, last
<1>2. /\ start \in Int /\ end \in Int
      /\ size > 0 => 0 <= start /\ start < size /\ end < size
  BY <1>1 DEF AtMost
<1>3. Interval(r, size) = [start |-> start,
                           end |-> IF end < start THEN start ELSE end]
  BY DEF Interval, first, last
<1> HIDE DEF start, end
<1> QED
  BY <1>2, <1>3

(* A request without a Range header is one.                                *)
LEMMA WholeIsRange == Whole \in Ranges
  BY DEF Whole, Ranges

(* The life of a token or a link is a number.                              *)
LEMMA TTLIsNat ==
    ASSUME NEW kind PROVE TTL(kind) \in Nat
  BY PlaybackAssumption DEF PlaybackAssumption, TTL

(* An answer made now keeps what is claimed of answers, when a track that  *)
(* is frozen is played on a grant that lasts from before it froze.         *)
LEMMA AnswerIsKept ==
    ASSUME PlaybackInv, NEW r \in Ranges, NEW size \in Sizes,
           NEW kind \in Kinds, NEW exempt \in BOOLEAN,
           served' = Answer(r, size, kind, exempt),
           (Frozen /\ ~exempt) => second <= froze + TTL(kind)
    PROVE  served' \in Answers /\ PlaybackKept'
<1>1. size \in Nat /\ second \in Nat /\ froze \in Nat /\ Frozen \in BOOLEAN
  BY PlaybackAssumption DEF PlaybackAssumption, PlaybackInv, PlaybackTypeOK,
                            Frozen
<1>2. /\ Interval(r, size) \in [start : Int, end : Int]
      /\ size > 0 => /\ 0 <= Interval(r, size).start
                     /\ Interval(r, size).start <= Interval(r, size).end
                     /\ Interval(r, size).end < size
  BY <1>1, IntervalInFile
<1> HIDE DEF Interval
<1>3. /\ served'.part = Interval(r, size) /\ served'.size = size
      /\ served'.kind = kind /\ served'.exempt = exempt
      /\ served'.frozen = Frozen /\ served'.since = froze
      /\ served'.at = second
  BY DEF Answer
<1>4. served' \in Answers
  BY <1>1, <1>2 DEF Answer, Answers
<1>5. SentIsInFile'
  BY <1>2, <1>3 DEF SentIsInFile
<1>6. FrozenPlayEnds'
  BY <1>3 DEF FrozenPlayEnds, TTL
<1> QED
  BY <1>4, <1>5, <1>6 DEF PlaybackKept

-----------------------------------------------------------------------------
(* The invariant holds at the start.                                       *)
LEMMA PlaybackInvInit == PlaybackInit => PlaybackInv
<1> SUFFICES ASSUME PlaybackInit PROVE PlaybackInv
  OBVIOUS
<1>1. PlaybackTypeOK
  <2>1. MaxSeconds \in Nat /\ Sizes \subseteq Nat
    BY PlaybackAssumption DEF PlaybackAssumption
  <2>2. PICK n \in Sizes : track = [size |-> n, frozen |-> FALSE] /\ stored = n
    BY DEF PlaybackInit
  <2>3. track \in [size : Sizes, frozen : BOOLEAN] /\ stored \in Sizes
    BY <2>2
  <2>4. second \in 0..MaxSeconds /\ froze \in 0..second
    BY <2>1 DEF PlaybackInit
  <2> QED
    BY <2>3, <2>4 DEF PlaybackInit, PlaybackTypeOK
<1>2. PlaybackKept /\ GrantsAreShort
  BY DEF PlaybackInit, PlaybackKept, SentIsInFile, FrozenPlayEnds,
         GrantsAreShort
<1> QED
  BY <1>1, <1>2 DEF PlaybackInv

(* A step that gives no answer keeps what is claimed of the last one.      *)
LEMMA SameAnswer ==
    ASSUME PlaybackInv, served' = served PROVE PlaybackKept'
  BY DEF PlaybackInv, PlaybackKept, SentIsInFile, FrozenPlayEnds, TTL

(* Every step of playback keeps the invariant.                             *)
LEMMA PlaybackInvStep == PlaybackInv /\ [PlaybackNext]_playbackVars => PlaybackInv'
<1> SUFFICES ASSUME PlaybackInv, [PlaybackNext]_playbackVars
             PROVE  PlaybackInv'
  OBVIOUS
<1>a. PlaybackTypeOK /\ GrantsAreShort
  BY DEF PlaybackInv
<1>b. second \in Nat /\ froze \in Nat
  BY <1>a, PlaybackAssumption DEF PlaybackAssumption, PlaybackTypeOK
<1>c. \A kind : TTL(kind) \in Nat
  BY TTLIsNat
<1>1. CASE UNCHANGED playbackVars
  <2>1. PlaybackKept'
    BY <1>1, SameAnswer DEF playbackVars
  <2>2. PlaybackTypeOK' /\ GrantsAreShort'
    BY <1>1, <1>a DEF playbackVars, PlaybackTypeOK, GrantsAreShort, Frozen, TTL
  <2> QED
    BY <2>1, <2>2 DEF PlaybackInv
(* Answers: only served changes.                                           *)
<1>2. ASSUME NEW r \in Ranges, NEW size \in Sizes, NEW kind \in Kinds,
             NEW exempt \in BOOLEAN, Serve(Answer(r, size, kind, exempt)),
             (Frozen /\ ~exempt) => second <= froze + TTL(kind)
      PROVE  PlaybackInv'
  <2>1. served' \in Answers /\ PlaybackKept'
    BY <1>2, AnswerIsKept DEF Serve
  <2>2. PlaybackTypeOK'
    BY <1>2, <1>a, <2>1 DEF Serve, PlaybackTypeOK
  <2>3. GrantsAreShort'
    BY <1>2, <1>a DEF Serve, GrantsAreShort, Frozen, TTL
  <2> QED
    BY <2>1, <2>2, <2>3 DEF PlaybackInv
<1>3. ASSUME NEW admin \in BOOLEAN, Stream(admin) PROVE PlaybackInv'
  <2>1. track.size \in Sizes
    BY <1>3, <1>a DEF Stream, PlaybackTypeOK
  <2>2. Frozen => admin
    BY <1>3 DEF Stream, Frozen
  <2> QED
    BY <1>2, <1>3, <2>1, <2>2, WholeIsRange DEF Stream, Kinds
<1>4. ASSUME NEW g \in grants, NEW r \in Ranges, Play(g, r)
      PROVE  PlaybackInv'
  <2>1. track.size \in Sizes
    BY <1>4, <1>a DEF Play, PlaybackTypeOK
  <2>2. Frozen => second <= froze + TTL("token")
    <3>1. g.kind = "token" /\ second <= g.exp
      BY <1>4 DEF Play
    <3>2. g.exp \in Nat /\ (Frozen => g.exp <= froze + TTL("token"))
      BY <1>a, <3>1 DEF GrantsAreShort, Grant, PlaybackTypeOK
    <3> QED
      BY <1>b, <1>c, <3>1, <3>2
  <2> QED
    BY <1>2, <1>4, <2>1, <2>2 DEF Play, Kinds
<1>5. ASSUME NEW g \in grants, FollowLink(g) PROVE PlaybackInv'
  <2>1. stored \in Sizes /\ g.late \in BOOLEAN
    BY <1>5, <1>a DEF FollowLink, Serve, PlaybackTypeOK, Grant
  <2>2. (Frozen /\ ~g.late) => second <= froze + TTL("link")
    <3>1. g.kind = "link" /\ second <= g.exp
      BY <1>5 DEF FollowLink
    <3>2. g.exp \in Nat /\ ((Frozen /\ ~g.late) => g.exp <= froze + TTL("link"))
      BY <1>a, <3>1 DEF GrantsAreShort, Grant, PlaybackTypeOK
    <3> QED
      BY <1>b, <1>c, <3>1, <3>2
  <2> QED
    BY <1>2, <1>5, <2>1, <2>2, WholeIsRange DEF FollowLink, Kinds
(* The other actions leave served alone.                                   *)
<1>6. CASE IssueToken
  <2>1. PlaybackKept'
    BY <1>6, SameAnswer DEF IssueToken
  <2> DEFINE t == [kind |-> "token", exp |-> second + TokenTTL, late |-> FALSE]
  <2>2. t \in Grant /\ t.kind = "token" /\ ~t.late /\ t.exp = second + TTL("token")
    BY <1>b, <1>c, PlaybackAssumption
    DEF PlaybackAssumption, Grant, Kinds, TTL
  <2>3. grants' = grants \cup {t} /\ ~Frozen /\ signing' \in BOOLEAN
    BY <1>6, PlaybackAssumption DEF PlaybackAssumption, IssueToken, Frozen
  <2> HIDE DEF t
  <2>4. PlaybackTypeOK'
    BY <1>6, <1>a, <2>2, <2>3 DEF IssueToken, PlaybackTypeOK
  <2>5. second' = second /\ froze' = froze /\ Frozen' = Frozen
    BY <1>6 DEF IssueToken, Frozen
  <2>6. GrantsAreShort'
    <3>1. ASSUME NEW g \in grants'
          PROVE  /\ g.kind = "token" => ~g.late
                 /\ g.exp <= second + TTL(g.kind)
      BY <1>a, <1>b, <1>c, <2>2, <2>3 DEF GrantsAreShort
    <3> QED
      BY <2>3, <2>5, <3>1 DEF GrantsAreShort, TTL
  <2> QED
    BY <2>1, <2>4, <2>6 DEF PlaybackInv
<1>7. CASE SignLink
  <2>1. PlaybackKept'
    BY <1>7, SameAnswer DEF SignLink
  <2> DEFINE l == [kind |-> "link", exp |-> second + LinkTTL, late |-> Frozen]
  <2>2. l \in Grant /\ l.kind = "link" /\ l.late = Frozen
        /\ l.exp = second + TTL("link")
    BY <1>b, <1>c, PlaybackAssumption, <1>a
    DEF PlaybackAssumption, Grant, Kinds, TTL, Frozen, PlaybackTypeOK
  <2>3. grants' \subseteq grants \cup {l}
    BY <1>7 DEF SignLink
  <2> HIDE DEF l
  <2>4. PlaybackTypeOK'
    BY <1>7, <1>a, <2>2, <2>3 DEF SignLink, PlaybackTypeOK
  <2>5. second' = second /\ froze' = froze /\ Frozen' = Frozen
    BY <1>7 DEF SignLink, Frozen
  <2>6. GrantsAreShort'
    <3>1. ASSUME NEW g \in grants'
          PROVE  /\ g.kind = "token" => ~g.late
                 /\ g.exp <= second + TTL(g.kind)
                 /\ (Frozen /\ ~g.late) => g.exp <= froze + TTL(g.kind)
      <4>1. CASE g = l
        BY <4>1, <2>2, <1>b, <1>c
      <4>2. CASE g \in grants
        BY <4>2, <1>a DEF GrantsAreShort
      <4> QED
        BY <2>3, <4>1, <4>2
    <3> QED
      BY <2>5, <3>1 DEF GrantsAreShort, TTL
  <2> QED
    BY <2>1, <2>4, <2>6 DEF PlaybackInv
<1>8. CASE Freeze
  <2>1. PlaybackKept'
    BY <1>8, SameAnswer DEF Freeze
  <2>a. track' \in [size: Sizes, frozen: BOOLEAN]
    BY <1>8, <1>a DEF Freeze, PlaybackTypeOK
  <2>b. second \in 0 .. MaxSeconds /\ froze' \in 0 .. second
    BY <1>8, <1>a, PlaybackAssumption
    DEF Freeze, PlaybackTypeOK, PlaybackAssumption
  <2>2. PlaybackTypeOK'
    BY <1>8, <1>a, <2>a, <2>b DEF Freeze, PlaybackTypeOK
  <2>3. GrantsAreShort'
    BY <1>8, <1>a DEF Freeze, GrantsAreShort, TTL
  <2> QED
    BY <2>1, <2>2, <2>3 DEF PlaybackInv
<1>9. CASE Thaw
  <2>1. PlaybackKept'
    BY <1>9, SameAnswer DEF Thaw
  <2>2. PlaybackTypeOK'
    BY <1>9, <1>a DEF Thaw, PlaybackTypeOK
  <2>3. ~Frozen'
    BY <1>9, <1>a DEF Thaw, Frozen, PlaybackTypeOK
  <2>4. GrantsAreShort'
    BY <1>9, <1>a, <2>3 DEF Thaw, GrantsAreShort, TTL
  <2> QED
    BY <2>1, <2>2, <2>4 DEF PlaybackInv
<1>10. CASE DeletePlayed
  <2>1. PlaybackKept'
    BY <1>10, SameAnswer DEF DeletePlayed
  <2>2. PlaybackTypeOK'
    BY <1>10, <1>a DEF DeletePlayed, PlaybackTypeOK
  <2>3. ~Frozen'
    BY <1>10 DEF DeletePlayed, Frozen
  <2>4. GrantsAreShort'
    BY <1>10, <1>a, <2>3 DEF DeletePlayed, GrantsAreShort, TTL
  <2> QED
    BY <2>1, <2>2, <2>4 DEF PlaybackInv
<1>11. CASE PlaybackTick
  <2>1. PlaybackKept'
    BY <1>11, SameAnswer DEF PlaybackTick
  <2>2. PlaybackTypeOK'
    BY <1>11, <1>a, <1>b, PlaybackAssumption
    DEF PlaybackAssumption, PlaybackTick, PlaybackTypeOK
  <2>3. Frozen' = Frozen
    BY <1>11 DEF PlaybackTick, Frozen
  <2>4. ASSUME NEW g \in grants
        PROVE  g.exp <= second' + TTL(g.kind)
    <3>1. g.exp \in Nat /\ g.exp <= second + TTL(g.kind)
      BY <1>a DEF GrantsAreShort, PlaybackTypeOK, Grant
    <3> QED
      BY <1>11, <1>b, <1>c, <3>1 DEF PlaybackTick
  <2>5. GrantsAreShort'
    BY <1>11, <1>a, <2>3, <2>4 DEF PlaybackTick, GrantsAreShort, TTL
  <2> QED
    BY <2>1, <2>2, <2>5 DEF PlaybackInv
<1> QED
  BY <1>1, <1>3, <1>4, <1>5, <1>6, <1>7, <1>8, <1>9, <1>10, <1>11
  DEF PlaybackNext

-----------------------------------------------------------------------------
(* The types, in every behaviour.                                          *)
THEOREM PlaybackTypeCorrect == PlaybackSpec => []PlaybackTypeOK
<1>1. PlaybackInv => PlaybackTypeOK
  BY DEF PlaybackInv
<1> QED
  BY <1>1, PlaybackInvInit, PlaybackInvStep, PTL DEF PlaybackSpec

(* What is sent lies inside the file, and a frozen track is not played for *)
(* longer than a token or a URL lives (_track_is_frozen is asked by /token *)
(* and /stream only).                                                      *)
THEOREM PlaybackIsKept == PlaybackSpec => []PlaybackKept
<1>1. PlaybackInv => PlaybackKept
  BY DEF PlaybackInv
<1> QED
  BY <1>1, PlaybackInvInit, PlaybackInvStep, PTL DEF PlaybackSpec
=============================================================================
