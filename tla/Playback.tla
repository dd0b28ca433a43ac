------------------------------ MODULE Playback ------------------------------
(***************************************************************************)
(* Playing one track (api/tracks.py: /stream, /token, /play): the stream   *)
(* token and the presigned URL that stand for a check made earlier, and    *)
(* the range of the file that is sent.                                     *)
(*                                                                         *)
(* The owner's storage limit can freeze the track and thaw it at any time; *)
(* only /token and /stream look at it.  The track can be deleted, with or  *)
(* without its object (_purge of a failing S3).                            *)
(*                                                                         *)
(* Bounds of the model: MaxSeconds, MaxGrants.                             *)
(***************************************************************************)
EXTENDS Integers, FiniteSets

CONSTANTS
    Sizes,     \* file_size of the track
    Offsets,   \* numbers in a Range header
    Absent,    \* a number left out, a track that is gone, no answer yet
    Presigned, \* STREAM_PRESIGNED_ENABLED
    TokenTTL,  \* of create_stream_token, five minutes
    LinkTTL,   \* STREAM_PRESIGNED_TTL
    MaxSeconds, MaxGrants

VARIABLES
    track,   \* [size, frozen], or Absent
    stored,  \* the size of its object in S3, or Absent
    second,  \* the clock
    grants,  \* tokens and links: [kind, exp, late], see SignLink
    signing, \* a request of /token awaits its presigned URL
    froze,   \* history: when the track was frozen last
    served   \* the last answer with audio, or Absent

playbackVars == <<track, stored, second, grants, signing, froze, served>>

ASSUME PlaybackAssumption ==
    /\ Sizes \subseteq Nat /\ Offsets \subseteq Nat
    /\ Absent \notin Int
    /\ Presigned \in BOOLEAN
    /\ TokenTTL \in Nat /\ LinkTTL \in Nat
    /\ MaxSeconds \in Nat /\ MaxGrants \in Nat

Kinds == {"token", "link"}
TTL(kind) == IF kind = "token" THEN TokenTTL ELSE LinkTTL
Grant == [kind : Kinds, exp : Nat, late : BOOLEAN]
Ranges == [first : Offsets \cup {Absent}, last : Offsets \cup {Absent}]

PlaybackInit ==
    /\ \E n \in Sizes : track = [size |-> n, frozen |-> FALSE] /\ stored = n
    /\ second = 0 /\ grants = {} /\ signing = FALSE
    /\ froze = 0 /\ served = Absent

-----------------------------------------------------------------------------
AtMost(n, m) == IF n > m THEN m ELSE n

(* Mutant of Interval: the end is left beyond the file.                    *)
Interval_Open(r, size) ==
    LET start == AtMost(IF r.first = Absent THEN 0 ELSE r.first, size - 1)
        end   == IF r.last = Absent THEN size - 1 ELSE r.last
    IN  [start |-> start, end |-> IF end < start THEN start ELSE end]

(* _parse_range_header.  A header that is missing or malformed is a range  *)
(* without numbers; "-n" is the beginning of the file up to n, not its end.*)
(* An empty file, which /upload refuses and an import does not, gives -1.  *)
Interval(r, size) ==
    LET start == AtMost(IF r.first = Absent THEN 0 ELSE r.first, size - 1)
        end   == AtMost(IF r.last = Absent THEN size - 1 ELSE r.last, size - 1)
    IN  [start |-> start, end |-> IF end < start THEN start ELSE end]

(* An answer, with what was true when it was given.                        *)
Frozen == track # Absent /\ track.frozen

Answer(r, size, kind, exempt) ==
    [part |-> Interval(r, size), size |-> size, kind |-> kind,
     exempt |-> exempt, frozen |-> Frozen, since |-> froze, at |-> second]

Whole == [first |-> Absent, last |-> Absent]

(* The object, or a 404 that leaves no answer.                             *)
Serve(answer) ==
    /\ stored # Absent /\ served' = answer
    /\ UNCHANGED <<track, stored, second, grants, signing, froze>>

(* GET /stream: an administrator is not stopped by the limit.              *)
Stream(admin) ==
    /\ track # Absent
    /\ admin \/ ~track.frozen
    /\ Serve(Answer(Whole, track.size, "token", admin))

(* GET /token: the token is made at once, the URL in a thread.             *)
IssueToken ==
    /\ track # Absent /\ ~track.frozen /\ ~signing
    /\ Cardinality(grants) < MaxGrants
    /\ grants' = grants \cup {[kind |-> "token", exp |-> second + TokenTTL,
                               late |-> FALSE]}
    /\ signing' = Presigned
    /\ UNCHANGED <<track, stored, second, froze, served>>

(* late: the track froze after /token had looked at it.                    *)
SignLink ==
    /\ signing /\ signing' = FALSE
    /\ \/ grants' = grants \cup
             {[kind |-> "link", exp |-> second + LinkTTL,
               late |-> Frozen]}
       \/ UNCHANGED grants
    /\ UNCHANGED <<track, stored, second, froze, served>>

(* GET /play/{token}: nothing but the token and the row is looked at.      *)
Play(g, r) ==
    /\ g \in grants /\ g.kind = "token" /\ second <= g.exp
    /\ track # Absent
    /\ Serve(Answer(r, track.size, "token", FALSE))

(* The presigned URL leads to S3 itself, whatever became of the row.       *)
FollowLink(g) ==
    /\ g \in grants /\ g.kind = "link" /\ second <= g.exp
    /\ Serve(Answer(Whole, stored, "link", g.late))

-----------------------------------------------------------------------------
(* A premium lapses, a limit is lowered.                                   *)
Freeze ==
    /\ track # Absent /\ ~track.frozen
    /\ track' = [track EXCEPT !.frozen = TRUE] /\ froze' = second
    /\ UNCHANGED <<stored, second, grants, signing, served>>

(* A purchase, or the deletion of older tracks.                            *)
Thaw ==
    /\ track # Absent /\ track.frozen
    /\ track' = [track EXCEPT !.frozen = FALSE]
    /\ UNCHANGED <<stored, second, grants, signing, froze, served>>

DeletePlayed ==
    /\ track # Absent /\ track' = Absent
    /\ stored' \in {stored, Absent}
    /\ UNCHANGED <<second, grants, signing, froze, served>>

PlaybackTick ==
    /\ second < MaxSeconds /\ second' = second + 1
    /\ UNCHANGED <<track, stored, grants, signing, froze, served>>

PlaybackNext ==
    \/ \E admin \in BOOLEAN : Stream(admin)
    \/ IssueToken
    \/ SignLink
    \/ \E g \in grants, r \in Ranges : Play(g, r)
    \/ \E g \in grants : FollowLink(g)
    \/ Freeze
    \/ Thaw
    \/ DeletePlayed
    \/ PlaybackTick

PlaybackSpec == PlaybackInit /\ [][PlaybackNext]_playbackVars

-----------------------------------------------------------------------------
Answers ==
    [part : [start : Int, end : Int], size : Sizes, kind : Kinds,
     exempt : BOOLEAN, frozen : BOOLEAN, since : Nat, at : Nat]

PlaybackTypeOK ==
    /\ track \in [size : Sizes, frozen : BOOLEAN] \cup {Absent}
    /\ stored \in Sizes \cup {Absent} /\ second \in 0..MaxSeconds
    /\ grants \subseteq Grant
    /\ signing \in BOOLEAN /\ froze \in 0..second
    /\ served \in Answers \cup {Absent}

(* What is sent lies inside the file and is not empty, whatever the Range  *)
(* header asks for, unless the file is empty.                              *)
SentIsInFile ==
    (served # Absent /\ served.size > 0) =>
       /\ 0 <= served.part.start
       /\ served.part.start <= served.part.end
       /\ served.part.end < served.size

(* /play and a presigned URL do not look at the limit, yet a track that    *)
(* was frozen is not played for longer than the life of the token or the   *)
(* URL, from the moment it froze.  Except: an administrator's /stream, and *)
(* a URL that was signed after the track froze.                            *)
FrozenPlayEnds ==
    (served # Absent /\ served.frozen /\ ~served.exempt) =>
       served.at <= served.since + TTL(served.kind)

PlaybackKept == SentIsInFile /\ FrozenPlayEnds
=============================================================================
