------------------------------ MODULE Library ------------------------------
(***************************************************************************)
(* The track library of one account (api/tracks.py, library_sync.py, the   *)
(* clean-up of api/admin.py): rows of `tracks`, their audio in S3, the     *)
(* counter users.library_revision, and a client that keeps a copy of the   *)
(* list and asks for it again when the counter moved.                      *)
(*                                                                         *)
(* Several server processes (uvicorn workers) share the database.  A task  *)
(* is one request, or one import item, in a process of its own; requests   *)
(* of one process interleave less.  Its steps end at an await, at a commit *)
(* or at a read whose value is used after another process may have         *)
(* written.  Writing transactions of SQLite exclude each other, so a       *)
(* change of rows, the rebuild of the running totals and their commit are  *)
(* one step; bump_library_revision commits on its own after it.  A process *)
(* that is killed, or a commit that raises because another request holds   *)
(* SQLite's write lock, ends the request where it stands.                  *)
(*                                                                         *)
(* Row t exists when t is in DOMAIN rows; an id (uuid4) is never used      *)
(* again.  Column by column: size = file_size, at = created_at, cum =      *)
(* cumulative_bytes, ver = how often title, artist or cover were edited.   *)
(*                                                                         *)
(* Bounds of the model: MaxTracks, MaxRequests, MaxGenerated, MaxSetbacks. *)
(***************************************************************************)
EXTENDS Integers, FiniteSets, FiniteSetsExt, Functions

CONSTANTS
    Workers,       \* server processes
    Sizes,         \* sizes of audio files
    Times,         \* values of created_at; an upload form may set any
    Limit,         \* User.storage_limit
    PageSize,      \* limit of GET /tracks
    MaxTracks,     \* ids that can be drawn
    MaxRequests,   \* requests that start
    MaxGenerated,  \* tracks delivered by SoundSlop
    MaxSetbacks    \* processes killed, commits failed

ASSUME LibraryAssumption ==
    /\ Sizes \subseteq Nat /\ Times \subseteq Nat
    /\ Limit \in Nat /\ PageSize \in Nat \ {0}
    /\ {MaxTracks, MaxRequests, MaxGenerated, MaxSetbacks} \subseteq Nat

VARIABLES
    rows,         \* the account's rows in tracks, by id
    objects,      \* ids whose audio is in S3
    revision,     \* users.library_revision
    account,      \* "live" or "gone"
    task,         \* what each process is doing
    client,       \* [rev, copy]: the app's copy and the revision it stands for
    walk,         \* the client's walk through the pages, or NoWalk
    drawn,        \* ids drawn so far
    requests,     \* requests started so far
    generated,    \* SoundSlop deliveries so far
    setbacks,     \* setbacks so far
    cleaned,      \* history: ids whose audio an administrator's clean-up removed
    stranded,     \* history: ids whose clean-up ended before their rows went
    late,         \* history: ids stored while or after the account was deleted
    unannounced,  \* history: a change without a bump, and none raised the
                  \* revision since
    regressed     \* history: a bump lowered the revision

data == <<rows, objects, drawn>>
history == <<cleaned, stranded, late, unannounced, regressed>>
reader == <<client, walk>>
bounds == <<requests, generated, setbacks>>
vars == <<data, revision, account, task, reader, bounds, history>>

TrackIds == 1..MaxTracks
Present == DOMAIN rows
Idle == [at |-> "idle"]
NoWalk == [at |-> "none"]
NoCopy == [rev |-> 0, copy |-> {}]
NoCursor == [at |-> "none"]

SizeOf(r) == MapThenSumSet(LAMBDA t : r[t].size, DOMAIN r)
NotAfter(r, s, t) == r[s].at < r[t].at \/ (r[s].at = r[t].at /\ s <= t)
Listed(t) == [id |-> t, ver |-> rows[t].ver, cum |-> rows[t].cum]

LibTypeOK ==
    /\ Present \subseteq 1..drawn /\ objects \subseteq 1..drawn
    /\ \A t \in Present :
          rows[t] \in [size : Sizes, at : Times, cum : Nat, ver : 0..MaxRequests]
    /\ revision \in 1..(MaxRequests + 1)
    /\ account \in {"live", "gone"}
    /\ \A p \in Workers :
          task[p].at \in {"idle", "body", "audio", "put", "cover", "bumpRead",
                          "bumpWrite", "purge", "edit", "wipe", "cascade",
                          "erase"}
    /\ client.rev \in 0..revision \/ regressed
    /\ drawn \in 0..MaxTracks /\ requests \in 0..MaxRequests

Init ==
    /\ rows = <<>> /\ objects = {} /\ drawn = 0
    /\ revision = 1 /\ account = "live"
    /\ task = [p \in Workers |-> Idle]
    /\ client = NoCopy /\ walk = NoWalk
    /\ requests = 0 /\ generated = 0 /\ setbacks = 0
    /\ cleaned = {} /\ stranded = {} /\ late = {}
    /\ unannounced = FALSE /\ regressed = FALSE

-----------------------------------------------------------------------------
(* _rebuild_cumulative_bytes: running totals in (created_at, id) order.    *)
Rebuild(r) ==
    [t \in DOMAIN r |-> [r[t] EXCEPT !.cum =
        MapThenSumSet(LAMBDA s : r[s].size,
                      {s \in DOMAIN r : NotAfter(r, s, t)})]]

Frozen(t) == rows[t].cum > Limit

Goto(p, k) == task' = [task EXCEPT ![p] = k]
At(p, at) == task[p].at = at

(* A request of the account's owner, or an import item of the job worker.  *)
Start(p, k) ==
    /\ At(p, "idle") /\ account = "live"
    /\ requests < MaxRequests
    /\ requests' = requests + 1
    /\ Goto(p, k)
    /\ UNCHANGED <<generated, setbacks>>

(* Sum of file_size as one query sees it: the rows, kept with their sizes. *)
Counted == {[id |-> t, size |-> rows[t].size] : t \in Present}
Usage(counted) == MapThenSumSet(LAMBDA c : c.size, counted)

-----------------------------------------------------------------------------
(* POST /tracks/upload.  The usage is read before the body of the request  *)
(* is awaited and compared after it.                                       *)
StartUpload(p) ==
    /\ Start(p, [at |-> "body", counted |-> Counted])
    /\ UNCHANGED <<data, revision, account, reader, history>>

(* Mutant of Admit: the id is not taken out of use.                        *)
Admit_KeepsId(p, counted, size) ==
    /\ Usage(counted) + size <= Limit
    /\ drawn < MaxTracks
    /\ UNCHANGED drawn
    /\ Goto(p, [at |-> "put", track |-> drawn + 1, size |-> size,
                counted |-> counted])

(* The file fits what was counted: an id is drawn and its audio sent to S3.*)
Admit(p, counted, size) ==
    /\ Usage(counted) + size <= Limit
    /\ drawn < MaxTracks
    /\ drawn' = drawn + 1
    /\ Goto(p, [at |-> "put", track |-> drawn + 1, size |-> size,
                counted |-> counted])

(* 403: nothing is left behind.                                            *)
Refuse(p, counted, size) ==
    /\ Usage(counted) + size > Limit
    /\ Goto(p, Idle)
    /\ UNCHANGED drawn

(* Mutant of CheckUpload: the size of the file itself is not counted.      *)
CheckUpload_SizeIgnored(p) ==
    /\ At(p, "body")
    /\ \E size \in Sizes :
          /\ Usage(task[p].counted) <= Limit
          /\ drawn < MaxTracks
          /\ drawn' = drawn + 1
          /\ Goto(p, [at |-> "put", track |-> drawn + 1, size |-> size,
                      counted |-> task[p].counted])
    /\ UNCHANGED <<rows, objects, revision, account, reader, bounds, history>>

CheckUpload(p) ==
    /\ At(p, "body")
    /\ \E size \in Sizes :
          \/ Admit(p, task[p].counted, size)
          \/ Refuse(p, task[p].counted, size)
    /\ UNCHANGED <<rows, objects, revision, account, reader, bounds, history>>

(* Imports download the audio first (_create_track_from_remote for one     *)
(* watch URL or playlist item, _create_track_from_direct_url for a link).  *)
StartRemote(p) ==
    /\ Start(p, [at |-> "audio"])
    /\ UNCHANGED <<data, revision, account, reader, history>>

StartDirect(p) ==
    /\ Start(p, [at |-> "audio"])
    /\ UNCHANGED <<data, revision, account, reader, history>>

(* The download fails (502, 400, or the item's error), or the usage is     *)
(* read and compared at once.                                              *)
CheckImport(p) ==
    /\ At(p, "audio")
    /\ \/ Goto(p, Idle) /\ UNCHANGED drawn
       \/ \E size \in Sizes :
             \/ Admit(p, Counted, size)
             \/ Refuse(p, Counted, size)
    /\ UNCHANGED <<rows, objects, revision, account, reader, bounds, history>>

(* upload_bytes_to_s3: tried S3_UPLOAD_MAX_ATTEMPTS times; a failure of    *)
(* the last attempt may come after the object was stored.                  *)
PutObject(p) ==
    /\ At(p, "put")
    /\ objects' = objects \cup {task[p].track}
    /\ Goto(p, [task[p] EXCEPT !.at = "cover"])
    /\ UNCHANGED <<rows, drawn, revision, account, reader, bounds, history>>

PutFails(p) ==
    /\ At(p, "put")
    /\ objects' \in {objects, objects \cup {task[p].track}}
    /\ Goto(p, Idle)
    /\ UNCHANGED <<rows, drawn, revision, account, reader, bounds, history>>

(* Is the account being deleted, or deleted already?                       *)
Leaving == account = "gone" \/ \E p \in Workers : At(p, "erase")

(* Mutant of StoreTrack: the total continues the usage the check read.     *)
StoreTrack_TotalFromCheck(p) ==
    /\ At(p, "cover")
    /\ \E at \in Times :
          rows' = [t \in Present \cup {task[p].track} |->
                     IF t = task[p].track
                     THEN [size |-> task[p].size, at |-> at,
                           cum |-> Usage(task[p].counted) + task[p].size,
                           ver |-> 0]
                     ELSE rows[t]]
    /\ late' = IF Leaving THEN late \cup {task[p].track} ELSE late
    /\ Goto(p, IF account = "live" THEN [at |-> "bumpRead"] ELSE Idle)
    /\ UNCHANGED <<objects, drawn, revision, account, reader, bounds, cleaned,
                   stranded, unannounced, regressed>>

(* After the covers: INSERT, rebuild, commit.  Foreign keys are not        *)
(* enforced; when the account is gone the row stays and the request fails  *)
(* before it can bump.                                                     *)
StoreTrack(p) ==
    /\ At(p, "cover")
    /\ \E at \in Times :
          rows' = Rebuild([t \in Present \cup {task[p].track} |->
                     IF t = task[p].track
                     THEN [size |-> task[p].size, at |-> at, cum |-> 0,
                           ver |-> 0]
                     ELSE rows[t]])
    /\ late' = IF Leaving THEN late \cup {task[p].track} ELSE late
    /\ Goto(p, IF account = "live" THEN [at |-> "bumpRead"] ELSE Idle)
    /\ UNCHANGED <<objects, drawn, revision, account, reader, bounds, cleaned,
                   stranded, unannounced, regressed>>

(* soundslop_worker inserts a generated track (artist SoundSlop) with      *)
(* cumulative_bytes 0, asks no quota, rebuilds nothing and bumps nothing.  *)
(* The job row outlives its account.                                       *)
GenerateTrack ==
    /\ generated < MaxGenerated /\ generated' = generated + 1
    /\ drawn < MaxTracks /\ drawn' = drawn + 1
    /\ objects' = objects \cup {drawn + 1}
    /\ \E size \in Sizes, at \in Times :
          rows' = [t \in Present \cup {drawn + 1} |->
                     IF t = drawn + 1
                     THEN [size |-> size, at |-> at, cum |-> 0, ver |-> 0]
                     ELSE rows[t]]
    /\ late' = IF Leaving THEN late \cup {drawn + 1} ELSE late
    /\ unannounced' = TRUE
    /\ UNCHANGED <<revision, account, task, reader, requests, setbacks,
                   cleaned, stranded, regressed>>

-----------------------------------------------------------------------------
(* Where a request continues after its bump: a deleted track's files are   *)
(* purged in the background, a clean-up may go on to delete the account.   *)
AfterBump(k) ==
    IF "next" \in DOMAIN k THEN k.next ELSE Idle

(* bump_library_revision: SELECT (FOR UPDATE does nothing in SQLite), then *)
(* UPDATE with the value computed from it.  A user that is gone raises.    *)
BumpRead(p) ==
    /\ At(p, "bumpRead")
    /\ Goto(p, IF account = "live"
               THEN [at |-> "bumpWrite", rev |-> revision,
                     next |-> AfterBump(task[p])]
               ELSE Idle)
    /\ UNCHANGED <<data, revision, account, reader, bounds, history>>

BumpWrite(p) ==
    /\ At(p, "bumpWrite")
    /\ IF account = "live"
       THEN /\ revision' = task[p].rev + 1
            /\ Goto(p, task[p].next)
            /\ unannounced' = (unannounced /\ task[p].rev + 1 <= revision)
            /\ regressed' = (regressed \/ task[p].rev + 1 < revision)
       ELSE /\ Goto(p, Idle)
            /\ UNCHANGED <<revision, unannounced, regressed>>
    /\ UNCHANGED <<data, account, reader, bounds, cleaned, stranded, late>>

-----------------------------------------------------------------------------
(* Mutant of DeleteTrack: the audio is purged before the row goes.         *)
DeleteTrack_PurgesFirst(p, t) ==
    /\ t \in Present
    /\ Start(p, Idle)
    /\ objects' = objects \ {t}
    /\ UNCHANGED <<rows, drawn, revision, account, reader, history>>

(* DELETE /tracks/{id}: row and totals in one transaction.                 *)
DeleteTrack(p, t) ==
    /\ t \in Present
    /\ Start(p, [at |-> "bumpRead",
                 next |-> [at |-> "purge", track |-> t]])
    /\ rows' = Rebuild(Restrict(rows, Present \ {t}))
    /\ UNCHANGED <<objects, drawn, revision, account, reader, history>>

(* _purge_track_files_async, after the response; errors are swallowed.     *)
Purge(p) ==
    /\ At(p, "purge")
    /\ objects' \in {objects, objects \ {task[p].track}}
    /\ Goto(p, Idle)
    /\ UNCHANGED <<rows, drawn, revision, account, reader, bounds, history>>

(* PATCH /tracks/{id} reads the row, may await a cover, then commits.      *)
StartEdit(p, t) ==
    /\ t \in Present
    /\ Start(p, [at |-> "edit", track |-> t])
    /\ UNCHANGED <<data, revision, account, reader, history>>

(* POST /tracks/{id}/repair-metadata reads the audio from S3 first.        *)
StartRepair(p, t) ==
    /\ t \in Present
    /\ Start(p, IF t \in objects THEN [at |-> "edit", track |-> t] ELSE Idle)
    /\ UNCHANGED <<data, revision, account, reader, history>>

(* An edit that is not refused (400, 502) updates the row; a row deleted   *)
(* meanwhile makes the UPDATE fail.                                        *)
CommitEdit(p) ==
    /\ At(p, "edit")
    /\ \/ /\ task[p].track \in Present
          /\ rows' = [rows EXCEPT ![task[p].track].ver = @ + 1]
          /\ Goto(p, [at |-> "bumpRead"])
       \/ Goto(p, Idle) /\ UNCHANGED rows
    /\ UNCHANGED <<objects, drawn, revision, account, reader, bounds, history>>

-----------------------------------------------------------------------------
(* _cleanup_user_tracks_data, of POST /admin/users/{id}/tracks/cleanup or  *)
(* DELETE /admin/users/{id}: the audio of the rows it read goes first; an  *)
(* error of S3 is only reported, and S3 may delete only some of them.      *)
StartCleanup(p, eraseAccount) ==
    /\ Start(p, IF Present = {}
                THEN [at |-> IF eraseAccount THEN "cascade" ELSE "idle"]
                ELSE [at |-> "wipe", ids |-> Present,
                      next |-> [at |-> IF eraseAccount THEN "cascade"
                                       ELSE "idle"]])
    /\ \E gone \in SUBSET (Present \cap objects) :
          objects' = objects \ gone /\ cleaned' = cleaned \cup gone
    /\ UNCHANGED <<rows, drawn, revision, account, reader, stranded, late,
                   unannounced, regressed>>

(* Mutant of Wipe: the list changes and the revision does not.             *)
Wipe_NoBump(p) ==
    /\ At(p, "wipe")
    /\ rows' = <<>>
    /\ Goto(p, task[p].next)
    /\ UNCHANGED <<objects, drawn, revision, account, reader, bounds, history>>

(* DELETE FROM tracks WHERE user_id: rows stored meanwhile go too.         *)
Wipe(p) ==
    /\ At(p, "wipe")
    /\ rows' = <<>>
    /\ Goto(p, [at |-> "bumpRead", next |-> task[p].next])
    /\ UNCHANGED <<objects, drawn, revision, account, reader, bounds, history>>

(* db.delete(user) of DELETE /users/me, or of an administrator after the   *)
(* clean-up: the ORM loads the rows it will delete ...                     *)
StartDeleteMe(p) ==
    /\ Start(p, [at |-> "erase", ids |-> Present])
    /\ UNCHANGED <<data, revision, account, reader, history>>

Cascade(p) ==
    /\ At(p, "cascade")
    /\ Goto(p, IF account = "live" THEN [at |-> "erase", ids |-> Present]
               ELSE Idle)
    /\ UNCHANGED <<data, revision, account, reader, bounds, history>>

(* Mutant of Erase: the tracks are left to foreign keys nobody enforces.   *)
Erase_NoCascade(p) ==
    /\ At(p, "erase")
    /\ account' = "gone"
    /\ Goto(p, Idle)
    /\ UNCHANGED <<data, revision, reader, bounds, history>>

(* ... and the commit deletes exactly these and the account.               *)
Erase(p) ==
    /\ At(p, "erase")
    /\ rows' = Restrict(rows, Present \ task[p].ids)
    /\ account' = "gone"
    /\ Goto(p, Idle)
    /\ UNCHANGED <<objects, drawn, revision, reader, bounds, history>>

-----------------------------------------------------------------------------
(* GET /tracks of the client: it reads the revision, answers "unchanged"   *)
(* when it equals since_revision, and otherwise reads a page.  The client  *)
(* walks on with next_cursor and keeps the revision of the first page.     *)
Unchanged == client.rev = revision

StartWalk ==
    /\ walk = NoWalk /\ account = "live" /\ ~Unchanged
    /\ walk' = [at |-> "page", rev |-> revision, start |-> Present,
                got |-> {}, cursor |-> NoCursor]
    /\ UNCHANGED <<data, revision, account, task, client, bounds, history>>

(* Mutant of Beyond: the cursor forgets the id.                            *)
Beyond_TimeOnly(c, t) == c = NoCursor \/ rows[t].at < c.at

(* The filter of get_tracks: rows older than the cursor, if there is one.  *)
Beyond(c, t) ==
    \/ c = NoCursor
    \/ rows[t].at < c.at
    \/ rows[t].at = c.at /\ t < c.id

(* The newest PageSize rows beyond the cursor.                             *)
Page(c) ==
    LET rest == {t \in Present : Beyond(c, t)} IN
    {t \in rest : Cardinality({s \in rest : ~NotAfter(rows, s, t)}) < PageSize}

HasMore(c) == {t \in Present : Beyond(c, t)} # Page(c)

(* _make_track_cursor of the page's last row, its oldest.                  *)
CursorAfter(page) ==
    LET last == CHOOSE t \in page : \A s \in page : NotAfter(rows, t, s) IN
    [at |-> rows[last].at, id |-> last]

ReadPage ==
    /\ walk.at = "page" /\ account = "live"
    /\ LET page == Page(walk.cursor)
           got == walk.got \cup {Listed(t) : t \in page}
       IN IF HasMore(walk.cursor)
          THEN /\ walk' = [walk EXCEPT !.got = got, !.cursor = CursorAfter(page)]
               /\ UNCHANGED client
          ELSE /\ client' = [rev |-> walk.rev, copy |-> got]
               /\ walk' = NoWalk
    /\ UNCHANGED <<data, revision, account, task, bounds, history>>

(* The network loses an answer, or the account is gone (401).              *)
DropWalk ==
    /\ walk # NoWalk
    /\ walk' = NoWalk
    /\ UNCHANGED <<data, revision, account, task, client, bounds, history>>

(* A process is killed, or a commit of its request raises: the request     *)
(* ends where it stands.                                                   *)
Interrupt(p) ==
    /\ setbacks < MaxSetbacks /\ setbacks' = setbacks + 1
    /\ ~At(p, "idle")
    /\ Goto(p, Idle)
    /\ unannounced' = (unannounced \/ task[p].at \in {"bumpRead", "bumpWrite"})
    /\ stranded' = IF At(p, "wipe") THEN stranded \cup task[p].ids ELSE stranded
    /\ UNCHANGED <<data, revision, account, reader, requests, generated,
                   cleaned, late, regressed>>

-----------------------------------------------------------------------------
Begin(p) ==
    \/ StartUpload(p)
    \/ StartRemote(p)
    \/ StartDirect(p)
    \/ \E t \in Present : DeleteTrack(p, t)
    \/ \E t \in Present : StartEdit(p, t)
    \/ \E t \in Present : StartRepair(p, t)
    \/ \E eraseAccount \in BOOLEAN : StartCleanup(p, eraseAccount)
    \/ StartDeleteMe(p)

Continue(p) ==
    \/ CheckUpload(p)
    \/ CheckImport(p)
    \/ PutObject(p)
    \/ PutFails(p)
    \/ StoreTrack(p)
    \/ BumpRead(p)
    \/ BumpWrite(p)
    \/ Purge(p)
    \/ CommitEdit(p)
    \/ Wipe(p)
    \/ Cascade(p)
    \/ Erase(p)

Next ==
    \/ \E p \in Workers : Begin(p) \/ Continue(p) \/ Interrupt(p)
    \/ GenerateTrack
    \/ StartWalk
    \/ ReadPage
    \/ DropWalk

Spec == Init /\ [][Next]_vars

-----------------------------------------------------------------------------
(* The running totals of the tracks that have one are the sums the freeze  *)
(* relies on, whatever uploads, deletions and generated tracks interleave: *)
(* a total counts the tracks at or before it that have a total themselves. *)
TotalsAddUp ==
    account = "live" =>
        LET counted == {t \in Present : rows[t].cum # 0} IN
        \A t \in counted :
            rows[t].cum = SizeOf(Restrict(rows,
                              {s \in counted : NotAfter(rows, s, t)}))

(* A client that would be told "unchanged" has every track as it is,       *)
(* unless a change still waits for its bump, a change never got one (a     *)
(* killed process, a failed commit, a generated track) and no later one    *)
(* covered it, or two processes made the revision go back.  Two bumps that *)
(* write the same number hide nothing by themselves.                       *)
SyncedCopyIsCurrent ==
    (/\ account = "live"
     /\ Unchanged
     /\ ~unannounced /\ ~regressed
     /\ \A p \in Workers : task[p].at \notin {"bumpRead", "bumpWrite"})
    => client.copy = {Listed(t) : t \in Present}

(* A walk through the pages misses no track that was there throughout,     *)
(* whatever is inserted or deleted between two pages.                      *)
WalkMissesNothing ==
    walk.at = "page" =>
        \A t \in walk.start \cap Present :
            Beyond(walk.cursor, t) \/ \E g \in walk.got : g.id = t

(* A track can be played: its audio is in S3 from before its row appears   *)
(* until after it is gone.  Only an administrator's clean-up removes audio *)
(* first, and such rows stay only if a kill or a failed commit ends it.    *)
EveryTrackHasItsObject ==
    \A t \in Present \ objects :
        /\ t \in cleaned
        /\ t \in stranded \/ \E p \in Workers : At(p, "wipe") /\ t \in task[p].ids

(* Deleting an account leaves no track behind, except one that a request   *)
(* in flight stored during or after the deletion.                          *)
OnlyLateTracksSurvive ==
    account = "gone" => Present \subseteq late

(* A track is stored over the limit only if another one, which its check   *)
(* could not have counted, was stored between the check and the insert.    *)
QuotaHonoured ==
    [][\A p \in Workers :
          (/\ At(p, "cover")
           /\ task[p].track \in DOMAIN rows'
           /\ SizeOf(rows') > Limit)
          => \E t \in Present : \A c \in task[p].counted : c.id # t]_vars
=============================================================================
