------------------------------- MODULE Albums -------------------------------
(***************************************************************************)
(* One album (api/albums.py, and _attach_tracks_to_album of api/tracks.py):*)
(* its row, its cover, and the requests of several processes that read the *)
(* row, may await a cover, and write the row back.  SQLAlchemy writes the  *)
(* columns whose value differs from the one it loaded, and only those.     *)
(*                                                                         *)
(* The bump of the library revision after each commit is in Library.       *)
(*                                                                         *)
(* Bounds of the model: MaxTime, MaxWrites, MaxAlbumKills and CoverCache's.*)
(***************************************************************************)
EXTENDS CoverCache

CONSTANTS
    TrackNames,    \* ids of tracks
    Edits,         \* payloads: [ids, cover], ids a set of tracks or None
    Stamps,        \* updatedAt of payloads, None when missing or invalid
    MaxTime,       \* timestamps and the clock reach it
    MaxWrites,     \* requests that change the album
    MaxAlbumKills  \* processes killed

VARIABLES
    album,       \* [at (updated_at), ids (track_ids), path], or None
    writer,      \* the process whose transaction holds the write lock, or None
    clock,       \* utcnow
    writes,      \* requests so far
    albumKills   \* kills so far

rowVars == <<album, writer>>
albumBounds == <<clock, writes, albumKills>>
albumVars == <<coverVars, cacheVars, task, cacheHistory, rowVars, albumBounds>>

Covers == {"keep", "clear", "data", "url"}

ASSUME AlbumsAssumption ==
    /\ None \notin Procs
    /\ MaxTime \in Nat /\ MaxWrites \in Nat
    /\ Edits \subseteq [ids : (SUBSET TrackNames) \cup {None}, cover : Covers]
    /\ Stamps \subseteq 0..MaxTime \cup {None}

AlbumsTypeOK ==
    /\ CacheTypeOK
    /\ album = None \/ album \in [at : 0..MaxTime, ids : SUBSET TrackNames,
                                  path : BOOLEAN]
    /\ writer \in Procs \cup {None}
    /\ writer # None => task[writer].at # "idle"
    /\ clock \in 0..MaxTime /\ writes \in 0..MaxWrites

(* There is no album yet, or one whose cover nobody has asked for so far.  *)
AlbumsInit ==
    /\ CacheInit
    /\ task = [p \in Procs |-> Resting]
    /\ album = IF cover = None THEN None
                ELSE [at |-> 0, ids |-> {}, path |-> TRUE]
    /\ writer = None
    /\ clock = 0 /\ writes = 0 /\ albumKills = 0

Goto(p, k) == task' = [task EXCEPT ![p] = k]
At(p, at) == task[p].at = at
Release(p) == writer' = IF writer = p THEN None ELSE writer

(* First step of handling a cover of the payload.                          *)
FirstStep(how) ==
    CASE how = "keep" -> "commit" [] how = "url" -> "fetch" [] OTHER -> "drop"

Begin(p) ==
    /\ At(p, "idle")
    /\ writes < MaxWrites /\ writes' = writes + 1
    /\ UNCHANGED <<coverVars, cacheVars, cacheHistory, album, clock, albumKills>>

-----------------------------------------------------------------------------
(* POST /albums: the id is the client's.  The INSERT is flushed before the *)
(* cover is awaited, so this transaction holds the write lock meanwhile;   *)
(* it fails (500) when another one holds it too long.                      *)
CreateAlbum(p, e, ts) ==
    /\ Begin(p) /\ album = None
    /\ IF writer # None THEN UNCHANGED <<writer, task>>
       ELSE /\ writer' = p
            /\ Goto(p, [at |-> FirstStep(e.cover), do |-> "create", edit |-> e,
                        ts |-> ts, seen |-> None, path |-> FALSE])

(* LWW of PUT /albums/{id}: the server's album is newer than the client's. *)
Newer(ts) == ts # None /\ ts < album.at

(* A stale edit is answered with the album as it is, others go on.         *)
UpdateAlbum(p, e, ts) ==
    /\ Begin(p) /\ album # None
    /\ IF Newer(ts) THEN UNCHANGED task
       ELSE Goto(p, [at |-> FirstStep(e.cover), do |-> "edit", edit |-> e,
                     ts |-> ts, seen |-> album, path |-> album.path])
    /\ UNCHANGED writer

(* DELETE /albums/{id}: the cover's object goes, the cache is left alone.  *)
DeleteAlbum(p) ==
    /\ Begin(p) /\ album # None
    /\ Goto(p, [at |-> "drop", do |-> "delete", edit |-> [ids |-> None,
                cover |-> "clear"], ts |-> None, seen |-> album,
                path |-> album.path])
    /\ UNCHANGED writer

(* The end of an import with album_id: the whole list is written back.     *)
AttachTrack(p, t) ==
    /\ Begin(p) /\ album # None
    /\ IF t \in album.ids THEN UNCHANGED task
       ELSE Goto(p, [at |-> "commit", do |-> "attach",
                     edit |-> [ids |-> album.ids \cup {t}, cover |-> "keep"],
                     ts |-> None, seen |-> album, path |-> album.path])
    /\ UNCHANGED writer

-----------------------------------------------------------------------------
(* resolve_cover_image downloads the cover (60 s at most), or fails: the   *)
(* transaction is rolled back.                                             *)
FetchCover(p) ==
    /\ At(p, "fetch")
    /\ \/ Goto(p, [task[p] EXCEPT !.at = "drop"]) /\ UNCHANGED writer
       \/ Goto(p, Resting) /\ Release(p)
    /\ UNCHANGED <<coverVars, cacheVars, cacheHistory, album, albumBounds>>

(* delete_cover_from_s3 of the path the request loaded; errors are         *)
(* swallowed.                                                              *)
DropObject(p) ==
    /\ At(p, "drop")
    /\ cover' \in IF task[p].path THEN {cover, None} ELSE {cover}
    /\ Goto(p, [task[p] EXCEPT !.at =
                   IF task[p].do = "delete" THEN "commit" ELSE "forget"])
    /\ UNCHANGED <<uploads, cacheVars, cacheHistory, rowVars, albumBounds>>

Forget(p) ==
    /\ At(p, "forget")
    /\ Forgotten(p)
    /\ IF task[p].edit.cover = "clear"
       THEN Goto(p, [task[p] EXCEPT !.at = "commit", !.path = FALSE])
       ELSE Goto(p, [task[p] EXCEPT !.at = "put"])
    /\ UNCHANGED <<coverVars, loads, torn, rowVars, albumBounds>>

(* upload_album_cover_to_s3 under the key made of user and album.          *)
PutCover(p) ==
    /\ At(p, "put")
    /\ \/ /\ uploads < MaxUploads /\ uploads' = uploads + 1
          /\ cover' = uploads + 1
          /\ overlapped' = (overlapped \/ Loading \/ disk # None
                                       \/ mem[last] # None)
          /\ Goto(p, [task[p] EXCEPT !.at = "commit", !.path = TRUE])
          /\ UNCHANGED writer
       \/ /\ Goto(p, Resting) /\ Release(p)
          /\ UNCHANGED <<coverVars, overlapped>>
    /\ UNCHANGED <<cacheVars, last, torn, album, albumBounds>>

Stamp(k) == IF k.ts = None THEN clock ELSE k.ts

(* Mutant of Written: every column the request loaded is written back.     *)
Written_WholeRow(k) ==
    [at   |-> Stamp(k),
     ids  |-> IF k.edit.ids # None THEN k.edit.ids ELSE k.seen.ids,
     path |-> k.path]

(* The row after the UPDATE of request k: changed columns only.            *)
Written(k) ==
    [at   |-> IF Stamp(k) # k.seen.at THEN Stamp(k) ELSE album.at,
     ids  |-> IF k.edit.ids # None /\ k.edit.ids # k.seen.ids
              THEN k.edit.ids ELSE album.ids,
     path |-> IF k.path # k.seen.path THEN k.path ELSE album.path]

(* Commit.  The write lock of another request makes it wait, or fail after *)
(* five seconds (500); so does a row that was deleted meanwhile.           *)
Commit(p) ==
    LET k == task[p] IN
    /\ At(p, "commit")
    /\ Goto(p, Resting) /\ Release(p)
    /\ \/ /\ writer \in {None, p}
          /\ album' = IF k.do = "create"
                      THEN [at |-> Stamp(k), path |-> k.path,
                            ids |-> IF k.edit.ids = None THEN {}
                                    ELSE k.edit.ids]
                      ELSE IF k.do = "delete" \/ album = None THEN None
                      ELSE Written(k)
       \/ /\ writer \notin {None, p}
          /\ UNCHANGED album
    /\ UNCHANGED <<coverVars, cacheVars, cacheHistory, albumBounds>>

(* GET /albums/{id}/cover asks the cache only when the row has a path.     *)
GetAlbumCover(l, p) ==
    /\ album # None /\ album.path
    /\ StartLoad(l, p)
    /\ UNCHANGED <<rowVars, albumBounds>>

Resolve == LoadNext /\ UNCHANGED <<rowVars, albumBounds>>

AlbumTick ==
    /\ clock < MaxTime /\ clock' = clock + 1
    /\ UNCHANGED <<coverVars, cacheVars, task, cacheHistory, rowVars, writes,
                   albumKills>>

(* A killed process rolls back and forgets its memory.                     *)
AlbumKill(p) ==
    /\ albumKills < MaxAlbumKills /\ albumKills' = albumKills + 1
    /\ CacheKilled(p)
    /\ Goto(p, Resting) /\ Release(p)
    /\ UNCHANGED <<album, clock, writes>>

AlbumsNext ==
    \/ \E p \in Procs :
          \/ \E e \in Edits, ts \in Stamps :
                CreateAlbum(p, e, ts) \/ UpdateAlbum(p, e, ts)
          \/ DeleteAlbum(p)
          \/ \E t \in TrackNames : AttachTrack(p, t)
          \/ FetchCover(p)
          \/ DropObject(p)
          \/ Forget(p)
          \/ PutCover(p)
          \/ Commit(p)
          \/ AlbumKill(p)
          \/ \E l \in Loaders : GetAlbumCover(l, p)
    \/ Resolve
    \/ AlbumTick

AlbumsSpec == AlbumsInit /\ [][AlbumsNext]_albumVars

-----------------------------------------------------------------------------
(* A track leaves the album only by the album's deletion, by an edit that  *)
(* lists the tracks without it, or by an attachment that read the list in  *)
(* another process before the track was in it.  A cover that takes a       *)
(* minute to download undoes no import that finished meanwhile.            *)
AttachedTrackStays ==
    [][(album # None /\ album' # None) =>
          \A t \in album.ids \ album'.ids :
             \E p \in Procs :
                /\ At(p, "commit") /\ task'[p].at = "idle"
                /\ task[p].edit.ids # None /\ t \notin task[p].edit.ids
                /\ task[p].do = "attach" => t \notin task[p].seen.ids]_albumVars

(* albums.py: "LWW: stale client write must not overwrite a newer server   *)
(* album."                                                                 *)
StaleWriteLoses ==
    [][(album # None /\ album' # None /\ album' # album) =>
          \A p \in Procs :
             (/\ At(p, "commit") /\ task'[p].at = "idle"
              /\ task[p].do = "edit" /\ task[p].ts # None)
             => task[p].ts >= album.at]_albumVars
=============================================================================
