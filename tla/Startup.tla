------------------------------ MODULE Startup ------------------------------
(***************************************************************************)
(* The database file of a host and its copies in S3 (db_backup.py, the     *)
(* lifespan of main.py): workers that start, restore a missing file from   *)
(* backups/database_latest.db, create the tables, and save the file once a *)
(* day and when they stop.                                                 *)
(*                                                                         *)
(* The threads of the workers interleave at their accesses to the lock,    *)
(* the file, the temporary copy and S3.  The database is the set of rows   *)
(* ever committed to it; a file with more rows is not smaller.  Time is a  *)
(* sequence of instants, Parts of them a UTC day, so that the retention    *)
(* ends in the middle of a day as in the code.  Left out: a copy2 torn by  *)
(* a write, and two uploads in one second, which write one key.            *)
(*                                                                         *)
(* Bounds of the model: MaxRows, MaxTime, MaxStops.                        *)
(***************************************************************************)
EXTENDS Integers, FiniteSets

CONSTANTS
    Servers,   \* uvicorn workers
    Missing,   \* no file, no object, no lock holder
    Retention, \* BACKUP_RETENTION_DAYS
    Parts,     \* instants in a day
    MaxRows, MaxTime, MaxStops

VARIABLES
    db,       \* DB_PATH
    tmp,      \* DB_PATH.backup_tmp, one path for all workers
    latest,   \* S3_DB_LATEST_KEY
    stamped,  \* timestamped objects [at, no, rows], by LastModified
    lock,     \* holder of STARTUP_LOCK_PATH
    proc,     \* where each worker is in its life
    restore,  \* its download_db_from_s3
    saver,    \* its uploads: the one of the loop, the one of the shutdown
    loop,     \* instant at which its backup loop began to wait, or Missing
    now,      \* the instant
    counts,   \* [rows, stops] so far; a kill, a lost disk are stops
    hadFile,  \* history: a worker that is to restore found a file at its start
    lost,     \* history: the rows restores overwrote [row, beside], and
              \* whether the restore was begun beside a file
    finished  \* history: the timestamped objects ever written

files == <<db, tmp, latest, stamped>>
threads == <<restore, saver, loop>>
startupHistory == <<hadFile, lost, finished>>
startupVars == <<files, lock, proc, threads, now, counts, startupHistory>>

Rows == 1..MaxRows
Uploads == {"daily", "exit"}

ASSUME StartupAssumption ==
    /\ Retention \in Nat /\ Parts \in Nat \ {0} /\ MaxRows \in Nat \ {0}
    /\ \A rows \in SUBSET Rows : Missing # rows

Off == [at |-> "off"]

StartupTypeOK ==
    /\ \A f \in {db, tmp, latest} : f = Missing \/ f \subseteq Rows
    /\ \A s \in stamped : s.at \in 0..now /\ s.rows \subseteq Rows
    /\ lock = Missing \/ proc[lock] = "locked"
    /\ proc \in [Servers -> {"down", "locked", "tables", "up", "stopping"}]
    /\ \A w \in Servers : proc[w] = "down" => restore[w] = Off /\ loop[w] = Missing

(* A host with its database, or a new one; S3 has a backup of before.      *)
StartupInit ==
    /\ db \in {Missing, {1}} /\ latest = {1}
    /\ tmp = Missing /\ lock = Missing
    /\ stamped = {[at |-> 0, no |-> 1, rows |-> latest]}
    /\ proc = [w \in Servers |-> "down"] /\ restore = [w \in Servers |-> Off]
    /\ saver = [w \in Servers |-> [u \in Uploads |-> Off]]
    /\ loop = [w \in Servers |-> Missing]
    /\ now = 1
    /\ counts = [rows |-> 1, stops |-> 0]
    /\ hadFile = [w \in Servers |-> FALSE] /\ lost = {}
    /\ finished = stamped

Enters(w, p) == proc' = [proc EXCEPT ![w] = p]
CountUp(what) == counts' = [counts EXCEPT ![what] = @ + 1]

-----------------------------------------------------------------------------
(* run_startup_once: LOCK_NB skips the rest when another worker holds it.  *)
Boot(w) ==
    /\ proc[w] = "down"
    /\ IF lock = Missing
       THEN /\ lock' = w /\ Enters(w, "locked")
            /\ hadFile' = [hadFile EXCEPT ![w] = db # Missing]
       ELSE Enters(w, "tables") /\ UNCHANGED <<lock, hadFile>>
    /\ UNCHANGED <<files, threads, now, counts, lost, finished>>

(* The threads are started, and the lock is released while they run.       *)
StartThreads(w) ==
    /\ proc[w] = "locked"
    /\ restore' = [restore EXCEPT ![w] = [at |-> "check"]]
    /\ loop' = [loop EXCEPT ![w] = now]
    /\ lock' = Missing /\ Enters(w, "tables")
    /\ UNCHANGED <<files, saver, now, counts, startupHistory>>

(* create_all makes a file that is missing.                                *)
CreateTables(w) ==
    /\ proc[w] = "tables"
    /\ db' = IF db = Missing THEN {} ELSE db
    /\ Enters(w, "up")
    /\ UNCHANGED <<tmp, latest, stamped, lock, threads, now, counts,
                   startupHistory>>

-----------------------------------------------------------------------------
RestoreGoto(w, r) ==
    /\ restore' = [restore EXCEPT ![w] = r]
    /\ hadFile' = [hadFile EXCEPT ![w] = @ /\ r # Off]

(* Mutant of CheckFile: a copy that differs is taken for a newer one.      *)
CheckFile_Differs(w) ==
    /\ restore[w].at = "check"
    /\ RestoreGoto(w, IF db = latest THEN Off ELSE [at |-> "get"])
    /\ UNCHANGED <<files, lock, proc, saver, loop, now, counts, lost, finished>>

(* download_db_from_s3: a file that exists is kept.                        *)
CheckFile(w) ==
    /\ restore[w].at = "check"
    /\ RestoreGoto(w, IF db # Missing THEN Off ELSE [at |-> "get"])
    /\ UNCHANGED <<files, lock, proc, saver, loop, now, counts, lost, finished>>

(* head_object and the body, or neither.                                   *)
Download(w) ==
    /\ restore[w].at = "get"
    /\ \/ RestoreGoto(w, Off)
       \/ latest # Missing /\ RestoreGoto(w, [at |-> "place", rows |-> latest])
    /\ UNCHANGED <<files, lock, proc, saver, loop, now, counts, lost, finished>>

(* download_file renames its temporary file to DB_PATH at the end, over    *)
(* whatever is there by now.                                               *)
PlaceFile(w) ==
    /\ restore[w].at = "place"
    /\ db' = restore[w].rows
    /\ lost' = IF db = Missing THEN lost
               ELSE lost \cup [row : db \ db', beside : {hadFile[w]}]
    /\ RestoreGoto(w, Off)
    /\ UNCHANGED <<tmp, latest, stamped, lock, proc, saver, loop, now, counts,
                   finished>>

-----------------------------------------------------------------------------
SaverGoto(w, u, s) == saver' = [saver EXCEPT ![w][u] = s]
SaverAt(w, u, at) == saver[w][u].at = at

(* The end of an upload, after which the loop waits again.                 *)
SaverEnds(w, u) ==
    /\ SaverGoto(w, u, Off)
    /\ loop' = IF u = "daily" /\ loop[w] # Missing
               THEN [loop EXCEPT ![w] = now] ELSE loop

KeepRest == UNCHANGED <<lock, proc, restore, now, counts, hadFile, lost>>

(* LastModified is before the cutoff, an instant of a day.                 *)
DayOf(t) == t \div Parts
Expired(x) == x.at < now - Retention * Parts

(* s is kept rather than t, of the same day: it is larger, or as large and *)
(* newer.                                                                  *)
Keeps(s, t) ==
    LET Size(x) == Cardinality(x.rows) IN
    /\ DayOf(s.at) = DayOf(t.at)
    /\ Size(s) > Size(t) \/ (Size(s) = Size(t) /\ s.no > t.no)

(* Mutant of Superfluous: the oldest and smallest of a day is kept.        *)
Superfluous_Ascending ==
    {t \in stamped : \/ Expired(t)
                     \/ \E s \in stamped : ~Expired(s) /\ Keeps(t, s)}

(* prune_old_backups: the objects past the retention, and of the others    *)
(* all but one a day.                                                      *)
Superfluous ==
    {t \in stamped : \/ Expired(t)
                     \/ \E s \in stamped : ~Expired(s) /\ Keeps(s, t)}

(* upload_db_to_s3: nothing to save, or a copy and the list of objects,    *)
(* which it comes to next.                                                 *)
CopyDb(w, u) ==
    /\ SaverAt(w, u, "copy")
    /\ IF db = Missing THEN SaverEnds(w, u) /\ UNCHANGED tmp
       ELSE /\ SaverGoto(w, u, [at |-> "prune", victims |-> Superfluous])
            /\ tmp' = db /\ UNCHANGED loop
    /\ UNCHANGED <<db, latest, stamped, finished>> /\ KeepRest

(* Each deletion may fail, and none stops the backup.                      *)
DeleteBackups(w, u) ==
    /\ SaverAt(w, u, "prune")
    /\ \E gone \in SUBSET saver[w][u].victims : stamped' = stamped \ gone
    /\ SaverGoto(w, u, [at |-> "latest"])
    /\ UNCHANGED <<db, tmp, latest, loop, finished>> /\ KeepRest

(* The copy may be gone, removed by another worker, or the upload fails;   *)
(* the end, whichever, removes the copy.                                   *)
SaveLatest(w, u) ==
    /\ SaverAt(w, u, "latest")
    /\ \/ SaverEnds(w, u) /\ tmp' = Missing /\ UNCHANGED latest
       \/ /\ tmp # Missing /\ latest' = tmp
          /\ SaverGoto(w, u, [at |-> "stamp"])
          /\ UNCHANGED <<tmp, loop>>
    /\ UNCHANGED <<db, stamped, finished>> /\ KeepRest

SaveStamped(w, u) ==
    /\ SaverAt(w, u, "stamp")
    /\ SaverEnds(w, u) /\ tmp' = Missing
    /\ \/ UNCHANGED <<stamped, finished>>
       \/ LET new == [at |-> now, no |-> Cardinality(finished) + 1, rows |-> tmp] IN
          /\ tmp # Missing
          /\ stamped' = stamped \cup {new} /\ finished' = finished \cup {new}
    /\ UNCHANGED <<db, latest>> /\ KeepRest

(* _backup_loop waits for a day and saves the file, again and again.       *)
DailyBackup(w) ==
    /\ loop[w] # Missing /\ SaverAt(w, "daily", "off")
    /\ now >= loop[w] + Parts
    /\ SaverGoto(w, "daily", [at |-> "copy"])
    /\ UNCHANGED <<files, lock, proc, restore, loop, now, counts, startupHistory>>

-----------------------------------------------------------------------------
(* A request commits a row.                                                *)
Insert(w) ==
    /\ proc[w] = "up" /\ db # Missing
    /\ counts.rows < MaxRows /\ CountUp("rows")
    /\ db' = db \cup {counts.rows + 1}
    /\ UNCHANGED <<tmp, latest, stamped, lock, proc, threads, now,
                   startupHistory>>

(* The end of the lifespan: the loop stops after the upload it is in, and  *)
(* another upload is started.                                              *)
StopWorker(w) ==
    /\ proc[w] = "up" /\ counts.stops < MaxStops /\ CountUp("stops")
    /\ Enters(w, "stopping")
    /\ loop' = [loop EXCEPT ![w] = Missing]
    /\ SaverGoto(w, "exit", [at |-> "copy"])
    /\ UNCHANGED <<files, lock, restore, now, startupHistory>>

Died(W) ==
    /\ proc' = [w \in Servers |-> IF w \in W THEN "down" ELSE proc[w]]
    /\ restore' = [w \in Servers |-> IF w \in W THEN Off ELSE restore[w]]
    /\ loop' = [w \in Servers |-> IF w \in W THEN Missing ELSE loop[w]]
    /\ saver' = [w \in Servers |->
                   IF w \in W THEN [u \in Uploads |-> Off] ELSE saver[w]]
    /\ lock' = IF lock \in W THEN Missing ELSE lock
    /\ hadFile' = [w \in Servers |-> hadFile[w] /\ w \notin W]

(* A process that stops does not wait for its threads, which are daemons.  *)
Exit(w) ==
    /\ proc[w] = "stopping" /\ Died({w})
    /\ UNCHANGED <<files, now, counts, lost, finished>>

StartupKill(w) ==
    /\ proc[w] \notin {"down", "stopping"}
    /\ counts.stops < MaxStops /\ CountUp("stops")
    /\ Died({w})
    /\ UNCHANGED <<files, now, lost, finished>>

(* The disk of the host is lost: all begins anew on another one.           *)
HostLost ==
    /\ counts.stops < MaxStops /\ CountUp("stops")
    /\ Died(Servers) /\ db' = Missing /\ tmp' = Missing
    /\ UNCHANGED <<latest, stamped, now, lost, finished>>

ClockTicks ==
    /\ now < MaxTime /\ now' = now + 1
    /\ UNCHANGED <<files, lock, proc, threads, counts, startupHistory>>

StartupNext ==
    \/ HostLost
    \/ ClockTicks
    \/ \E w \in Servers :
          \/ Boot(w)
          \/ StartThreads(w)
          \/ CreateTables(w)
          \/ CheckFile(w)
          \/ Download(w)
          \/ PlaceFile(w)
          \/ DailyBackup(w)
          \/ Insert(w)
          \/ StopWorker(w)
          \/ Exit(w)
          \/ StartupKill(w)
          \/ \E u \in Uploads :
                \/ CopyDb(w, u)
                \/ DeleteBackups(w, u)
                \/ SaveLatest(w, u)
                \/ SaveStamped(w, u)

StartupSpec == StartupInit /\ [][StartupNext]_startupVars

-----------------------------------------------------------------------------
(* A worker that starts on a host with a database overwrites no row: its   *)
(* restore finds the file, whatever the other workers do.  (One that finds *)
(* none is not meant here: see ExistingFileKept.)                          *)
RestartKeepsRows == \A l \in lost : ~l.beside

(* download_db_from_s3 promises more, "if database.db already exists, it   *)
(* is never overwritten from S3 at the start" (db_backup.py:180), which    *)
(* PlaceFile breaks: CreateTables made the file while it was downloaded.   *)
ExistingFileKept == lost = {}

(* The largest snapshot of a day, the newest of these, stays in S3 until   *)
(* it is past the retention, whatever several workers list, delete late or *)
(* fail to delete, and whatever smaller database was saved after it.       *)
SnapshotsKept ==
    \A f \in finished :
       ~Expired(f) /\ (\A g \in finished : ~Keeps(g, f)) => f \in stamped
=============================================================================
