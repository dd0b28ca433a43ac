--------------------------- MODULE StartupProofs ---------------------------
(***************************************************************************)
(* What TLAPS proves of module Startup for every value of its constants:   *)
(* a worker that starts beside a database overwrites none of its rows, and *)
(* however workers copy, prune and fail, the largest snapshot of each day  *)
(* within the retention stays in S3.                                       *)
(***************************************************************************)
EXTENDS Startup, FiniteSetTheorems, TLAPS

(* The variables have their types.  A worker that is down runs no thread,  *)
(* and the holder of the lock is between its acquisition and its release.  *)
Copies == {Missing} \cup SUBSET Rows
Restores ==
    {Off, [at |-> "check"], [at |-> "get"]}
    \cup [at : {"place"}, rows : SUBSET Rows]

HostShape ==
    /\ db \in Copies /\ tmp \in Copies /\ latest \in Copies
    /\ now \in Nat
    /\ DOMAIN counts = {"rows", "stops"} /\ counts.rows \in Nat
    /\ proc \in [Servers -> {"down", "locked", "tables", "up", "stopping"}]
    /\ restore \in [Servers -> Restores]
    /\ hadFile \in [Servers -> BOOLEAN]
    /\ DOMAIN loop = Servers
    /\ \A w \in Servers :
          proc[w] = "down" => restore[w] = Off /\ loop[w] = Missing
    /\ lock = Missing \/ (lock \in Servers /\ proc[lock] = "locked")
    /\ DOMAIN saver = Servers
    /\ \A w \in Servers : DOMAIN saver[w] = Uploads

(* Where a restore was begun beside a file, the file is still there, and   *)
(* the restore has stopped or is about to find it.                         *)
RestoreKnows ==
    /\ RestartKeepsRows
    /\ \A w \in Servers :
          /\ hadFile[w] => db # Missing
          /\ restore[w].at \in {"get", "place"} => ~hadFile[w]

(* Snapshots are numbered as they are written, and each object in S3 is    *)
(* one that was.                                                           *)
SnapshotShape ==
    /\ IsFiniteSet(finished) /\ stamped \subseteq finished
    /\ \A f \in finished : /\ f.at \in 0..now /\ f.rows \in SUBSET Rows
                           /\ f.no \in 1..Cardinality(finished)

(* What a prune is about to delete was listed before anything newer.       *)
Pruning(w, u) == SaverAt(w, u, "prune")
VictimsAreOld ==
    \A w \in Servers, u \in Uploads :
       Pruning(w, u) => \A v \in saver[w][u].victims :
                           v.no \in 1..Cardinality(finished)

(* No snapshot of its day would be kept rather than b.                     *)
Best(b) == \A g \in finished : ~Keeps(g, b)

(* No prune in progress is about to delete b.                              *)
Spared(b) ==
    \A w \in Servers, u \in Uploads :
       Pruning(w, u) => b \notin saver[w][u].victims

(* The best snapshot of a day is in S3, and stays, within the retention.   *)
BestIsKept ==
    \A f \in finished : ~Expired(f) /\ Best(f) => f \in stamped /\ Spared(f)

HostInv ==
    /\ HostShape /\ RestoreKnows
    /\ SnapshotShape /\ VictimsAreOld /\ BestIsKept

-----------------------------------------------------------------------------
(* The initial state satisfies the invariant.                              *)
LEMMA HostInitially ==
    ASSUME StartupInit
    PROVE  HostInv
<1>1. 1 \in Rows /\ {1} \in SUBSET Rows
  BY StartupAssumption DEF Rows
<1>2. HostShape
  BY <1>1 DEF StartupInit, HostShape, Copies, Restores
<1>3. RestoreKnows
  BY DEF StartupInit, RestoreKnows, RestartKeepsRows, Off
<1>4. PICK s : /\ s = [at |-> 0, no |-> 1, rows |-> {1}]
               /\ stamped = {s} /\ finished = {s} /\ now = 1
  <2>1. latest = {1} /\ stamped = {[at |-> 0, no |-> 1, rows |-> latest]}
    BY DEF StartupInit
  <2>2. finished = stamped /\ now = 1
    BY DEF StartupInit
  <2> QED
    BY <2>1, <2>2
<1>5. IsFiniteSet(finished) /\ Cardinality(finished) = 1
  BY <1>4, FS_Singleton
<1>6. SnapshotShape
  BY <1>1, <1>4, <1>5 DEF SnapshotShape
<1>7. \A w \in Servers, u \in Uploads : ~Pruning(w, u)
  BY DEF StartupInit, Pruning, SaverAt, Off
<1>8. VictimsAreOld /\ BestIsKept
  BY <1>4, <1>7 DEF VictimsAreOld, BestIsKept, Spared
<1> QED
  BY <1>2, <1>3, <1>6, <1>8 DEF HostInv

(* One upload moves on and the others stay where they are.                 *)
LEMMA SaverMoves ==
    ASSUME HostShape, NEW w \in Servers, NEW u \in Uploads, NEW s,
           SaverGoto(w, u, s)
    PROVE  /\ DOMAIN saver' = Servers
           /\ \A v \in Servers : DOMAIN saver'[v] = Uploads
           /\ saver'[w][u] = s
           /\ \A v \in Servers, x \in Uploads :
                 <<v, x>> # <<w, u>> => saver'[v][x] = saver[v][x]
BY DEF HostShape, SaverGoto

(* An upload that ends leaves the waiting of the loops well formed.        *)
LEMMA SaverStops ==
    ASSUME HostShape, NEW w \in Servers, NEW u \in Uploads, SaverEnds(w, u)
    PROVE  /\ SaverGoto(w, u, Off)
           /\ DOMAIN loop' = Servers
           /\ \A v \in Servers : loop[v] = Missing => loop'[v] = Missing
BY DEF SaverEnds, HostShape

-----------------------------------------------------------------------------
(* Every step keeps the types: files hold rows or are missing, a thread is *)
(* where the code has a step, and who is down or holds the lock does so    *)
(* wholly.                                                                 *)
LEMMA HostShapeKept ==
    ASSUME HostShape, [StartupNext]_startupVars
    PROVE  HostShape'
<1> USE DEF HostShape, files, threads, startupHistory
<1>1. ASSUME NEW w \in Servers, Boot(w) PROVE HostShape'
  BY <1>1 DEF Boot, Enters
<1>2. ASSUME NEW w \in Servers, StartThreads(w) PROVE HostShape'
  BY <1>2 DEF StartThreads, Enters, Restores
<1>3. ASSUME NEW w \in Servers, CreateTables(w) PROVE HostShape'
  BY <1>3 DEF CreateTables, Enters, Copies
<1>4. ASSUME NEW w \in Servers, CheckFile(w) PROVE HostShape'
  BY <1>4 DEF CheckFile, RestoreGoto, Restores, Off
<1>5. ASSUME NEW w \in Servers, Download(w) PROVE HostShape'
  <2>1. PICK r \in Restores : RestoreGoto(w, r)
    BY <1>5 DEF Download, Restores, Copies
  <2>2. restore[w] # Off
    BY <1>5 DEF Download, Off
  <2> QED
    BY <1>5, <2>1, <2>2 DEF Download, RestoreGoto
<1>6. ASSUME NEW w \in Servers, PlaceFile(w) PROVE HostShape'
  BY <1>6 DEF PlaceFile, RestoreGoto, Restores, Off, Copies
<1>7. ASSUME NEW w \in Servers, DailyBackup(w) PROVE HostShape'
  BY <1>7, SaverMoves DEF DailyBackup, Uploads
<1>8. ASSUME NEW w \in Servers, Insert(w) PROVE HostShape'
  <2>1. counts.rows + 1 \in Rows /\ db \in SUBSET Rows
    BY <1>8, StartupAssumption DEF Insert, Rows, Copies
  <2> QED
    BY <1>8, <2>1 DEF Insert, CountUp, Copies
<1>9. ASSUME NEW w \in Servers, StopWorker(w) PROVE HostShape'
  BY <1>9, SaverMoves DEF StopWorker, Enters, CountUp, Uploads
<1>10. ASSUME NEW W \in SUBSET Servers, Died(W),
              UNCHANGED <<now, latest>>,
              tmp' \in {Missing, tmp}, db' \in {Missing, db},
              UNCHANGED counts \/ CountUp("stops")
       PROVE  HostShape'
  BY <1>10 DEF Died, Copies, Restores, CountUp
<1>11. ASSUME NEW w \in Servers, Exit(w) \/ StartupKill(w) PROVE HostShape'
  BY <1>10, <1>11 DEF Exit, StartupKill
<1>12. CASE HostLost
  BY <1>10, <1>12 DEF HostLost
<1>13. CASE ClockTicks
  BY <1>13 DEF ClockTicks
<1>14. ASSUME NEW w \in Servers, NEW u \in Uploads,
              \/ CopyDb(w, u) \/ DeleteBackups(w, u)
              \/ SaveLatest(w, u) \/ SaveStamped(w, u)
       PROVE  HostShape'
  <2>1. \/ SaverEnds(w, u)
        \/ UNCHANGED loop /\ \E s : SaverGoto(w, u, s)
    BY <1>14 DEF CopyDb, DeleteBackups, SaveLatest, SaveStamped
  <2>2. PICK s : SaverGoto(w, u, s)
    BY <2>1, SaverStops
  <2>3. /\ DOMAIN loop' = Servers
        /\ \A v \in Servers : loop[v] = Missing => loop'[v] = Missing
    BY <2>1, SaverStops
  <2>4. tmp' \in Copies /\ latest' \in Copies /\ UNCHANGED db /\ KeepRest
    BY <1>14 DEF CopyDb, DeleteBackups, SaveLatest, SaveStamped, Copies
  <2> QED
    BY <2>2, <2>3, <2>4, SaverMoves DEF KeepRest
<1>15. CASE UNCHANGED startupVars
  BY <1>15 DEF startupVars
<1> QED
  BY <1>1, <1>2, <1>3, <1>4, <1>5, <1>6, <1>7, <1>8, <1>9, <1>11, <1>12, <1>13,
     <1>14, <1>15 DEF StartupNext

-----------------------------------------------------------------------------
(* Every step keeps what a restore relies on.  A file that a worker found  *)
(* at its start is removed by nobody but the loss of the host, which stops *)
(* the worker too, so that its restore finds the file and ends.            *)
LEMMA RestoreKept ==
    ASSUME HostShape, RestoreKnows, [StartupNext]_startupVars
    PROVE  RestoreKnows'
<1> USE DEF RestoreKnows, RestartKeepsRows, files, threads, startupHistory
<1>1. ASSUME NEW w \in Servers, Boot(w) PROVE RestoreKnows'
  BY <1>1 DEF HostShape, Boot, Off
<1>2. ASSUME NEW w \in Servers, StartThreads(w) PROVE RestoreKnows'
  BY <1>2 DEF HostShape, StartThreads
<1>3. ASSUME NEW w \in Servers, CreateTables(w) PROVE RestoreKnows'
  BY <1>3, StartupAssumption DEF CreateTables
<1>4. ASSUME NEW w \in Servers, CheckFile(w) PROVE RestoreKnows'
  BY <1>4 DEF HostShape, CheckFile, RestoreGoto, Off
<1>5. ASSUME NEW w \in Servers, Download(w) PROVE RestoreKnows'
  BY <1>5 DEF HostShape, Download, RestoreGoto, Off
<1>6. ASSUME NEW w \in Servers, PlaceFile(w) PROVE RestoreKnows'
  <2>1. restore[w].rows \in SUBSET Rows /\ ~hadFile[w]
    BY <1>6 DEF PlaceFile, HostShape, Restores, Off
  <2>2. db' # Missing
    BY <1>6, <2>1, StartupAssumption DEF PlaceFile
  <2>3. \A l \in lost' : ~l.beside
    BY <1>6, <2>1 DEF PlaceFile
  <2> QED
    BY <1>6, <2>2, <2>3 DEF PlaceFile, RestoreGoto, HostShape, Off
<1>7. ASSUME NEW w \in Servers, DailyBackup(w) PROVE RestoreKnows'
  BY <1>7 DEF DailyBackup
<1>8. ASSUME NEW w \in Servers, Insert(w) PROVE RestoreKnows'
  <2>1. db' \in SUBSET Rows
    BY <1>8, StartupAssumption DEF Insert, HostShape, Copies, Rows
  <2> QED
    BY <1>8, <2>1, StartupAssumption DEF Insert
<1>9. ASSUME NEW w \in Servers, StopWorker(w) PROVE RestoreKnows'
  BY <1>9 DEF StopWorker
<1>10. ASSUME NEW w \in Servers, Exit(w) \/ StartupKill(w) PROVE RestoreKnows'
  BY <1>10 DEF HostShape, Exit, StartupKill, Died, Off
<1>11. CASE HostLost
  BY <1>11 DEF HostShape, HostLost, Died, Off
<1>12. CASE ClockTicks
  BY <1>12 DEF ClockTicks
<1>13. ASSUME NEW w \in Servers, NEW u \in Uploads,
              \/ CopyDb(w, u) \/ DeleteBackups(w, u)
              \/ SaveLatest(w, u) \/ SaveStamped(w, u)
       PROVE  RestoreKnows'
  BY <1>13 DEF CopyDb, DeleteBackups, SaveLatest, SaveStamped, KeepRest
<1>14. CASE UNCHANGED startupVars
  BY <1>14 DEF startupVars
<1> QED
  BY <1>1, <1>2, <1>3, <1>4, <1>5, <1>6, <1>7, <1>8, <1>9, <1>10, <1>11, <1>12,
     <1>13, <1>14 DEF StartupNext

-----------------------------------------------------------------------------
(* What the invariant says of the snapshots, and a step that lets no       *)
(* upload begin to prune.                                                  *)
Snapshots == SnapshotShape /\ VictimsAreOld /\ BestIsKept
NoNewPrune ==
    \A w \in Servers, u \in Uploads :
       Pruning(w, u)' => Pruning(w, u) /\ saver'[w][u] = saver[w][u]

(* The instants of the snapshots are past, so that time only lets more of  *)
(* them expire.                                                            *)
LEMMA ExpiryIsFinal ==
    ASSUME HostShape, SnapshotShape, now' \in {now, now + 1}
    PROVE  \A f \in finished : ~Expired(f)' => ~Expired(f)
<1>1. Retention * Parts \in Nat
  BY StartupAssumption
<1>2. now \in Nat /\ \A f \in finished : f.at \in Nat
  BY DEF HostShape, SnapshotShape
<1>3. \A k, t, i \in Nat : t < i - k => t < i + 1 - k
  OBVIOUS
<1> QED
  BY <1>1, <1>2, <1>3 DEF Expired

(* Where no snapshot and no prune is new, all holds on, whatever the time. *)
LEMMA SnapshotsUntouched ==
    ASSUME HostShape, Snapshots, UNCHANGED <<stamped, finished>>, NoNewPrune,
           now' \in {now, now + 1}
    PROVE  Snapshots'
<1>1. SnapshotShape'
  <2>1. now \in Nat /\ \A f \in finished : f.at \in 0..now
    BY DEF HostShape, Snapshots, SnapshotShape
  <2>2. \A f \in finished : f.at \in 0..now'
    BY <2>1
  <2> QED
    BY <2>2 DEF Snapshots, SnapshotShape
<1>2. VictimsAreOld'
  BY DEF Snapshots, VictimsAreOld, NoNewPrune
<1>3. BestIsKept'
  <2>1. \A b : (Best(b)' => Best(b)) /\ (Spared(b) => Spared(b)')
    BY DEF Best, Spared, NoNewPrune
  <2> QED
    BY <2>1, ExpiryIsFinal DEF Snapshots, BestIsKept
<1> QED
  BY <1>1, <1>2, <1>3 DEF Snapshots

(* An upload lists what is superfluous, never the best of a day: what is   *)
(* listed beside it was written too.                                       *)
LEMMA CopyDbKeeps ==
    ASSUME HostShape, Snapshots, NEW w \in Servers, NEW u \in Uploads,
           CopyDb(w, u)
    PROVE  Snapshots'
<1>1. CASE SaverEnds(w, u)
  <2>1. NoNewPrune
    BY <1>1, SaverStops, SaverMoves DEF NoNewPrune, Pruning, SaverAt, Off
  <2> QED
    BY <2>1, SnapshotsUntouched DEF CopyDb, KeepRest
<1>2. CASE ~SaverEnds(w, u)
  <2>1. /\ SaverGoto(w, u, [at |-> "prune", victims |-> Superfluous])
        /\ UNCHANGED <<stamped, finished, now>>
    BY <1>2 DEF CopyDb, KeepRest
  <2>2. /\ saver'[w][u].victims = Superfluous
        /\ \A v \in Servers, x \in Uploads :
              <<v, x>> # <<w, u>> => saver'[v][x] = saver[v][x]
    BY <2>1, SaverMoves
  <2>3. SnapshotShape'
    BY <2>1 DEF Snapshots, SnapshotShape
  <2>4. VictimsAreOld'
    <3>1. \A v \in Superfluous : v.no \in 1..Cardinality(finished)
      BY DEF Superfluous, Snapshots, SnapshotShape
    <3> QED
      BY <2>1, <2>2, <3>1 DEF Snapshots, VictimsAreOld, Pruning, SaverAt
  <2>5. BestIsKept'
    <3>1. \A f \in finished : (Expired(f)' <=> Expired(f)) /\ (Best(f)' <=> Best(f))
      BY <2>1 DEF Expired, Best
    <3>2. ASSUME NEW f \in finished, ~Expired(f), Best(f)
          PROVE  f \in stamped /\ Spared(f)'
      <4>1. f \in stamped /\ Spared(f)
        BY <3>2 DEF Snapshots, BestIsKept
      <4>2. f \notin Superfluous
        BY <3>2 DEF Snapshots, SnapshotShape, Superfluous, Best
      <4>3. Spared(f)'
        BY <2>2, <4>1, <4>2 DEF Spared, Pruning, SaverAt
      <4> QED
        BY <4>1, <4>3
    <3> QED
      BY <2>1, <3>1, <3>2 DEF BestIsKept
  <2> QED
    BY <2>3, <2>4, <2>5 DEF Snapshots
<1> QED
  BY <1>1, <1>2

(* A prune deletes from its list, however late, and each best is spared.   *)
LEMMA DeleteBackupsKeeps ==
    ASSUME HostShape, Snapshots, NEW w \in Servers, NEW u \in Uploads,
           DeleteBackups(w, u)
    PROVE  Snapshots'
<1>1. PICK gone \in SUBSET saver[w][u].victims : stamped' = stamped \ gone
  BY DEF DeleteBackups
<1>2. Pruning(w, u) /\ UNCHANGED <<finished, now>>
  BY DEF DeleteBackups, KeepRest, Pruning
<1>3. SaverGoto(w, u, [at |-> "latest"])
  BY DEF DeleteBackups
<1>4. NoNewPrune
  BY <1>3, SaverMoves DEF NoNewPrune, Pruning, SaverAt
<1>5. SnapshotShape'
  BY <1>1, <1>2 DEF Snapshots, SnapshotShape
<1>6. VictimsAreOld'
  BY <1>2, <1>4 DEF Snapshots, VictimsAreOld, NoNewPrune
<1>7. BestIsKept'
  <2>1. SUFFICES ASSUME NEW f \in finished, ~Expired(f), Best(f)
                 PROVE  f \in stamped' /\ Spared(f)'
    BY <1>2 DEF BestIsKept, Expired, Best
  <2>2. f \in stamped /\ Spared(f)
    BY <2>1 DEF Snapshots, BestIsKept
  <2>3. f \in stamped'
    BY <1>1, <1>2, <2>2 DEF Spared
  <2> QED
    BY <1>4, <2>2, <2>3 DEF Spared, NoNewPrune
<1> QED
  BY <1>5, <1>6, <1>7 DEF Snapshots

(* A snapshot that is written is in S3, and no prune in progress can have  *)
(* listed it; one that it does not replace as the best of a day was that   *)
(* before.                                                                 *)
LEMMA SaveStampedKeeps ==
    ASSUME HostShape, Snapshots, NEW w \in Servers, NEW u \in Uploads,
           SaveStamped(w, u)
    PROVE  Snapshots'
<1>1. SaverGoto(w, u, Off)
  BY SaverStops DEF SaveStamped
<1>2. NoNewPrune
  BY <1>1, SaverMoves DEF NoNewPrune, Pruning, SaverAt, Off
<1>3. CASE UNCHANGED <<stamped, finished>>
  BY <1>2, <1>3, SnapshotsUntouched DEF SaveStamped, KeepRest
<1>4. CASE ~UNCHANGED <<stamped, finished>>
  <2> DEFINE n == Cardinality(finished)
  <2>1. PICK new :
           /\ new = [at |-> now, no |-> n + 1, rows |-> tmp]
           /\ tmp # Missing /\ now' = now
           /\ stamped' = stamped \cup {new}
           /\ finished' = finished \cup {new}
    BY <1>4 DEF SaveStamped, KeepRest
  <2>2. tmp \in SUBSET Rows /\ now \in Nat
    BY <2>1 DEF HostShape, Copies
  <2>3. IsFiniteSet(finished) /\ n \in Nat
    BY FS_CardinalityType DEF Snapshots, SnapshotShape
  <2>4. new \notin finished
    BY <2>1, <2>3 DEF Snapshots, SnapshotShape
  <2>5. IsFiniteSet(finished') /\ Cardinality(finished') = n + 1
    BY <2>1, <2>3, <2>4, FS_AddElement
  <2> HIDE DEF n
  <2>6. SnapshotShape'
    <3>1. ASSUME NEW f \in finished'
          PROVE  f.at \in 0..now /\ f.rows \in SUBSET Rows /\ f.no \in 1..(n + 1)
      <4>1. CASE f = new
        BY <2>1, <2>2, <2>3, <4>1
      <4>2. CASE f \in finished
        BY <2>3, <4>2 DEF Snapshots, SnapshotShape, n
      <4> QED
        BY <2>1, <4>1, <4>2
    <3>2. stamped' \subseteq finished'
      BY <2>1 DEF Snapshots, SnapshotShape
    <3> QED
      BY <2>1, <2>5, <3>1, <3>2 DEF SnapshotShape
  <2>7. VictimsAreOld'
    <3>1. \A k \in 1..n : k \in 1..(n + 1)
      BY <2>3
    <3> QED
      BY <1>2, <2>5, <3>1 DEF Snapshots, VictimsAreOld, NoNewPrune, n
  <2>8. Spared(new)'
    <3>1. n + 1 \notin 1..n
      BY <2>3
    <3>2. \A v \in Servers, x \in Uploads : Pruning(v, x) =>
             \A t \in saver[v][x].victims : t.no \in 1..n
      BY DEF Snapshots, VictimsAreOld, n
    <3>3. \A v \in Servers, x \in Uploads :
             Pruning(v, x) => new \notin saver[v][x].victims
      BY <2>1, <3>1, <3>2
    <3> QED
      BY <1>2, <3>3 DEF NoNewPrune, Spared
  <2>9. BestIsKept'
    <3>1. SUFFICES ASSUME NEW f \in finished, ~Expired(f), Best(f)
                   PROVE  f \in stamped' /\ Spared(f)'
      BY <2>1, <2>8 DEF BestIsKept, Expired, Best
    <3>2. f \in stamped /\ Spared(f)
      BY <3>1 DEF Snapshots, BestIsKept
    <3> QED
      BY <1>2, <2>1, <3>2 DEF Spared, NoNewPrune
  <2> QED
    BY <2>6, <2>7, <2>9 DEF Snapshots
<1> QED
  BY <1>3, <1>4

(* Every step keeps the best snapshot of each day within the retention.    *)
LEMMA PruningKeeps ==
    ASSUME HostShape, Snapshots, [StartupNext]_startupVars
    PROVE  Snapshots'
<1> USE DEF files, threads, startupHistory
<1>1. ASSUME UNCHANGED <<stamped, finished, now, saver>> PROVE Snapshots'
  BY <1>1, SnapshotsUntouched DEF NoNewPrune, Pruning, SaverAt
<1>2. ASSUME NEW w \in Servers,
             \/ Boot(w) \/ StartThreads(w) \/ CreateTables(w) \/ CheckFile(w)
             \/ Download(w) \/ PlaceFile(w) \/ Insert(w)
      PROVE  Snapshots'
  BY <1>1, <1>2 DEF Boot, StartThreads, CreateTables, CheckFile, Download,
                    PlaceFile, Insert
<1>3. ASSUME NEW w \in Servers, DailyBackup(w) PROVE Snapshots'
  <2>1. SaverGoto(w, "daily", [at |-> "copy"])
    BY <1>3 DEF DailyBackup
  <2>2. NoNewPrune
    BY <2>1, SaverMoves DEF NoNewPrune, Pruning, SaverAt, Uploads
  <2> QED
    BY <1>3, <2>2, SnapshotsUntouched DEF DailyBackup
<1>4. ASSUME NEW w \in Servers, StopWorker(w) PROVE Snapshots'
  <2>1. SaverGoto(w, "exit", [at |-> "copy"])
    BY <1>4 DEF StopWorker
  <2>2. NoNewPrune
    BY <2>1, SaverMoves DEF NoNewPrune, Pruning, SaverAt, Uploads
  <2> QED
    BY <1>4, <2>2, SnapshotsUntouched DEF StopWorker
<1>5. ASSUME NEW W \in SUBSET Servers, Died(W),
             UNCHANGED <<stamped, finished, now>>
      PROVE  Snapshots'
  <2>1. NoNewPrune
    BY <1>5 DEF Died, NoNewPrune, Pruning, SaverAt, Off
  <2> QED
    BY <1>5, <2>1, SnapshotsUntouched
<1>6. ASSUME NEW w \in Servers, Exit(w) \/ StartupKill(w) PROVE Snapshots'
  BY <1>5, <1>6 DEF Exit, StartupKill
<1>7. CASE HostLost
  BY <1>5, <1>7 DEF HostLost
<1>8. CASE ClockTicks
  BY <1>8, SnapshotsUntouched DEF ClockTicks, NoNewPrune, Pruning, SaverAt
<1>9. ASSUME NEW w \in Servers, NEW u \in Uploads, SaveLatest(w, u)
      PROVE  Snapshots'
  <2>1. SaverGoto(w, u, Off) \/ SaverGoto(w, u, [at |-> "stamp"])
    BY <1>9, SaverStops DEF SaveLatest
  <2>2. NoNewPrune
    BY <2>1, SaverMoves DEF NoNewPrune, Pruning, SaverAt, Off
  <2> QED
    BY <1>9, <2>2, SnapshotsUntouched DEF SaveLatest, KeepRest
<1>10. CASE UNCHANGED startupVars
  BY <1>1, <1>10 DEF startupVars
<1> QED
  BY <1>2, <1>3, <1>4, <1>6, <1>7, <1>8, <1>9, <1>10, CopyDbKeeps,
     DeleteBackupsKeeps, SaveStampedKeeps DEF StartupNext

-----------------------------------------------------------------------------
(* The invariant holds of every behaviour of db_backup.py and the lifespan *)
(* of main.py, for any number of workers, days, rows and restarts.         *)
THEOREM HostInvariant == StartupSpec => []HostInv
<1>1. ASSUME HostInv, [StartupNext]_startupVars PROVE HostInv'
  BY <1>1, HostShapeKept, RestoreKept, PruningKeeps DEF HostInv, Snapshots
<1> QED
  BY <1>1, HostInitially, PTL DEF StartupSpec

(* Every reachable state has the types of StartupTypeOK: the lock of the   *)
(* start-up is held by a worker that is starting, and a worker that is     *)
(* down runs neither a restore nor a backup loop.                          *)
THEOREM StartupTypeCorrect == StartupSpec => []StartupTypeOK
<1>1. HostInv => StartupTypeOK
  BY DEF HostInv, HostShape, SnapshotShape, StartupTypeOK, Copies
<1> QED
  BY <1>1, HostInvariant, PTL

(* download_db_from_s3 overwrites no row of a database that was there when *)
(* its worker started.  (One that was created since then it overwrites.)   *)
THEOREM RestartsKeepRows == StartupSpec => []RestartKeepsRows
<1>1. HostInv => RestartKeepsRows
  BY DEF HostInv, RestoreKnows
<1> QED
  BY <1>1, HostInvariant, PTL

(* prune_old_backups leaves the largest snapshot of each day, the newest   *)
(* of these, until the instant at which its retention ends, whatever       *)
(* several workers list, delete late, fail to delete and save.             *)
THEOREM BackupsAreKept == StartupSpec => []SnapshotsKept
<1>1. HostInv => SnapshotsKept
  BY DEF HostInv, BestIsKept, Best, SnapshotsKept
<1> QED
  BY <1>1, HostInvariant, PTL
=============================================================================
