----------------------------- MODULE CoverCache -----------------------------
(***************************************************************************)
(* The cache of one cover (cover_cache.py): its object in S3 under a fixed *)
(* key, the file of the disk cache every process shares, and the entry in  *)
(* the memory of each process.  A body is the number of the upload that    *)
(* made it.                                                                *)
(*                                                                         *)
(* resolve_cover runs on the event loop of its process, except for the     *)
(* disk and S3 accesses, which run in threads and so interleave even with  *)
(* a handler that never awaits: Free(p) guards the steps on the loop.      *)
(*                                                                         *)
(* Bounds of the model: MaxLoads, MaxUploads.                              *)
(***************************************************************************)
EXTENDS Integers, FiniteSets

CONSTANTS
    Procs,      \* server processes
    Loaders,    \* cover requests in progress at a time
    MaxLoads,   \* cover requests in all
    MaxUploads, \* covers uploaded
    None        \* no object, no file, no entry

VARIABLES
    cover,      \* body of the object in S3, or None
    uploads,    \* covers uploaded so far
    mem,        \* _mem of each process at this key, or None
    disk,       \* the file of the disk cache: a body, Torn, or None
    load,       \* the resolve_cover calls in progress
    loads,      \* calls so far
    task,       \* the request that writes in each process
    last,       \* history: process of the last invalidation
    overlapped, \* history: the last invalidation overlapped other work
    torn        \* history: a half-written file was read, or left by a kill

coverVars == <<cover, uploads>>
cacheVars == <<mem, disk, load, loads>>
cacheHistory == <<last, overlapped, torn>>

(* There may be a cover before anything happens.                           *)
ASSUME CacheAssumption == MaxUploads \in Nat \ {0}

Torn == 0
Bodies == 1..MaxUploads
Resting == [at |-> "idle"]

CacheTypeOK ==
    /\ cover \in Bodies \cup {None} /\ uploads \in 0..MaxUploads
    /\ mem \in [Procs -> Bodies \cup {None, Torn}]
    /\ disk \in Bodies \cup {None, Torn}
    /\ \A l \in Loaders :
          load[l].at \in {"idle", "disk", "got", "s3", "fetched", "write",
                          "writing", "unlinked"}

CacheInit ==
    /\ \/ cover = None /\ uploads = 0
       \/ cover = 1 /\ uploads = 1
    /\ mem = [p \in Procs |-> None] /\ disk = None
    /\ load = [l \in Loaders |-> Resting] /\ loads = 0
    /\ last = None /\ overlapped = FALSE /\ torn = FALSE

(* A handler that holds the loop of p until its next await.                *)
Holding(p) == task[p].at \in {"drop", "forget", "put", "commit"}
Free(p) == ~Holding(p)
Loading == \E l \in Loaders : load[l].at # "idle"

LoadGoto(l, k) == load' = [load EXCEPT ![l] = k]
LoadAt(l, at) == load[l].at = at

-----------------------------------------------------------------------------
(* The memory has the cover, or the disk is asked.                         *)
StartLoad(l, p) ==
    /\ LoadAt(l, "idle") /\ Free(p)
    /\ loads < MaxLoads /\ loads' = loads + 1
    /\ IF mem[p] # None THEN UNCHANGED load
       ELSE LoadGoto(l, [at |-> "disk", proc |-> p])
    /\ UNCHANGED <<coverVars, mem, disk, task, cacheHistory>>

(* _disk_get_sync, in a thread; the file may be half written.              *)
ReadDisk(l) ==
    /\ LoadAt(l, "disk")
    /\ LoadGoto(l, [at |-> "got", proc |-> load[l].proc, body |-> disk])
    /\ torn' = (torn \/ disk = Torn)
    /\ UNCHANGED <<coverVars, mem, disk, loads, task, last, overlapped>>

(* _mem_put and done, or S3 is asked.                                      *)
AfterDisk(l) ==
    LET p == load[l].proc IN
    /\ LoadAt(l, "got") /\ Free(p)
    /\ IF load[l].body # None
       THEN /\ mem' = [mem EXCEPT ![p] = load[l].body]
            /\ LoadGoto(l, Resting)
       ELSE /\ LoadGoto(l, [at |-> "s3", proc |-> p])
            /\ UNCHANGED mem
    /\ UNCHANGED <<coverVars, disk, loads, task, cacheHistory>>

(* _load_from_s3, in threads; no object and the timeout of 15 s both end   *)
(* the request with 404.                                                   *)
GetObject(l) ==
    /\ LoadAt(l, "s3")
    /\ \/ LoadGoto(l, Resting)
       \/ /\ cover # None
          /\ LoadGoto(l, [at |-> "fetched", proc |-> load[l].proc,
                          body |-> cover])
    /\ UNCHANGED <<coverVars, mem, disk, loads, task, cacheHistory>>

AfterObject(l) ==
    LET p == load[l].proc IN
    /\ LoadAt(l, "fetched") /\ Free(p)
    /\ mem' = [mem EXCEPT ![p] = load[l].body]
    /\ LoadGoto(l, [load[l] EXCEPT !.at = "write"])
    /\ UNCHANGED <<coverVars, disk, loads, task, cacheHistory>>

(* _disk_put_sync truncates the file and then writes it.                   *)
OpenFile(l) ==
    /\ LoadAt(l, "write")
    /\ disk' = Torn
    /\ LoadGoto(l, [load[l] EXCEPT !.at = "writing"])
    /\ UNCHANGED <<coverVars, mem, loads, task, cacheHistory>>

(* What is written after the file was unlinked reaches nobody.             *)
WriteFile(l) ==
    /\ load[l].at \in {"writing", "unlinked"}
    /\ disk' = IF LoadAt(l, "writing") THEN load[l].body ELSE disk
    /\ LoadGoto(l, Resting)
    /\ UNCHANGED <<coverVars, mem, loads, task, cacheHistory>>

(* MEM_MAX_ITEMS other covers push the entry out.                          *)
Evict(p) ==
    /\ Free(p) /\ mem[p] # None
    /\ mem' = [mem EXCEPT ![p] = None]
    /\ UNCHANGED <<coverVars, disk, load, loads, task, cacheHistory>>

(* Mutant of Forgotten: the file is left to be found again.                *)
Forgotten_MemoryOnly(p) ==
    /\ mem' = [mem EXCEPT ![p] = None]
    /\ last' = p
    /\ overlapped' = (Loading \/ \E q \in Procs \ {p} : task[q].at = "put")
    /\ UNCHANGED <<disk, load>>

(* invalidate: memory of this process and the file, not the memory of      *)
(* other processes and not the loads in progress.                          *)
Forgotten(p) ==
    /\ mem' = [mem EXCEPT ![p] = None]
    /\ disk' = None
    /\ load' = [l \in Loaders |->
                  IF LoadAt(l, "writing")
                  THEN [load[l] EXCEPT !.at = "unlinked"] ELSE load[l]]
    /\ last' = p
    /\ overlapped' = (Loading \/ \E q \in Procs \ {p} : task[q].at = "put")

(* The process is killed.                                                  *)
CacheKilled(p) ==
    /\ mem' = [mem EXCEPT ![p] = None]
    /\ load' = [l \in Loaders |->
                  IF load[l].at # "idle" /\ load[l].proc = p
                  THEN Resting ELSE load[l]]
    /\ torn' = (torn \/ \E l \in Loaders :
                            LoadAt(l, "writing") /\ load[l].proc = p)
    /\ UNCHANGED <<coverVars, disk, loads, last, overlapped>>

LoadNext ==
    \/ \E l \in Loaders :
          \/ ReadDisk(l)
          \/ AfterDisk(l)
          \/ GetObject(l)
          \/ AfterObject(l)
          \/ OpenFile(l)
          \/ WriteFile(l)
    \/ \E p \in Procs : Evict(p)

-----------------------------------------------------------------------------
(* When an invalidation overlapped no other request on this cover, and no  *)
(* half-written file was read or left behind, the disk and the memory of   *)
(* the process that invalidated hold the cover that is in S3 or nothing.   *)
(* The memory of the other processes is promised nothing: it keeps what it *)
(* has until it is evicted.                                                *)
CoverIsCurrent ==
    (/\ last # None /\ cover # None
     /\ ~overlapped /\ ~torn)
    => /\ mem[last] \in {None, cover}
       /\ disk \in {None, cover} \/ (disk = Torn /\ Loading)
=============================================================================
