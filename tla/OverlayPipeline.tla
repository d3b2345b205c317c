-------------------------- MODULE OverlayPipeline --------------------------
(***************************************************************************)
(* How a dispatch miss becomes a native candidate when the sljit tier is   *)
(* on: the dispatch thread enqueues a snapshot (CompileWorker), the worker *)
(* renames a finished shard into the on-disk cache and raises a flag, and  *)
(* a later miss exchanges the flag, enumerates the directory and registers *)
(* what it has not loaded yet (overlay_loader.c).  The flag and the        *)
(* directory are shared without a lock, and the process may die at any     *)
(* point and come back to the directory it left.                           *)
(*                                                                         *)
(* A key is <<entry address, contents of the snapshot window>>; a file is  *)
(* <<entry address, contents of the compiled range>>, so two keys may give *)
(* one file.                                                               *)
(***************************************************************************)
EXTENDS CompileWorker, Functions

CONSTANTS
    FileOf,       \* the file a compiled key is published as
    TRIED_CAP,    \* MAX_SLJIT_TRIED: capacity of the memo of tried addresses
    CAND_CAP,     \* capacity of the candidate table
    BLOB_CAP      \* MAX_LOADED_BLOBS: capacity of the memo of loaded files

Phys == {k[1] : k \in Keys}
Files == Range(FileOf)

ASSUME PipelineAssumption ==
    /\ FileOf \in [Keys -> Files] /\ IsFiniteSet(Files)
    /\ \A k \in Keys : FileOf[k][1] = k[1]
    /\ TRIED_CAP \in Nat /\ CAND_CAP \in Nat /\ BLOB_CAP \in Nat

VARIABLES
    disk,       \* the complete .sljit files of the cache directory
    dirty,      \* s_async_cache_dirty
    pub,        \* how far the worker is with the item it compiles
    dpc,        \* where the dispatch thread is in overlay_loader_dispatch
    miss,       \* the address it missed on
    todo,       \* files the running directory scan must still return
    visited,    \* files it has returned
    cand,       \* registered shards, in table order
    blobs,      \* s_loaded_blobs
    dll,        \* addresses that have a DLL candidate
    tried,      \* s_sljit_tried
    skipped     \* files a scan of this session could not load

scanVars == <<dpc, miss, todo, visited>>
tableVars == <<cand, blobs, dll, tried, skipped>>
pvars == <<vars, disk, dirty, pub, scanVars, tableVars>>

PipelineTypeOK ==
    /\ TypeOK
    /\ disk \subseteq Files /\ dirty \in BOOLEAN
    /\ pub \in {"none", "renamed", "lost"}
    /\ dpc \in {"init", "idle", "scan", "lookup"}
    /\ miss \in Phys \cup {NoKey}
    /\ todo \subseteq disk /\ visited \subseteq disk
    /\ cand \in Seq(Files) /\ Len(cand) <= CAND_CAP
    /\ blobs \subseteq Files /\ Cardinality(blobs) <= BLOB_CAP
    /\ dll \subseteq Phys
    /\ tried \subseteq Phys /\ Cardinality(tried) <= TRIED_CAP
    /\ skipped \subseteq Files

\* overlay_loader.c's statics in a session that has not yet scanned the cache.
PipelineInit ==
    /\ Init /\ disk = {}
    /\ dirty = FALSE /\ pub = "none"
    /\ dpc = "init" /\ miss = NoKey /\ todo = {} /\ visited = {}
    /\ cand = <<>> /\ blobs = {} /\ dll = {} /\ tried = {} /\ skipped = {}

----------------------------------------------------------------------------
(* The worker's side: overlay_loader_async_publish. *)

\* An accepted fragment is written to a temporary file and renamed into place;
\* a failed open, write or rename loses it.
PublishFile ==
    /\ wpc = "compile" /\ pub = "none"
    /\ \/ pub' = "renamed" /\ disk' = disk \cup {FileOf[it]}
       \/ pub' = "lost" /\ UNCHANGED disk
    /\ UNCHANGED <<vars, dirty, scanVars, tableVars>>

\* The rest of the publish, which raises the flag if the file is in place, and of
\* the compile; without a publish the fragment was declined.
PublishFlag ==
    /\ WorkerCompile(pub # "none")
    /\ dirty' = (dirty \/ pub = "renamed")
    /\ pub' = "none"
    /\ UNCHANGED <<disk, scanVars, tableVars>>

----------------------------------------------------------------------------
(* The dispatch thread's side. *)

\* idx_head(p) >= 0.
HasHead(p) == p \in dll \/ \E i \in 1..Len(cand) : cand[i][1] = p

\* overlay_loader_init: the scan of the files an earlier session left.
BootScan ==
    /\ dpc = "init" /\ caller = "boot"
    /\ dpc' = "scan" /\ todo' = disk /\ visited' = {}
    /\ UNCHANGED <<vars, disk, dirty, pub, miss, tableVars>>

\* Mutant: the flag is cleared only after the scan.
ClearedLate(leaves) == dirty /\ ~ leaves

\* The exchange clears the flag before the directory is read.
Cleared(leaves) == dirty /\ leaves

\* A dispatch of an address without candidates, up to the exchange of the flag.
MissBegin(p) ==
    /\ caller = "run" /\ dpc = "idle"
    /\ ~ HasHead(p)
    /\ miss' = p
    /\ dpc' = IF dirty THEN "scan" ELSE "lookup"
    /\ todo' = IF dirty THEN disk ELSE {}
    /\ visited' = {}
    /\ dirty' = Cleared(FALSE)
    /\ UNCHANGED <<vars, disk, pub, tableVars>>

\* FindFirstFile / FindNextFile return every file that was there when the
\* enumeration began, and may or may not return one renamed in since.
Listed == todo \cup (disk \ visited)

\* Mutant: the memo of loaded files is not consulted.
BlobUnknown(f) == TRUE

\* ~ blob_already_loaded(f).
BlobNew(f) == f \notin blobs

\* Mutant: a file that could not be read is remembered as loaded.
RememberedAlways(f, read) == IF Cardinality(blobs) < BLOB_CAP THEN blobs \cup {f} ELSE blobs

\* blob_mark_loaded, reached only when the shard was read and registered.
Remembered(f, read) ==
    IF read /\ Cardinality(blobs) < BLOB_CAP THEN blobs \cup {f} ELSE blobs

\* One file of the scan: already loaded, unreadable, or registered (which a full
\* table turns into nothing).
ScanFile(f) ==
    /\ dpc = "scan" /\ f \in Listed
    /\ todo' = todo \ {f}
    /\ visited' = visited \cup {f}
    /\ \/ /\ ~ BlobNew(f)
          /\ UNCHANGED <<cand, blobs, skipped>>
       \/ /\ BlobNew(f)
          /\ skipped' = skipped \cup {f}
          /\ blobs' = Remembered(f, FALSE)
          /\ UNCHANGED cand
       \/ /\ BlobNew(f)
          /\ cand' = IF Len(cand) < CAND_CAP THEN Append(cand, f) ELSE cand
          /\ blobs' = Remembered(f, TRUE)
          /\ skipped' = skipped \ {f}
    /\ UNCHANGED <<vars, disk, dirty, pub, dpc, miss, dll, tried>>

\* Mutant: the enumeration may stop early.
ScanCompleteEarly == TRUE

ScanComplete == todo = {}

ScanEnd ==
    /\ dpc = "scan" /\ ScanComplete
    /\ dpc' = IF caller = "boot" THEN "idle" ELSE "lookup"
    /\ dirty' = IF caller = "boot" THEN dirty ELSE Cleared(TRUE)
    /\ todo' = {} /\ visited' = {}
    /\ UNCHANGED <<vars, disk, pub, miss, tableVars>>

\* sljit_mark_tried: a full memo forgets the address.
TriedWith(p) == IF Cardinality(tried) < TRIED_CAP THEN tried \cup {p} ELSE tried

MissDone ==
    /\ dpc' = "idle" /\ miss' = NoKey
    /\ UNCHANGED <<todo, visited, disk, dirty, pub>>

\* The scan found a shard for the address.
MissHit ==
    /\ dpc = "lookup" /\ HasHead(miss)
    /\ MissDone
    /\ UNCHANGED <<vars, tableVars>>

\* try_load_region found a DLL for it.
MissLoad ==
    /\ dpc = "lookup" /\ ~ HasHead(miss)
    /\ dll' = dll \cup {miss}
    /\ MissDone
    /\ UNCHANGED <<vars, cand, blobs, tried, skipped>>

\* Nothing covers it: unless the address was tried before, its live bytes (the
\* key) are offered to the worker once, whether or not it takes them.
MissEnqueue(k) ==
    /\ dpc = "lookup" /\ ~ HasHead(miss) /\ k[1] = miss
    /\ miss \notin tried
    /\ tried' = TriedWith(miss)
    /\ \/ Enqueue(k)
       \/ /\ ~ s_thread \/ MutexFree
          /\ ~ s_thread \/ Known(k) \/ ~ QueueHasRoom \/ Len(Evicted) >= STATE_CAP
          /\ UNCHANGED vars
    /\ MissDone
    /\ UNCHANGED <<cand, blobs, dll, skipped>>

\* The address was tried, or its page holds no runtime-written code: interpret.
MissInterpret ==
    /\ dpc = "lookup" /\ ~ HasHead(miss)
    /\ MissDone
    /\ UNCHANGED <<vars, tableVars>>

----------------------------------------------------------------------------
(* The session. *)

\* overlay_loader_init starts the worker after its scan.
Boot ==
    /\ Start /\ dpc = "idle"
    /\ UNCHANGED <<disk, dirty, pub, scanVars, tableVars>>

\* shutdown_runtime runs on the dispatch thread, between two dispatches.
Shutdown ==
    /\ (StopSignal /\ dpc = "idle") \/ StopJoin
    /\ UNCHANGED <<disk, dirty, pub, scanVars, tableVars>>

\* The process ends (after a shutdown, or killed at any point) and is started
\* again: only the directory survives.
Restart ==
    /\ s_thread' = FALSE /\ s_running' = FALSE /\ wpc' = "none" /\ caller' = "boot"
    /\ s_q' = <<>> /\ s_state' = <<>> /\ it' = NoKey /\ ok' = FALSE
    /\ s_enq' = 0 /\ s_done' = 0 /\ s_failed' = 0 /\ snaps' = 0
    /\ dirty' = FALSE /\ pub' = "none"
    /\ dpc' = "init" /\ miss' = NoKey /\ todo' = {} /\ visited' = {}
    /\ cand' = <<>> /\ blobs' = {} /\ dll' = {} /\ tried' = {} /\ skipped' = {}
    /\ UNCHANGED disk

WorkerInternal ==
    /\ WorkerLock \/ WorkerWait \/ WorkerExit \/ WorkerPop \/ WorkerFinish \/ SpuriousWake
    /\ UNCHANGED <<disk, dirty, pub, scanVars, tableVars>>

ScanStep == ScanEnd \/ \E f \in Files : ScanFile(f)

MissStep ==
    \/ MissHit \/ MissLoad \/ MissInterpret
    \/ \E k \in Keys : MissEnqueue(k)

PipelineNext ==
    \/ BootScan \/ Boot
    \/ \E p \in Phys : MissBegin(p)
    \/ ScanStep
    \/ MissStep
    \/ WorkerInternal \/ PublishFile \/ PublishFlag
    \/ Shutdown \/ Restart

PipelineSpec == PipelineInit /\ [][PipelineNext]_pvars

(***************************************************************************)
(* The dispatch thread finishes the dispatch it is in, and the worker is   *)
(* scheduled.  That the guest misses again is not assumed.                 *)
(***************************************************************************)
FairPipelineSpec ==
    /\ PipelineSpec
    /\ WF_pvars(ScanStep) /\ WF_pvars(MissStep)
    /\ WF_pvars(PublishFlag) /\ WF_pvars(WorkerInternal)

----------------------------------------------------------------------------
(* Properties. *)

Registered(f) == \E i \in 1..Len(cand) : cand[i] = f

\* A published shard is never forgotten: once the session has scanned the cache,
\* every file is registered, or was tried and could not be read, or the running
\* scan is bound to return it, or the flag will make the next miss rescan, or the
\* worker is between the rename and the flag.  The exchange before the directory
\* read and the flag after the rename are both needed.
NoForgottenShard ==
    dpc # "init" => \A f \in disk :
        \/ Registered(f) \/ f \in skipped
        \/ f \in todo
        \/ dirty
        \/ pub = "renamed" /\ FileOf[it] = f
        \/ Len(cand) >= CAND_CAP

\* However often the directory is rescanned, and however many keys compile to one
\* file, a shard has one candidate as long as the memo of loaded files has room.
RegisteredOnce ==
    Cardinality(Files) <= BLOB_CAP =>
        \A i, j \in 1..Len(cand) : cand[i] = cand[j] => i = j

\* The memo never hides a file that is not in the table: what could not be read is
\* read again by the next scan.
MemoMeansRegistered ==
    \A f \in blobs : Registered(f) \/ Len(cand) >= CAND_CAP

\* If the guest keeps missing, a published shard is registered, found unreadable,
\* or crowded out, unless the process is restarted over and over before the scan.
PublishedIsPickedUp ==
    ([]<>(dpc = "lookup") /\ <>[](caller = "run")) =>
        \A f \in Files : (f \in disk) ~> (Registered(f) \/ f \in skipped \/ Len(cand) >= CAND_CAP)
=============================================================================
