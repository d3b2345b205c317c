--------------------------- MODULE CompileWorker ---------------------------
(***************************************************************************)
(* The background sljit compile worker (overlay_compile_worker.c): a       *)
(* bounded work queue and a dedup map shared, under one mutex, by the      *)
(* dispatch thread (start / enqueue / stop) and the worker thread.         *)
(*                                                                         *)
(* A work item is identified by its (phys, crc) pair, a member of Keys;    *)
(* the bytes it carries are a heap snapshot that is only counted.  The     *)
(* ring s_q is the sequence of the items it holds, oldest first (WorkRing  *)
(* shows that the array with its head and tail is such a sequence).        *)
(***************************************************************************)
EXTENDS Naturals, Sequences, FiniteSets

CONSTANTS
    Keys,       \* the (phys, crc) pairs the dispatch thread may miss on
    NoKey,      \* "no item in the worker's hands"
    WQ_CAP,     \* capacity of the work queue (256 in the code)
    STATE_CAP,  \* capacity of the dedup map (4096 in the code)
    MaxEnq      \* bound of the model: how many enqueues are explored

ASSUME WorkerAssumption ==
    /\ NoKey \notin Keys
    /\ WQ_CAP \in Nat \ {0}
    /\ STATE_CAP \in Nat \ {0}
    /\ MaxEnq \in Nat

VARIABLES
    s_thread,   \* the dispatch thread holds a worker handle
    s_running,  \* the flag the worker polls
    s_q,        \* queued items, oldest first
    s_state,    \* the dedup map, in array order
    s_enq, s_done, s_failed,
    wpc,        \* control point of worker_main
    it,         \* the item worker_main popped
    ok,         \* its outcome, between the compile and the relock
    snaps,      \* heap snapshots allocated and not freed
    caller      \* where the dispatch thread is in start .. stop

vars == <<s_thread, s_running, s_q, s_state, s_enq, s_done, s_failed,
          wpc, it, ok, snaps, caller>>

States == {"QUEUED", "COMPILING", "DONE", "FAILED"}
Entry == [key : Keys, st : States]

(***************************************************************************)
(* worker_main holds s_mtx exactly at "check"; it has not yet acquired it  *)
(* at "start", "woken" and "finish", and released it everywhere else.      *)
(***************************************************************************)
WorkerPoints == {"none", "start", "check", "waiting", "woken",
                 "compile", "finish", "exited"}

TypeOK ==
    /\ s_thread \in BOOLEAN
    /\ s_running \in BOOLEAN
    /\ s_q \in Seq(Keys)
    /\ s_state \in Seq(Entry)
    /\ s_enq \in Nat
    /\ s_done \in Nat
    /\ s_failed \in Nat
    /\ wpc \in WorkerPoints
    /\ it \in Keys \cup {NoKey}
    /\ ok \in BOOLEAN
    /\ snaps \in Nat
    /\ caller \in {"boot", "run", "join", "down"}

MutexFree == wpc # "check"

Init ==
    /\ s_thread = FALSE
    /\ s_running = FALSE
    /\ s_q = <<>>
    /\ s_state = <<>>
    /\ s_enq = 0 /\ s_done = 0 /\ s_failed = 0
    /\ wpc = "none"
    /\ it = NoKey
    /\ ok = FALSE
    /\ snaps = 0
    /\ caller = "boot"

----------------------------------------------------------------------------
(* The dedup map. *)

\* Mutant: the dedup forgets the item being compiled.
KnownUnlessCompiling(k) ==
    \E i \in 1..Len(s_state) : s_state[i].key = k /\ s_state[i].st # "COMPILING"

\* state_find: is there an entry for k?
Known(k) == \E i \in 1..Len(s_state) : s_state[i].key = k

\* state_find(k)->state = st, for every entry state_find could return.
Marked(k, st) ==
    [i \in 1..Len(s_state) |->
        IF s_state[i].key = k THEN [s_state[i] EXCEPT !.st = st] ELSE s_state[i]]

\* Mutant: the eviction may take an entry in flight.
FinishedOrCompiling(e) == e.st # "QUEUED"

\* The states an entry may be evicted in.
Finished(e) == e.st = "DONE" \/ e.st = "FAILED"

\* Mutant: no eviction.
EvictedNever == s_state

\* The array after the eviction loop of state_add: a full map loses its first
\* finished entry, whose slot takes the last entry.
Evicted ==
    LET n == Len(s_state)
        first(i) == /\ Finished(s_state[i])
                    /\ \A j \in 1..(i - 1) : ~ Finished(s_state[j])
    IN IF n >= STATE_CAP /\ \E i \in 1..n : Finished(s_state[i])
       THEN LET i == CHOOSE i \in 1..n : first(i)
            IN [j \in 1..(n - 1) |-> IF j = i THEN s_state[n] ELSE s_state[j]]
       ELSE s_state

----------------------------------------------------------------------------
(* The dispatch thread. *)

\* overlay_compile_worker_start: SDL_CreateThread may fail.
Start ==
    /\ caller = "boot"
    /\ caller' = "run"
    /\ \/ /\ s_thread' = TRUE
          /\ s_running' = TRUE
          /\ wpc' = "start"
       \/ UNCHANGED <<s_thread, s_running, wpc>>
    /\ UNCHANGED <<s_q, s_state, s_enq, s_done, s_failed, it, ok, snaps>>

\* Mutant: no signal.
SignalledNever == wpc

\* SDL_CondSignal wakes the worker if it waits and is lost otherwise.
Signalled == IF wpc = "waiting" THEN "woken" ELSE wpc

QueueHasRoom == Len(s_q) < WQ_CAP

\* overlay_compile_worker_enqueue, past its early returns: the key is new, the
\* queue has room and (after the eviction) so has the map.  A failed malloc is
\* the stuttering step.
Enqueue(k) ==
    /\ caller = "run" /\ s_thread /\ MutexFree
    /\ s_enq < MaxEnq
    /\ ~ Known(k)
    /\ QueueHasRoom
    /\ Len(Evicted) < STATE_CAP
    /\ s_state' = Append(Evicted, [key |-> k, st |-> "QUEUED"])
    /\ s_q' = Append(s_q, k)
    /\ snaps' = snaps + 1
    /\ s_enq' = s_enq + 1
    /\ wpc' = Signalled
    /\ UNCHANGED <<s_thread, s_running, s_done, s_failed, it, ok, caller>>

\* overlay_compile_worker_stop up to SDL_WaitThread; without a worker it returns.
StopSignal ==
    /\ caller = "run"
    /\ \/ /\ s_thread /\ MutexFree
          /\ s_running' = FALSE
          /\ wpc' = Signalled
          /\ caller' = "join"
       \/ /\ ~ s_thread
          /\ caller' = "down"
          /\ UNCHANGED <<s_running, wpc>>
    /\ UNCHANGED <<s_thread, s_q, s_state, s_enq, s_done, s_failed, it, ok, snaps>>

\* The rest of overlay_compile_worker_stop: the join returns, and whatever is
\* still queued is freed.
StopJoin ==
    /\ caller = "join" /\ wpc = "exited"
    /\ s_thread' = FALSE
    /\ snaps' = snaps - Len(s_q)
    /\ s_q' = <<>>
    /\ caller' = "down"
    /\ wpc' = "none"
    /\ UNCHANGED <<s_running, s_state, s_enq, s_done, s_failed, it, ok>>

----------------------------------------------------------------------------
(* worker_main. *)

\* SDL_LockMutex on entry, and the relock inside SDL_CondWait.
WorkerLock ==
    /\ wpc \in {"start", "woken"}
    /\ wpc' = "check"
    /\ UNCHANGED <<s_thread, s_running, s_q, s_state, s_enq, s_done, s_failed,
                   it, ok, snaps, caller>>

\* SDL_CondWait may also return without a signal.
SpuriousWake ==
    /\ wpc = "waiting"
    /\ wpc' = "woken"
    /\ UNCHANGED <<s_thread, s_running, s_q, s_state, s_enq, s_done, s_failed,
                   it, ok, snaps, caller>>

WorkerWait ==
    /\ wpc = "check" /\ s_running /\ Len(s_q) = 0
    /\ wpc' = "waiting"
    /\ UNCHANGED <<s_thread, s_running, s_q, s_state, s_enq, s_done, s_failed,
                   it, ok, snaps, caller>>

WorkerExit ==
    /\ wpc = "check" /\ ~ s_running /\ Len(s_q) = 0
    /\ wpc' = "exited"
    /\ UNCHANGED <<s_thread, s_running, s_q, s_state, s_enq, s_done, s_failed,
                   it, ok, snaps, caller>>

WorkerPop ==
    /\ wpc = "check" /\ Len(s_q) > 0
    /\ it' = Head(s_q)
    /\ s_q' = Tail(s_q)
    /\ s_state' = Marked(Head(s_q), "COMPILING")
    /\ wpc' = "compile"
    /\ UNCHANGED <<s_thread, s_running, s_enq, s_done, s_failed, ok, snaps, caller>>

\* Mutant: the snapshot of a declined fragment is not freed.
FreedIfOk(o) == IF o THEN snaps - 1 ELSE snaps

\* free(it.snap), on both outcomes.
Freed(o) == snaps - 1

\* Compile and publish without the mutex (o: the fragment was accepted), then
\* free the snapshot.
WorkerCompile(o) ==
    /\ wpc = "compile"
    /\ ok' = o
    /\ snaps' = Freed(o)
    /\ wpc' = "finish"
    /\ UNCHANGED <<s_thread, s_running, s_q, s_state, s_enq, s_done, s_failed,
                   it, caller>>

WorkerFinish ==
    /\ wpc = "finish"
    /\ s_state' = Marked(it, IF ok THEN "DONE" ELSE "FAILED")
    /\ s_done' = IF ok THEN s_done + 1 ELSE s_done
    /\ s_failed' = IF ok THEN s_failed ELSE s_failed + 1
    /\ it' = NoKey
    /\ wpc' = "check"
    /\ UNCHANGED <<s_thread, s_running, s_q, s_enq, ok, snaps, caller>>

WorkerStep ==
    \/ WorkerLock \/ WorkerWait \/ WorkerExit \/ WorkerPop
    \/ \E o \in BOOLEAN : WorkerCompile(o)
    \/ WorkerFinish

Next ==
    \/ Start
    \/ \E k \in Keys : Enqueue(k)
    \/ StopSignal
    \/ StopJoin
    \/ SpuriousWake
    \/ WorkerStep

Spec == Init /\ [][Next]_vars

----------------------------------------------------------------------------
(* Properties. *)

\* state_find never has two entries to choose from: enqueue dedups on the key,
\* and the swap of the eviction loop neither loses nor copies an entry.
UniqueKeys ==
    \A i, j \in 1..Len(s_state) : s_state[i].key = s_state[j].key => i = j

\* Every queued item has its QUEUED entry: an entry in flight is never evicted,
\* and none is left behind for an item that was never queued.
QueuedMatchesMap ==
    /\ \A i \in 1..Len(s_q) :
         \E j \in 1..Len(s_state) : s_state[j] = [key |-> s_q[i], st |-> "QUEUED"]
    /\ \A j \in 1..Len(s_state) :
         s_state[j].st = "QUEUED" => \E i \in 1..Len(s_q) : s_q[i] = s_state[j].key

\* The item the worker compiles without the mutex still has its COMPILING entry
\* when the worker relocks, however many enqueues evicted entries meanwhile, and
\* no other entry is COMPILING.
InFlightMatchesMap ==
    /\ it # NoKey =>
         \E j \in 1..Len(s_state) : s_state[j] = [key |-> it, st |-> "COMPILING"]
    /\ \A j \in 1..Len(s_state) : s_state[j].st = "COMPILING" => s_state[j].key = it

\* One item is queued or compiled at most once at a time: the dedup holds across
\* pop, compile and eviction.
NoDuplicateWork ==
    /\ \A i, j \in 1..Len(s_q) : s_q[i] = s_q[j] => i = j
    /\ \A i \in 1..Len(s_q) : s_q[i] # it

InHand == IF it = NoKey THEN 0 ELSE 1

\* Every enqueued item is queued, in the worker's hands, or counted as compiled or
\* failed: what the statistics of the debug server report adds up.
CountersAddUp == s_enq = s_done + s_failed + Len(s_q) + InHand

\* Each snapshot is freed exactly once: one is allocated for every queued item and
\* for the item being compiled, and for nothing else.
NoSnapshotLeak == snaps = Len(s_q) + (IF wpc = "compile" THEN 1 ELSE 0)

\* The worker exits only with an empty queue, so the loop that frees queued
\* snapshots after the join has nothing to free: a stop compiles the backlog.
JoinFindsQueueEmpty == wpc = "exited" => Len(s_q) = 0

\* While the queue has room so has the map: at most WQ_CAP entries are in flight
\* when it is full, so state_add finds a finished one to evict and its NULL return
\* is dead code as long as STATE_CAP > WQ_CAP.
MapHasRoom == STATE_CAP > WQ_CAP /\ QueueHasRoom => Len(Evicted) < STATE_CAP

\* What leaves the map has finished: an enqueue that evicts drops a DONE or a
\* FAILED key only.
EvictsOnlyFinished ==
    [][\A i \in 1..Len(s_state) :
         (\A j \in 1..Len(s_state') : s_state'[j].key # s_state[i].key)
            => Finished(s_state[i])]_vars

\* A stop that signalled the worker returns: no wake-up is lost between the
\* worker's test of s_running and its wait, and the backlog is drained.
StopReturns == (caller = "join") ~> (caller = "down")

\* An item in the queue leaves it and is finished, whatever the dispatch thread
\* does next: an enqueue's signal is never lost either.
QueuedIsCompiled ==
    \A k \in Keys : (\E i \in 1..Len(s_q) : s_q[i] = k)
        ~> (it # k /\ \A i \in 1..Len(s_q) : s_q[i] # k)
=============================================================================
