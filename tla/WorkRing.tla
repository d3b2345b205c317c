------------------------------ MODULE WorkRing ------------------------------
(***************************************************************************)
(* The array behind the compile worker's queue (overlay_compile_worker.c): *)
(* s_q[WQ_CAP] with s_q_head, s_q_tail and s_q_n, written at the tail by   *)
(* enqueue, read at the head by worker_main and emptied from the head by   *)
(* stop.  It implements a bounded FIFO (module BoundedFifo), which is what *)
(* CompileWorker takes the queue to be.                                    *)
(*                                                                         *)
(* RingSpec is the array on its own, used by the proofs; WorkerSpec        *)
(* composes it with the worker: each step of CompileWorker that touches    *)
(* its queue s_q moves the array as the code does.                         *)
(***************************************************************************)
EXTENDS CompileWorker

VARIABLES slots, s_q_head, s_q_tail, s_q_n

ringVars == <<slots, s_q_head, s_q_tail, s_q_n>>

Slots == 0..(WQ_CAP - 1)

RingTypeOK ==
    /\ slots \in [Slots -> Keys]
    /\ s_q_head \in Slots
    /\ s_q_tail \in Slots
    /\ s_q_n \in 0..WQ_CAP

\* The array is zero-initialised; whatever it holds then is never read.
RingInit ==
    /\ slots \in [Slots -> Keys]
    /\ s_q_head = 0 /\ s_q_tail = 0 /\ s_q_n = 0

\* Mutant: the tail is advanced before the item is written.
PutLate(x) ==
    /\ s_q_n < WQ_CAP
    /\ s_q_tail' = (s_q_tail + 1) % WQ_CAP
    /\ slots' = [slots EXCEPT ![(s_q_tail + 1) % WQ_CAP] = x]
    /\ s_q_n' = s_q_n + 1
    /\ UNCHANGED s_q_head

Put(x) ==
    /\ s_q_n < WQ_CAP
    /\ slots' = [slots EXCEPT ![s_q_tail] = x]
    /\ s_q_tail' = (s_q_tail + 1) % WQ_CAP
    /\ s_q_n' = s_q_n + 1
    /\ UNCHANGED s_q_head

Take ==
    /\ s_q_n > 0
    /\ s_q_head' = (s_q_head + 1) % WQ_CAP
    /\ s_q_n' = s_q_n - 1
    /\ UNCHANGED <<slots, s_q_tail>>

\* The loop of overlay_compile_worker_stop, to its end.
Drain ==
    /\ s_q_head' = (s_q_head + s_q_n) % WQ_CAP
    /\ s_q_n' = 0
    /\ UNCHANGED <<slots, s_q_tail>>

RingNext == Take \/ \E x \in Keys : Put(x)

RingSpec == RingInit /\ [][RingNext]_ringVars

----------------------------------------------------------------------------
(* The worker with its array. *)

WorkerInit == Init /\ RingInit

EnqueueSlot(k) == Enqueue(k) /\ Put(k)
PopSlot == WorkerPop /\ Take
JoinAndDrain == StopJoin /\ Drain

OtherStep ==
    /\ \/ Start \/ StopSignal \/ SpuriousWake
       \/ WorkerLock \/ WorkerWait \/ WorkerExit
       \/ \E o \in BOOLEAN : WorkerCompile(o)
       \/ WorkerFinish
    /\ UNCHANGED ringVars

WorkerNext ==
    \/ \E k \in Keys : EnqueueSlot(k)
    \/ PopSlot
    \/ JoinAndDrain
    \/ OtherStep

workerVars == <<vars, ringVars>>

(***************************************************************************)
(* The operating system schedules the worker thread, and a compile         *)
(* terminates; the dispatch thread, blocked in the join, takes it when it  *)
(* can.  Nothing makes the guest miss, the program stop, or a spurious     *)
(* wake-up happen.                                                         *)
(***************************************************************************)
WorkerSpec ==
    /\ WorkerInit /\ [][WorkerNext]_workerVars
    /\ WF_workerVars(PopSlot \/ (OtherStep /\ WorkerStep))
    /\ WF_workerVars(JoinAndDrain)

----------------------------------------------------------------------------
(* Properties. *)

\* The items between head and tail, oldest first.
Contents == [i \in 1..s_q_n |-> slots[(s_q_head + i - 1) % WQ_CAP]]

\* The tail is where n items after the head end, also after both have wrapped.
TailFollowsHead == s_q_tail = (s_q_head + s_q_n) % WQ_CAP

\* The item worker_main reads at the head is the one CompileWorker pops: the array
\* holds the queue, in its order, through every wrap-around.
RingHoldsQueue == Contents = s_q

Fifo == INSTANCE BoundedFifo WITH Item <- Keys, queue <- Contents, Cap <- WQ_CAP

\* The ring implements the FIFO: each enqueue appends, each pop removes the oldest
\* item, the others keep their place, and the loop of stop discards none.
ImplementsFifo == Fifo!FifoSpec
=============================================================================
