---------------------------- MODULE BoundedFifo ----------------------------
(* What a bounded work queue promises: items leave in the order they came,  *)
(* and there are never more than Cap of them.                                *)
EXTENDS Naturals, Sequences

CONSTANTS Item, Cap
VARIABLE queue

FifoInit == queue = <<>>
FifoPut(x) == Len(queue) < Cap /\ queue' = Append(queue, x)
FifoTake == queue # <<>> /\ queue' = Tail(queue)
FifoNext == FifoTake \/ \E x \in Item : FifoPut(x)
FifoSpec == FifoInit /\ [][FifoNext]_queue
=============================================================================
