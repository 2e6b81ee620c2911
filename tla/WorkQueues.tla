----------------------------- MODULE WorkQueues -----------------------------
(***************************************************************************)
(* What the queues of a GrpcContext promise, each operation in one atomic   *)
(* step:                                                                    *)
(*                                                                          *)
(*  - remote_work_queue (AtomicIntrusiveQueue): any thread enqueues, the    *)
(*    thread of the event loop takes everything at once.  Its head doubles  *)
(*    as a flag: while the queue is inactive the event loop does not look   *)
(*    at it, and whoever makes it active has to wake the loop up;           *)
(*  - local_work_queue (IntrusiveQueue): used by the event loop only;       *)
(*  - queue: the local variable of process_local_queue, the batch of        *)
(*    operations that one iteration of the event loop completes.            *)
(*                                                                          *)
(* IntrusiveQueues implements this module with the pointers of the code.    *)
(* GrpcContext is built on it.                                              *)
(***************************************************************************)
EXTENDS Sequences, SequencesExt

CONSTANT Ops   \* the addresses that an operation can be allocated at

VARIABLES
    active,             \* remote_work_queue.head # producer_inactive_value()
    remote_work_queue,  \* oldest operation first
    local_work_queue,
    queue

queueVars == <<active, remote_work_queue, local_work_queue, queue>>

(* Every operation that is in a queue, in the order of their completion     *)
(* if nothing else arrives.                                                 *)
Pipeline == queue \o local_work_queue \o remote_work_queue

Queued == ToSet(Pipeline)

QueueTypeOK ==
    /\ active \in BOOLEAN
    /\ remote_work_queue \in Seq(Ops)
    /\ local_work_queue \in Seq(Ops)
    /\ queue \in Seq(Ops)

(* GrpcContext constructs remote_work_queue{false}: initially inactive.     *)
QueueInit ==
    /\ active = FALSE
    /\ remote_work_queue = <<>>
    /\ local_work_queue = <<>>
    /\ queue = <<>>
-----------------------------------------------------------------------------
(* enqueue: the caller sees from active, before the step, whether it has to *)
(* wake up the event loop.                                                  *)
Enqueue(op) ==
    /\ active' = TRUE
    /\ remote_work_queue' = Append(remote_work_queue, op)
    /\ UNCHANGED <<local_work_queue, queue>>

(* try_mark_active, when it returns true.                                   *)
MarkActive ==
    /\ ~active
    /\ active' = TRUE
    /\ UNCHANGED <<remote_work_queue, local_work_queue, queue>>

(* try_mark_inactive_or_dequeue_all on an empty queue.  The queue must be   *)
(* active ("Not valid to call if the producer is already marked as          *)
(* inactive").                                                              *)
MarkInactive ==
    /\ active
    /\ remote_work_queue = <<>>
    /\ active' = FALSE
    /\ UNCHANGED <<remote_work_queue, local_work_queue, queue>>

(* Mutant: the head is loaded and not exchanged.                            *)
DequeueAllLoads ==
    /\ active
    /\ remote_work_queue # <<>>
    /\ local_work_queue' = local_work_queue \o remote_work_queue
    /\ UNCHANGED <<active, remote_work_queue, queue>>

(* Mutant: the operations are put in front of the local ones.               *)
DequeueAllInFront ==
    /\ active
    /\ remote_work_queue # <<>>
    /\ local_work_queue' = remote_work_queue \o local_work_queue
    /\ remote_work_queue' = <<>>
    /\ UNCHANGED <<active, queue>>

(* try_mark_inactive_or_dequeue_all on a queue with operations, which       *)
(* move_remote_work_to_local_queue appends to the local queue.              *)
DequeueAll ==
    /\ active
    /\ remote_work_queue # <<>>
    /\ local_work_queue' = local_work_queue \o remote_work_queue
    /\ remote_work_queue' = <<>>
    /\ UNCHANGED <<active, queue>>

PushBack(op) ==
    /\ local_work_queue' = Append(local_work_queue, op)
    /\ UNCHANGED <<active, remote_work_queue, queue>>

(* auto queue{std::move(grpc_context.local_work_queue)};                    *)
TakeLocal ==
    /\ queue' = local_work_queue
    /\ local_work_queue' = <<>>
    /\ UNCHANGED <<active, remote_work_queue>>

PopFront ==
    /\ queue # <<>>
    /\ queue' = Tail(queue)
    /\ UNCHANGED <<active, remote_work_queue, local_work_queue>>

(* ~IntrusiveQueue() = default: an exception that leaves                    *)
(* process_local_queue forgets the rest of the batch.                       *)
DropQueue ==
    /\ queue' = <<>>
    /\ UNCHANGED <<active, remote_work_queue, local_work_queue>>
-----------------------------------------------------------------------------
QueueNext ==
    \/ \E op \in Ops \ Queued : Enqueue(op) \/ PushBack(op)
    \/ MarkActive
    \/ MarkInactive
    \/ DequeueAll
    \/ queue = <<>> /\ TakeLocal
    \/ PopFront
    \/ DropQueue

QueueSpec == QueueInit /\ [][QueueNext]_queueVars

(* An operation in the remote queue keeps the queue active: the event loop  *)
(* never marks a queue inactive that still holds an operation.              *)
InactiveIsEmpty == remote_work_queue # <<>> => active

(* No operation is in two places, or twice in one.                          *)
QueuedOnce == IsInjective(Pipeline)
=============================================================================
