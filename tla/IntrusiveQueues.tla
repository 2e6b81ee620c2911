-------------------------- MODULE IntrusiveQueues --------------------------
(***************************************************************************)
(* The queues of a GrpcContext as the pointers that implement them:         *)
(* AtomicIntrusiveQueue (a stack of operations linked through their next    *)
(* member, its head also the inactive flag) and two IntrusiveQueues (head   *)
(* and tail).  Producers are threads that enqueue or call stop(); the       *)
(* consumer is the thread of the event loop.  A step is one access to the   *)
(* shared head, or a piece of code that touches memory of its own thread    *)
(* only.  Memory is reused: an operation that was popped is free and may be *)
(* allocated again while a slow producer still remembers its address.       *)
(***************************************************************************)
EXTENDS Sequences, SequencesExt, Naturals, FiniteSets

CONSTANTS Ops, Producers, NULL, INACTIVE

ASSUME PointersAssumption ==
    /\ IsFiniteSet(Ops)
    /\ NULL \notin Ops
    /\ INACTIVE \notin Ops \cup {NULL}

VARIABLES
    head,          \* of the remote queue: an operation, NULL or INACTIVE
    next,          \* IntrusiveQueueHook::next of every operation
    local,         \* local_work_queue: [head, tail]
    batch,         \* queue of process_local_queue: [head, tail]
    pc, item, old_value,    \* per producer: enqueue(item)
    consumer,               \* the consumer's position in ..._dequeue_all
    list, new_head, new_tail,  \* local variables of make_reversed
    free                    \* memory that is not allocated

producerVars == <<pc, item, old_value>>
reverseVars == <<consumer, list, new_head, new_tail>>
vars == <<head, next, local, batch, pc, item, old_value, consumer, list,
          new_head, new_tail, free>>

Pointer == Ops \cup {NULL}
EmptyQueue == [head |-> NULL, tail |-> NULL]

(* A pointer is never dangling into the flag value: INACTIVE only ever      *)
(* appears as the head.                                                     *)
TypeOK ==
    /\ head \in Pointer \cup {INACTIVE}
    /\ next \in [Ops -> Pointer]
    /\ local \in [head : Pointer, tail : Pointer]
    /\ batch \in [head : Pointer, tail : Pointer]
    /\ pc \in [Producers -> {"idle", "store_next", "compare_exchange"}]
    /\ item \in [Producers -> Pointer]
    /\ old_value \in [Producers -> Pointer \cup {INACTIVE}]
    /\ consumer \in {"idle", "mark_inactive", "exchange", "reverse"}
    /\ list \in Pointer
    /\ new_head \in Pointer
    /\ new_tail \in Pointer
    /\ free \subseteq Ops

Init ==
    /\ head = INACTIVE
    /\ next = [op \in Ops |-> NULL]
    /\ local = EmptyQueue
    /\ batch = EmptyQueue
    /\ pc = [p \in Producers |-> "idle"]
    /\ item = [p \in Producers |-> NULL]
    /\ old_value = [p \in Producers |-> NULL]
    /\ consumer = "idle"
    /\ list = NULL /\ new_head = NULL /\ new_tail = NULL
    /\ free = Ops
-----------------------------------------------------------------------------
(* AtomicIntrusiveQueue, producers                                          *)

TryMarkActive ==
    /\ head = INACTIVE
    /\ head' = NULL
    /\ UNCHANGED <<next, local, batch, producerVars, reverseVars, free>>

EnqueueLoad(p, op) ==
    /\ pc[p] = "idle"
    /\ op \in free
    /\ free' = free \ {op}
    /\ item' = [item EXCEPT ![p] = op]
    /\ old_value' = [old_value EXCEPT ![p] = head]
    /\ pc' = [pc EXCEPT ![p] = "store_next"]
    /\ UNCHANGED <<head, next, local, batch, reverseVars>>

(* Mutant: the flag value is not told apart from an operation.              *)
EnqueueStoreNextInactive(p) ==
    /\ pc[p] = "store_next"
    /\ next' = [next EXCEPT ![item[p]] = old_value[p]]
    /\ pc' = [pc EXCEPT ![p] = "compare_exchange"]
    /\ UNCHANGED <<head, local, batch, item, old_value, reverseVars, free>>

EnqueueStoreNext(p) ==
    /\ pc[p] = "store_next"
    /\ next' = [next EXCEPT ![item[p]] =
                   IF old_value[p] = INACTIVE THEN NULL ELSE old_value[p]]
    /\ pc' = [pc EXCEPT ![p] = "compare_exchange"]
    /\ UNCHANGED <<head, local, batch, item, old_value, reverseVars, free>>

EnqueueSucceeds(p) ==
    /\ pc[p] = "compare_exchange"
    /\ head = old_value[p]
    /\ head' = item[p]
    /\ pc' = [pc EXCEPT ![p] = "idle"]
    /\ item' = [item EXCEPT ![p] = NULL]
    /\ old_value' = [old_value EXCEPT ![p] = NULL]
    /\ UNCHANGED <<next, local, batch, reverseVars, free>>

(* Mutant: item->next is stored before the loop, not in it.                 *)
EnqueueFailsKeepsNext(p) ==
    /\ pc[p] = "compare_exchange"
    /\ old_value' = [old_value EXCEPT ![p] = head]
    /\ UNCHANGED <<head, next, local, batch, pc, item, reverseVars, free>>

(* compare_exchange_weak may fail although head = old_value.                *)
EnqueueFails(p) ==
    /\ pc[p] = "compare_exchange"
    /\ old_value' = [old_value EXCEPT ![p] = head]
    /\ pc' = [pc EXCEPT ![p] = "store_next"]
    /\ UNCHANGED <<head, next, local, batch, item, reverseVars, free>>
-----------------------------------------------------------------------------
(* AtomicIntrusiveQueue, consumer: move_remote_work_to_local_queue          *)

ConsumerIs(step) == consumer = step

(* Not valid to call if the producer is already marked as inactive.         *)
TryMarkInactiveLoad ==
    /\ ConsumerIs("idle")
    /\ batch.head = NULL
    /\ head # INACTIVE
    /\ consumer' = IF head = NULL THEN "mark_inactive" ELSE "exchange"
    /\ UNCHANGED <<head, next, local, batch, producerVars, list, new_head,
                   new_tail, free>>

(* compare_exchange_strong(nullptr, inactive); it fails if an operation was *)
(* enqueued after the load.                                                 *)
TryMarkInactive ==
    /\ ConsumerIs("mark_inactive")
    /\ IF head = NULL THEN head' = INACTIVE /\ consumer' = "idle"
                      ELSE consumer' = "exchange" /\ UNCHANGED head
    /\ UNCHANGED <<next, local, batch, producerVars, list, new_head, new_tail,
                   free>>

(* Mutant: a load where the code exchanges.                                 *)
ExchangeLoads ==
    /\ ConsumerIs("exchange")
    /\ list' = head
    /\ new_head' = NULL
    /\ new_tail' = head
    /\ consumer' = "reverse"
    /\ UNCHANGED <<head, next, local, batch, producerVars, free>>

(* head.exchange(nullptr), and the start of make_reversed.                  *)
Exchange ==
    /\ ConsumerIs("exchange")
    /\ head' = NULL
    /\ list' = head
    /\ new_head' = NULL
    /\ new_tail' = head
    /\ consumer' = "reverse"
    /\ UNCHANGED <<next, local, batch, producerVars, free>>

(* One iteration of make_reversed.                                          *)
ReverseStep ==
    /\ ConsumerIs("reverse")
    /\ list # NULL
    /\ list' = next[list]
    /\ next' = [next EXCEPT ![list] = new_head]
    /\ new_head' = list
    /\ UNCHANGED <<head, local, batch, producerVars, consumer, new_tail, free>>

(* IntrusiveQueue::append(std::move(remote_work_queue)).                    *)
AppendReversed ==
    /\ ConsumerIs("reverse")
    /\ list = NULL
    /\ local' = [head |-> IF local.head = NULL THEN new_head ELSE local.head,
                 tail |-> new_tail]
    /\ next' = IF local.head = NULL THEN next
               ELSE [next EXCEPT ![local.tail] = new_head]
    /\ consumer' = "idle"
    /\ new_head' = NULL /\ new_tail' = NULL
    /\ UNCHANGED <<head, batch, producerVars, list, free>>
-----------------------------------------------------------------------------
(* IntrusiveQueue: add_local_operation and process_local_queue              *)

PushBack(op) ==
    /\ ConsumerIs("idle")
    /\ op \in free
    /\ free' = free \ {op}
    /\ next' = [q \in Ops |-> IF q = op THEN NULL
                              ELSE IF q = local.tail THEN op ELSE next[q]]
    /\ local' = [head |-> IF local.tail = NULL THEN op ELSE local.head,
                 tail |-> op]
    /\ UNCHANGED <<head, batch, producerVars, reverseVars>>

(* The move constructor.                                                    *)
TakeLocal ==
    /\ ConsumerIs("idle")
    /\ batch.head = NULL
    /\ batch' = local
    /\ local' = EmptyQueue
    /\ UNCHANGED <<head, next, producerVars, reverseVars, free>>

(* pop_front(); complete() frees the operation.                             *)
PopFront ==
    /\ ConsumerIs("idle")
    /\ batch.head # NULL
    /\ batch' = IF next[batch.head] = NULL THEN EmptyQueue
                ELSE [batch EXCEPT !.head = next[batch.head]]
    /\ free' = free \cup {batch.head}
    /\ UNCHANGED <<head, next, local, producerVars, reverseVars>>

(* The default destructor, when a handler throws: nothing is freed.         *)
DropBatch ==
    /\ ConsumerIs("idle")
    /\ batch.head # NULL
    /\ batch' = EmptyQueue
    /\ UNCHANGED <<head, next, local, producerVars, reverseVars, free>>
-----------------------------------------------------------------------------
Next ==
    \/ TryMarkActive
    \/ \E p \in Producers :
          \/ \E op \in Ops : EnqueueLoad(p, op)
          \/ EnqueueStoreNext(p)
          \/ EnqueueSucceeds(p)
          \/ EnqueueFails(p)
    \/ TryMarkInactiveLoad
    \/ TryMarkInactive
    \/ Exchange
    \/ ReverseStep
    \/ AppendReversed
    \/ \E op \in Ops : PushBack(op)
    \/ TakeLocal
    \/ PopFront
    \/ DropBatch

Spec == Init /\ [][Next]_vars
-----------------------------------------------------------------------------
(* Properties                                                               *)

(* Where a pointer leads to, link by link, cut off after all operations.    *)
Hops(links, pointer) ==
    LET hop[n \in 0..Cardinality(Ops)] ==
            IF n = 0 THEN pointer
            ELSE IF hop[n - 1] = NULL THEN NULL ELSE links[hop[n - 1]]
    IN  hop

Path(links, pointer) ==
    LET hops == Hops(links, pointer)
    IN  [i \in 1..Cardinality({n \in DOMAIN hops : hops[n] # NULL}) |->
            hops[i - 1]]

(* The operations reachable from a pointer.                                 *)
Chain(pointer) == Path(next, pointer)

RemoteChain == IF head = INACTIVE THEN <<>> ELSE Chain(head)

(* The pointers implement the abstract queues, whatever the interleaving of *)
(* CAS loops, reversal and reuse of memory: every operation is dequeued     *)
(* exactly once and in the order of the successful CASes, and the queue     *)
(* gets inactive only when it is empty.  The operations that make_reversed  *)
(* is working on count as appended to the local queue already.              *)
Abstract == INSTANCE WorkQueues WITH
    active <- head # INACTIVE,
    remote_work_queue <- Reverse(RemoteChain),
    local_work_queue <- Chain(local.head) \o Reverse(Chain(list))
                            \o Chain(new_head),
    queue <- Chain(batch.head)

Implements == Abstract!QueueSpec

Reachable ==
    RemoteChain \o Chain(local.head) \o Chain(list) \o Chain(new_head)
        \o Chain(batch.head)

(* No queue reaches freed memory or an operation that a producer is still   *)
(* enqueueing, and no operation is linked twice, even if its address was    *)
(* freed and allocated again between a producer's load and its CAS.         *)
NoDanglingLink ==
    /\ IsInjective(Reachable)
    /\ \A op \in ToSet(Reachable) :
          op \notin free /\ \A p \in Producers : item[p] # op
=============================================================================
