# asio-grpc in TLA+

A verification project for asio-grpc (namespace `agrpc`), a header-only C++
library that runs asynchronous gRPC operations on an event loop and exposes
them as Asio completion tokens and as senders. Paths below are relative to
`src/src/agrpc/`, those of the examples to `src/example/`.

## 1. Inventory

| Component | State | Operations | Hard behaviour |
|---|---|---|---|
| **Work queues** (`detail/atomicIntrusiveQueue.hpp`, `detail/intrusiveQueue.hpp`) | an atomic `head` that is a stack of operations, empty, or the "inactive" flag; two linked lists with head and tail | `enqueue`, `try_mark_active`, `try_mark_inactive_or_dequeue_all`, `push_back`, `append`, `pop_front` | CAS loops of many producers, memory reuse, the flag that decides who wakes the loop |
| **GrpcContext** (`grpcContext.hpp`, `detail/grpcContext.ipp`, `detail/grpcContextImplementation.ipp`) | `outstanding_work`, `stopped`, `shutdown`, `check_remote_work`, `work_alarm`, the completion queue, the queues above, a thread_local pointer | `run`, `poll`, `stop`, `reset`, `work_started`, `work_finished`, the destructor | wakeups from other threads, stopping while blocked or while entering the loop, exceptions, draining |
| **Operations and allocation** (`detail/allocateOperation.hpp`, `detail/typeErasedOperation.hpp`, `detail/operation.hpp`, `detail/allocate.hpp`, `detail/oneShotAllocator.hpp`) | a heap object per operation | allocate and submit, complete (free, then invoke), discard | an allocation that throws after the work was counted; memory reused by the handler |
| **Initiating gRPC operations** (`detail/initiate.hpp`, `detail/grpcInitiate.hpp`, `detail/grpcSubmit.hpp`) | one completion queue tag per operation, a cancellation slot, a payload | initiate, complete with `ok` | a tag that completes before the initiating function has returned; late cancellation |
| **Senders and wait** (`detail/grpcSender.hpp`, `detail/scheduleSender.hpp`, `wait.hpp`, `detail/wait.hpp`) | operation state, stop callback, alarm | `start`, `submit`, completion, stop | stop callback against initiation and completion |
| **Executors** (`grpcExecutor.hpp`, `detail/grpcExecutorBase.hpp`, `detail/workTrackingCompletionHandler.hpp`) | context pointer, options, optionally a unit of work | convert, copy, move, assign, destroy, `post`, `dispatch` | counts that pass through zero, moved-from objects |
| **Repeatedly request** (`detail/repeatedlyRequest.hpp`, `detail/repeatedlyRequestSender.hpp`) | stop flag, RPC contexts, buffer operation | initiate, request complete, stop, finish | the next request is started before the handler of this one; lifetime and work counts on each path |
| **Poll context** (`pollContext.hpp`) | executor with work, stop predicate | `async_poll` | a stop between two polls |
| **RPC functions** (`rpc.hpp`, `detail/rpc.hpp`) | none of their own; the call is gRPC's | `request`, `read`, `write`, `writes_done`, `finish`, ... on each kind of call and side | which of them may be pending at once, what each bool means, calls that fail half-way |
| **Example programs** | coroutines of a client and a server, a channel, a shutdown thread | one coroutine per RPC | simultaneous reads and writes, a deadline that races the call, shutdown by RPC and by signal |
| **Adaptors** (`bindAllocator.hpp`, `detail/unbind.hpp`, ...) | none | compile-time plumbing | - |

How they interact: every initiating function allocates an operation, counts it
as outstanding work and hands it either to gRPC as a completion queue tag or to
one of the work queues. The event loop takes operations from the queues and
tags from the completion queue, completes them (which frees them and invokes
their handler, on the loop's thread) and takes the count back; the count
reaching zero stops the loop. Other threads that post operations or call
`stop()` wake a blocked loop with an alarm on the completion queue.

What makes each part correct: queues lose, duplicate and reorder nothing;
exactly one wakeup is under way whenever the loop has to look at the remote
queue; the work count is what is really outstanding; `run()` returns when and
only when it should; nothing is left behind by the destructor; an operation
state completes its receiver exactly once; work counts of executors balance;
a stop or cancellation reaches the operation it is meant for and no other; the
programs that use the RPC functions as documented lose no message and end.

## 2. Modules

| Module | Models | Kind |
|---|---|---|
| `WorkQueues` | what the queues promise: sequences and a flag, one atomic action per operation | abstract specification, building block of `GrpcContext` |
| `IntrusiveQueues` | the pointers: each load, CAS and exchange of `head`, each iteration of `make_reversed`, memory that is freed and reused | detailed specification, implements `WorkQueues` |
| `GrpcContext` | the context: calls from any thread as sequences of atomic accesses, the event loop, the destructor, gRPC's alarm and completion queue (external) | composition over `WorkQueues` |
| `PollContext` | `async_poll`: a context polled from the handlers of another execution context | composition over `GrpcContext` |
| `StopCallback` | a libunifex stop source with one callback in an optional (external) | building block of the sender modules |
| `RepeatedlyRequestSender` | the operation state of `repeatedly_request` with `use_sender`: `start()`, the stop function, `on_request_complete()` | component; `GrpcContext` abstracted to the work counter and one event at a time |
| `Operations` | executors that track work, submission through them, `GrpcSender`, `ScheduleSender`, `wait`, the cancellation slot, requests with payload | component over `StopCallback`; three scenarios that share the work counters |
| `RepeatedlyRequest` | `repeatedly_request` with a completion token, for ordinary and for awaitable request handlers, and `WorkTrackingCompletionHandler` | component; event loop abstracted as above |
| `RpcStreams` | the functions of `rpc.hpp`: what each initiates on a call, and the results its tag can have (gRPC is external) | operators, no state |
| `Examples` | the example programs and a most general user of each kind of call, as coroutines over `RpcStreams` | composition of a client and a server |
| `MCIntrusiveQueues`, `MCGrpcContext` | symmetry sets for TLC | MC |
| `GrpcContextProofs`, `GrpcContextQueueProofs` | theorems about `GrpcContext`: types, wakeup and drain; ownership, order and accounting | proofs |
| `IntrusiveQueuesProofs` | theorems about `IntrusiveQueues`, the refinement of `WorkQueues` among them | proofs |
| `OperationsProofs`, `RepeatedlyRequestProofs`, `RepeatedlyRequestSenderProofs` | theorems about the components they are named after | proofs |
| `ExamplesProofs` | theorems about `Examples` and the operators of `RpcStreams` | proofs |
| `SequenceLemmas` | what `Append`, `Tail`, `\o` and `Reverse` do to the elements, their order and their number | lemmas that the proofs share |

### GrpcContext and the code

`call[t]` is the next atomic access of the call thread `t` is in: `"submit"`
and `"initiate"` are `allocate_operation_and_invoke` after `work_started()`;
`"alarm"` is `trigger_work_alarm`; `"stop"` and `"mark_active"` are the two
conditions of `stop()`; `"finish"` is the decrement in `work_finished()`.
`loop` is the same for the event loop: `"enter"`, `"mark_stopped"` and
`"reset"` are the first lines of `process_work(deadline)`, `"move"` to `"next"`
the body of `process_work<Invoke, StopCondition>`, `"op"` and `"tag"` the call
of `complete()`, in which user code may make any call; `"unwind"` is an
exception on its way out. `mode` is `"run"`, `"poll"` or `"drain"`, the last
for the destructor, in which handlers are discarded, no other thread uses the
context, and the thread_local pointer is not set. Accesses by one thread to
memory that only this thread uses are part of the neighbouring step.

The queue operations are atomic in `GrpcContext`; the run `queues` justifies
this by showing that the pointers implement them.

### RepeatedlyRequestSender and the code

`start`, `stopper` and `loop` are the next steps of `start()`, of the
`StopFunction` that `request_stop()` executes and of `on_request_complete()`;
`env` says whether they have threads of their own or share the event loop's,
where a call can only begin in user code, and whether the allocator may throw. A context is
the `RequestHandlerOperation` of one request; `ptr`, `is_repeated` and the
member `request_handler_operation` are the variables of the code, `target` is
the context gRPC has been given. `stop_callback.reset()` is several steps,
because the thread of the stop and the event loop may both be in it: `engaged`
is the optional's flag, `callback` what the stop source knows of the callback.
An allocation that throws in `start()` terminates the program (`noexcept`) and
is left out; in `on_request_complete()` it is `RepeatThrows`.

### Operations and the code

`executor[x]` is an executor object: the context pointer (`None` once it was
moved from, if it tracks work) and the option bits, which in the code are part
of its type; assignment is therefore between executors with equal options.
Copy assignment is two steps, because `work_finished()` comes first and may
stop a context in between. `stage[w]` is how far a wait is: `"emplace"` and
`"initiate"` are inside `start()`, `"resetting"`, `"satisfying"` and
`"handler"` inside `on_complete`. `via[w]` says whether it is a connected
`GrpcSender`, a submitted one, an initiation with a completion handler, or a
`ScheduleSender`. A receiver's `set_value` may throw, which `satisfy_receiver`
turns into `set_error` (`Signals`). The second wait reuses the alarm of the first, so that a
cancellation meant for the first one would show. Facts of the code that the
model contains and no property forbids: a stop between the installation of the
callback and `alarm.Set` has no effect until the deadline; a submitted
operation that the destructor drains drops its receiver without a signal; the
cancellation slot keeps its handler after the wait.

### RepeatedlyRequest and the code

`loop` is the next step of `on_request_complete` (`"repeat"`, `"handler"`), of
the awaitable variant's coroutine (the same names), or of the completion
(`"invoke"`, `"tracker"`). `queue` holds the operation itself (`"self"`), the
function that starts the next coroutine and the buffer operation. A request
handler that throws leaves through the same scope guard as one that returns.
`abandoned` marks the three paths on which the code loses the operation: an
allocator that throws when the next request is made, its counterpart in the
coroutine (`co_spawn` or the copy of the request handler throws after
`guard.release()`), and a coroutine that the drain destroys before it has
started. An exception in the initiator is `InitiateThrows`: the operation and
its completion handler are freed and the count is taken back. `co_spawn` is
external: it counts the coroutine and the function that starts it. The
cancellation signal is emitted in the event loop's thread (Asio's rule for
slots), at any time until the completion handler is invoked (`MayEmit`). This
includes the time in which the handler is posted to another context
(`invoked = "posted"`) and the operation is already freed.

### RpcStreams, Examples and the code

A call is a record of what each side has sent and read. `Initiate` is what a
method does when it is called, `Complete` the results that its tag can be
delivered with; they follow the comments of `rpc.hpp`, which describe gRPC. A
coroutine is a table from its suspension points to what it awaits there and
where it continues for each result; everything between two points is one step,
as it is in the code, because a `GrpcContext` has one thread. `AwaitAll` is
`&&` of awaitables, `when_all` or the `GrpcContext` itself; `RunWithDeadline`
is `||` and `stop_when`. `Abort` is an `abort_if_not` of a client that fails
because of the result it looks at, `Expect` one that compares with something
else (`AsExpected`): the integer of the response in `make_grpc_request`, and
the time that has passed in `make_and_cancel_unary_request`. Time is abstracted
to whether the server's two seconds are over, which is when its handler starts
to finish the call. `AnyClient` and `AnyServer` call whatever the comments
allow, so that every function is used on every kind of call. The programs of
the streaming example share only the shutdown, so that each call is run
together with the shutdown request and the signal, and not with the others.

The mutants (definitions whose comment starts with "Mutant") are not part of
the specification. Each is a plausible bug in the code that one of the
properties detects.

## 3. Runs

| Run | Shows | Instance |
|---|---|---|
| `queues` | `Implements` (refinement of `WorkQueues`), `NoDanglingLink` | 3 producers, 4 addresses: CAS failures, ABA through reuse, and lists of up to four all occur |
| `context_safety` | `WakeupToken`, `WorkAccounting`, `OwnedOnce`, `NoAlarmAfterShutdown`, `DrainedAtDestruction`, `OrderPreserved` | 2 remote threads and the loop's, 2 operations, 1 tag, 1 guard, every call, throwing allocators and handlers |
| `context_liveness` | `PostedIsCompleted`, `TagIsDelivered`, `StopReturns`, `DestructorReturns`, `RunReturnsWhenAllIsDone` | 1 remote thread, 2 operations (a handler can post them again for ever, and throw with the other one still in its batch), 1 tag, 1 guard that the loop's thread releases |
| `enter_race` | violation of `RunReturnsWithoutWork` | 1 remote thread with a guard |
| `poll_context` | `PollingEndsWithoutWork`, `PostedIsPolled` | 1 remote thread, 2 operations, 1 guard |
| `repeatedly_sender` | `NoUseAfterCompletion`, `ContextOwnership`, `WorkAccounting`, `CancelledInLoopThreadCompletes`, `ServerShutdownCompletes` | every combination of threads, 3 contexts (one requested, one in hand, one running), throwing handler and allocator, server shutdown, destructor |
| `repeatedly_sender_start_race` | violation of `CancelledCompletes` | `start()` in another thread |
| `repeatedly_request` | `WorkAccounting`, `OneContinuation`, `MemoryOwned`, `HandlerContextHasWork`, `Completes` | both variants, three executors of the completion handler, both threads, 3 contexts, 2 suspended handlers, throwing initiator, allocator and `co_spawn` |
| `repeatedly_request_late_signal` | violation of `StopFunctionFindsOperation` | a completion handler on another context |
| `operations` | `WorkAccounting`, `NoStaleCancel`, `StopEndsWait` | 2 contexts, 3 executor objects (source, target and a bystander); 2 waits, both threads, each of the five ways |
| `payload_race` | violation of `PayloadDelivered` | the request is started by another thread |
| `examples` | `ContractRespected`, `NoDanglingOperation`, `DeliveredWhole`, `AbortsOnlyOnFailure`, `RunsEnd`, `ShutdownEnds` | ten pairs of programs; 2 rounds instead of 10 (one that repeats, one that ends the loop); one call fails per behaviour, one signal |

The passing runs check a type invariant as well, where the module has one. The
state spaces are finite without a bound on the number of calls: addresses are
reused; `MaxGuards`, `MaxPosted`, `MaxHandlers`, `Rounds` and the sets bound
what exists at one time. Deadlock is checked in `examples`, where a behaviour
must be able to go on until the client has ended and the server has too or
waits for another client; elsewhere it is not, because a destroyed context, or
one whose user makes no further calls, rightly stops.

The violations are findings:

1. `enter_race`: `run()` reads `outstanding_work` and then resets `stopped`. If
   another thread finishes the last work in between, its `stop()` is erased and
   `run()` blocks for ever without work. The documentation promises that
   `run()` returns when the context runs out of work, and that it is
   thread-safe with regard to the other functions. `context_liveness` shows
   that the promise holds if no other thread finishes work, also for a `run()`
   after one that a handler has left with an exception, unless the exception
   left operations of its batch behind (`leaked`, see below).
2. `repeatedly_request_late_signal`: the cancellation slot of
   `repeatedly_request` keeps a stop function that refers to the operation, and
   nothing clears it. A completion handler with an executor of its own is
   posted there after the operation was freed; a cancellation signal that is
   emitted before the handler runs, when the user cannot know that the
   operation has ended, writes to freed memory. `OneContinuation` shows that
   the window begins only when the handler is handed to its executor.
3. `repeatedly_sender_start_race`: `start()` of the `repeatedly_request` sender
   ignores that the first request was not made because of a stop that arrived
   after the stop token was checked; nobody completes the receiver.
4. `payload_race`: the convenience overloads of `agrpc::request` store the
   responder into the operation behind the tag after gRPC was given the tag. If
   another thread runs the event loop, it may complete and free the operation
   first: the handler gets a null pointer and the store goes to freed memory.
   In the loop's own thread this cannot happen (`PayloadDelivered` holds with
   `RequestThreads = {"loop"}`).

More schedules are part of the models without a run of their own:

- `async_poll` looks at `is_stopped()` after each `poll()`, but `poll()` begins
  with `reset()`: a `stop()` of another thread that falls between the check and
  the next `poll()` is erased and polling goes on, although `pollContext.hpp`
  says "until it is stopped". The cause is that of `enter_race`. TLC shows it
  with `StopEndsPolling` added to the properties of `PollContext.cfg`.
  `poll_context` shows that running out of work is not lost in
  the same way, because each `poll()` looks at the count again.
- `work_finished()` decrements and stops in two steps: a thread that is slow in
  between stops a later `run()` that has work and has never been without.
- When a handler throws, the rest of its batch is forgotten: not completed, not
  freed, and counted for ever (`leaked` in `GrpcContext`), so that a later
  `run()` does not end by itself.
- The stop function of the `repeatedly_request` sender destroys its own
  callback while the event loop may be destroying it as well; the event loop
  then waits for the end of an execution that is never reported.
  `CancelledInLoopThreadCompletes` excludes the second thread.
- The awaitable variant of `repeatedly_request` leaks its operation when the
  context is destroyed before the next coroutine has started, and both variants
  when the next request cannot be made because of an exception; the completion
  handler is then not invoked.

### Fairness

Every thread finishes the calls it has begun (weak fairness of `CallStep(t)`)
and the event loop goes on (weak fairness of `LoopStep`): the operating system
schedules all threads, and the code has no lock to wait for. A handler returns
(strong fairness, because it may make calls before). gRPC fires an alarm whose
deadline has passed, completes operations (cancelled ones included), and its
completion queue is a queue, so an event is not passed over for ever (strong
fairness of `GotEvent(tag)`). For `RepeatedlyRequestSender`, requests complete
because clients make some or the server is shut down (a stop alone does not
cancel the request that is pending), and the senders of the request handler
complete. For `RepeatedlyRequest` the event loop, the initiating thread and the
completion handler's own context go on, and gRPC completes requests, at the
latest with the server's shutdown. For `Operations` threads finish the calls
they are in and the loop runs; the deadline of the alarm is not fair, so that
`StopEndsWait` cannot be satisfied by it. For `Examples` one weak fairness says
that something that can be completed is completed; each property holds although
nothing is said of which. There the model assumes that the server's alarm of
two seconds fires after the client's of at most 100 ms, that the end of a call
that the client has cancelled reaches it before the server's alarm fires (1.9 s
of `not_too_exceed`), that the server's
coroutines have made their requests before the client connects, and
`RunsEnd` excuses the server for a call that is cancelled before it arrives
(it waits for another one). No fairness is assumed of user code beginning a
call, of failures or of signals.

## 4. Proofs

All theorems hold for every value of the constants, from the one assumption that
the component's module makes on them. The assumptions keep names apart (a
thread's "nothing" is not an operation), give bounds their types and, for
`IntrusiveQueues` and `RepeatedlyRequestSender`, say that memory is finite; TLC
evaluates them in every run.

Every safety invariant that a passing run checks is proved, and so are
`OrderPreserved`, `ContractRespected` and the refinement `Implements`: what is
left to TLC alone is liveness.

### The queues: `IntrusiveQueuesProofs`

- `QueueInvariantAlways`: `Spec => []QueueInvariant`. The properties speak of
  chains, and a chain is followed link by link; nothing about it is inductive.
  The invariant says instead that five sequences *exist*, one for each list
  (remote, local, what `make_reversed` has still to do, what it has done, the
  batch), such that the `next` members link the operations of a sequence one
  after the other (`Lists`), the tail pointers are the last ones
  (`ConsumerInvariant`), no operation is in two of the sequences, in free
  memory or in a producer's hand at once (`Separate`), and the operation that a
  producer is about to hand over leads to the very value its CAS compares
  `head` with (`ProducerInvariant`). The last part is what makes ABA harmless:
  if `head` is again what the producer has loaded, its `next` is right again,
  whatever happened in between. There is one lemma per action (`...Shape`) that
  says what the sequences are afterwards.
- `TypeCorrect`: `Spec => []TypeOK`. Not inductive alone: `make_reversed` would
  get the flag value if the consumer exchanged an inactive `head`.
- `NoDanglingLinkAlways`: `Spec => []NoDanglingLink`.
- `ImplementsQueues`: `Spec => Abstract!QueueSpec`, with the refinement mapping
  of the module. A successful CAS is `Enqueue`, the exchange `DequeueAll`; the
  iterations of `make_reversed` and `append` are stuttering steps, because the
  local queue of the contract counts what is being reversed.

`PathOfList` carries the proofs from links to chains: following the links of a
list yields the list. It is an induction, done as a proof by minimal
counterexample: a nonempty set of naturals has a least element
(`LeastNatural`, from the library's theorem on well-founded relations). The
assumption of the module includes that there are finitely many operations.

### The context: `GrpcContextProofs`, `GrpcContextQueueProofs`

For any sets of threads, operations and tags, any `MaxGuards` and `UserCalls`:

- `TypeCorrect`: `Spec => []TypeOK`.
- `WakeupTokenAlways`: `Spec => []WakeupToken`. The invariant is inductive
  together with `TypeOK`. It names the four places where the duty to wake the
  loop up can be and says that they are exclusive and that the queue is active
  exactly when one of them holds it; anything weaker is not inductive, because
  a thread that is about to set the alarm must know that no other one is and
  that the alarm is not pending. Actions that do not touch the token follow
  from one frame lemma (`TokenFrame`).
- `NoAlarmAfterShutdownAlways`: `Spec => []NoAlarmAfterShutdown`, from
  `DrainInvariant`: the destructor is alone, it calls `stop()` before
  `Shutdown()`, and nothing resets `stopped` while it drains, so the `stop()` of
  the last `work_finished()` ends at its first condition.
- `OwnedOnceAlways`: `Spec => []OwnedOnce`. Inductive once it is known that
  leaked memory is carried by no thread (`OwnedInvariant`), and that the batch
  is empty whenever the loop takes a new one (`BatchTaken`). All steps reduce to
  one lemma, `PipelineStep`: a step leaves the pipeline of the queues alone,
  inserts the operation that its thread carries, or removes a prefix.
- `OrderPreservedAlways`: `Spec => [][...]_vars`, from the same lemma: an
  insertion and the removal of a prefix keep the order of what stays.
- `QueueContract`: `Spec => QueueSpec`. The context, with all its threads and
  its destructor, uses the queues only as the contract allows. Together with
  `ImplementsQueues` this ties the context to the pointers.
- `WorkAccountingAlways`: `Spec => []WorkAccounting`. The count is a sum of
  seven cardinalities; the invariant adds that the sets are finite
  (`CountInvariant`). That steps move an element from one of the sets to
  another, which is why the sum stays, needs `OwnedInvariant`.
- `DrainedAtDestructionAlways`: `Spec => []DrainedAtDestruction`, from
  `Quiescent` (what is empty at which point of the destructor), the accounting,
  and `InactiveIsEmpty`.

### `OperationsProofs`

For any contexts and executors and any bound on submissions, with two waits on
one alarm (as in `Operations`):

- `NoStaleCancelAlways`: `Spec => []NoStaleCancel`. The property is not
  inductive: nothing in it says why a completed wait has no callback. The
  inductive `CallbackInvariant` follows the callback through the operation
  state: the optional is engaged only between `emplace()` and `reset()`, a
  thread inside `request_stop()` holds a callback that is executing and
  engaged, so that `reset()` waits for it, and the outcome is told after that.
  The proof fails if `reset()` does not wait. Steps of executors, requests and
  the destructor leave the waits alone (`WaitCases`); the three ways an alarm
  ends share `AlarmEnds`.
- `WorkAccountingAlways`: `Spec => []WorkAccounting`, and `TypeCorrect`. The
  inductive `WorkInvariant` adds that the executors that track a context are
  finitely many and that an assignment under way is between executors that
  exist. The proof splits the count of a context into its executors, its
  queue, its waits and its request; an action changes one of them and the
  counter by the same amount.

### `RepeatedlyRequestSenderProofs`

For any set of RPC contexts, from `SenderInvariant`, which says where the stop
callback, the event in hand and its context are while `start()`, the stop
function and `on_request_complete()` run in any threads:

- `NoUseAfterCompletionAlways`, `ContextOwnershipAlways`,
  `WorkAccountingAlways`, `TypeCorrect`.

### `RepeatedlyRequestProofs`

For any set of RPC contexts and any number of suspended handlers, both kinds of
request handlers and all executors:

- `OneContinuationAlways`, `MemoryOwnedAlways`, `HandlerContextHasWorkAlways`,
  `WorkAccountingAlways`, `TypeCorrect`. The inductive `RequestInvariant` names
  the place that holds the operation (`Places`, `HeldBy`), of which there is
  exactly one while it lives, and the owner of each context and of the buffer.
  `OneContinuation` includes that the stop function in the slot refers to
  a living operation up to the point where the completion handler is handed to
  its executor; the invariant ties `invoked = "no"` to the operation's life for
  that. What follows that point is the finding of
  `repeatedly_request_late_signal`. The properties count occurrences in the
  queue; the lemmas about `Positions`
  in `SequenceLemmas` say how `Append` and `Tail` change such a count.

### `ExamplesProofs`

For each of the ten pairs of programs and any number of rounds (2 in the run, 10
in the code). The proofs are in three layers.

*Calls.* `CallOK` is what is true of a call between two steps, if methods are
called only where they may be (`MayInitiate`; the programs are shown to do so):
no side has read more than was sent, a unary request is sent and accepted
whole, the server sends `OK` only when it has read all, and the client receives
it only after all responses. The lemmas about the functions of `rpc.hpp` say
what initiating one may change (`Initiates`) and what its completion may change
and result in (`Completes`), that `CallOK` survives, and that nothing which has
happened to the call is taken back (`CallStep`).

*Tables.* `TableOK` is proved of the table of every coroutine: which
transitions a server and a client have in common (`Edge`) and what is particular
to the programs that a later invariant is about (`Course`). `Rank` orders the
suspension points, because a coroutine starts others at some of them and does
not come back there. All that follows uses these facts, and not the tables.

*Invariants.*

- `ProgramInvariantAlways`: `Spec => []ProgramInvariant`. A coroutine waits for
  what its suspension point says and for nothing else (`ControlInvariant`); the
  coroutines it starts have not begun before it gets to that point and have
  ended when it leaves it (`FamilyInvariant`); calls are well formed
  (`CallInvariant`); after a method that finishes the call a coroutine is at
  one of its last points (`FinishInvariant`), and so for the half-close
  (`ClosedInvariant`); the server has accepted the call it works on and has
  read all of it where its code takes that for granted (`AcceptInvariant`). None
  of the parts is inductive alone: that a server may finish depends on what its
  reads have returned, which depends on which coroutine is reading.
- `TypeCorrect`, `NoDanglingOperationAlways`: from `ProgramInvariant`.
- `ContractRespectedAlways`: `Spec => ContractRespected`. Of the coroutines on
  one side of a call at most two are alive together, and then they are reader
  and writer; what each awaits at its point, with `FinishInvariant` and
  `ClosedInvariant`, excludes everything the comments of `rpc.hpp` forbid. A
  method counts as begun whenever a coroutine comes to a point that awaits it,
  so a method that is begun again at the same point counts too.
- `DeliveredWholeAlways`: `Spec => []DeliveredWhole`. The part about the echo
  needs `EchoInvariant`: the responses written, the one that `writer` has in
  hand and what is in the channel are, in this order, the doubles of what
  `reader` has read; and, on the client's side, the number of requests is that
  of the responses read, plus one while a read is under way.
- `AbortsOnlyOnFailureAlways`: `Spec => []AbortsOnlyOnFailure`, from
  `HealthInvariant`, which holds until a call fails or a signal arrives: no call
  is dead but the slow one; that one is ended by the client's alarm, never by a
  status, and before the server begins to answer (`SlowInvariant`); the server is shut down only by the shutdown RPC,
  which the client sends after its other calls have been accepted or have
  ended, so that the shutdown refuses none of them (`OrderInvariant`). The response
  that `make_grpc_request` compares is the echo of its request by
  `ReplyInvariant`, which holds in every behaviour (`ReplyInvariantAlways`).

Two definitions were corrected because a proof did not go through. The guards of
the `CASE` in `RpcStreams!Complete` overlapped, where TLC takes the first that
holds and the language leaves the choice open; and `ContractRespected` had a
`UNION` without parentheses, which TLC and the prover read differently. The
run's result is the same with both.

### Assumptions that were added for the proofs

- `PointersAssumption`: finitely many operations.
- `GrpcContextAssumption`: `HAS_REMOTE_WORK_TAG` is neither an operation nor a
  tag (it is a null pointer, `detail/grpcContextImplementation.hpp:48`).
- `OperationsAssumption`: "no assignment" is not a pair of executors and a
  destroyed executor is not a record of context and options.

### Only model-checked

- Everything about liveness (`RunsEnd` and `ShutdownEnds` of `Examples`, both
  properties of `PollContext`, the temporal properties of the other
  components): fairness is out of the prover's reach.

## 5. Not modelled, and the plan

- Memory orders weaker than sequential consistency: a step is atomic and
  immediately visible.
- The memory resource behind the local allocator: memory is an owner or an
  address that is free, not bytes.
- Compile-time adaptors (`bindAllocator.hpp`, `detail/unbind.hpp`,
  `detail/asioForward.hpp`, ...): they have no state and decide nothing at run
  time.
- The file transfer example and `helper/whenBoth.hpp`: half of it is file I/O
  on an `io_context`. Its `when_both` increments a counter and loads it again
  (`whenBoth.hpp:43`), so that two threads can both see 2 and invoke the
  completion handler twice.
- The TCP side of the share-io-context example (with the `abort_if_not` of
  `share-io-context-server.cpp:39`), the check of the servers that they have
  been built (`abort_if_not(bool{server})`), the snippets for the
  documentation, build files and tests.
- An awaitable `repeatedly_request` whose first `co_spawn` throws in a thread
  other than the event loop's: the destructor of the operation would touch the
  local queue from there (`detail/repeatedlyRequest.hpp:384`). The slot of an
  initiator that has thrown keeps its stop function as well; the model assumes
  that the user does not cancel what was never begun.
- What the receiver of a `repeatedly_request` sender does with its completion:
  a `set_value` that throws into `set_error` is one completion there.

Next, in this order:

1. The composition of `GrpcContext` with `IntrusiveQueues`, so that
   `QueueContract` and `ImplementsQueues` become one statement.
2. `when_both` and the file transfer, with two execution contexts.
