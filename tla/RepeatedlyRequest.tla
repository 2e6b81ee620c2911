-------------------------- MODULE RepeatedlyRequest --------------------------
(***************************************************************************)
(* agrpc::repeatedly_request with a completion token: the variant with an   *)
(* ordinary request handler ("handler", RepeatedlyRequestOperation) and the *)
(* one whose request handler is a coroutine ("awaitable",                   *)
(* RepeatedlyRequestAwaitableOperation).  One call of it, started in the    *)
(* thread of the event loop or in another one; its requests, its request    *)
(* handlers, the cancellation slot, the shutdown of the server, the         *)
(* destructor of the context, and the completion handler with its work      *)
(* tracker.  The event loop is abstracted to one event or queued operation  *)
(* at a time; GrpcContext models its queues.                                *)
(***************************************************************************)
EXTENDS Integers, Sequences, FiniteSets

CONSTANTS
    Contexts,      \* bound: RPCContexts that can be allocated at one time
    MaxHandlers,   \* bound: request handler coroutines at one time
    None

ASSUME RepeatedlyRequestAssumption ==
    /\ MaxHandlers \in Nat \ {0}
    /\ None \notin Contexts

VARIABLES
    kind,             \* "handler" or "awaitable"
    executor,         \* of the completion handler: the same context ("grpc"),
                      \* a system executor ("inline") or another context
    starting,         \* the call of the initiator: "idle", "initiate", "done"
    starter,          \* its thread
    operation,        \* "none", "alive", "freed"
    abandoned,        \* nothing refers to the operation any more
    stopped,          \* stop_context() of the operation
    work,             \* outstanding_work of the context
    foreign_work,     \* the same of the completion handler's other context
    tracker,          \* the completion handler tracks work
    request,          \* "none", "pending", or its event: "ok", "failed"
    owner,            \* of each RPCContext: "free", "request", "loop", "handler"
    rpc_context,      \* the member
    buffer,           \* the BufferOperation: "none", "alive", "freed"
    buffer_used,      \* an operation lives in its buffer
    queue,            \* operations queued in the context
    handlers,         \* request handler coroutines that are suspended
    loop,             \* the next step of the event loop
    invoked,          \* the completion handler: "no", "posted", "yes", "dropped"
    server_shutdown,
    draining          \* the destructor of the context

configVars == <<kind, executor>>
startVars == <<starting, starter>>
handlerVars == <<tracker, foreign_work, invoked>>
serverVars == <<server_shutdown, draining>>
contextVars == <<owner, rpc_context>>
bufferVars == <<buffer, buffer_used>>
vars == <<configVars, startVars, operation, abandoned, stopped, work, handlerVars,
          request, contextVars, bufferVars, queue, handlers, loop, serverVars>>

LoopSteps == {"idle", "repeat", "handler", "destroying", "invoke", "tracker"}

TypeOK ==
    /\ kind \in {"handler", "awaitable"}
    /\ executor \in {"grpc", "inline", "foreign"}
    /\ starting \in {"idle", "initiate", "done"}
    /\ starter \in {"loop", "other"}
    /\ operation \in {"none", "alive", "freed"}
    /\ abandoned \in BOOLEAN /\ stopped \in BOOLEAN /\ tracker \in BOOLEAN
    /\ work \in Nat /\ foreign_work \in 0..2
    /\ request \in {"none", "pending", "ok", "failed"}
    /\ owner \in [Contexts -> {"free", "request", "loop", "handler"}]
    /\ rpc_context \in Contexts \cup {None}
    /\ buffer \in {"none", "alive", "freed"} /\ buffer_used \in BOOLEAN
    /\ queue \in Seq({"self", "coroutine", "buffer"})
    /\ handlers \in 0..MaxHandlers
    /\ loop \in LoopSteps
    /\ invoked \in {"no", "posted", "yes", "dropped"}
    /\ server_shutdown \in BOOLEAN /\ draining \in BOOLEAN

Init ==
    /\ kind \in {"handler", "awaitable"}
    /\ executor \in {"grpc", "inline", "foreign"}
    /\ starting = "idle" /\ starter = "loop"
    /\ operation = "none" /\ abandoned = FALSE /\ stopped = FALSE
    /\ work = 0 /\ foreign_work = 0 /\ tracker = FALSE
    /\ request = "none"
    /\ owner = [c \in Contexts |-> "free"] /\ rpc_context = None
    /\ buffer = "none" /\ buffer_used = FALSE
    /\ queue = <<>> /\ handlers = 0
    /\ loop = "idle" /\ invoked = "no"
    /\ server_shutdown = FALSE /\ draining = FALSE

LoopIsFree == loop = "idle" /\ ~(starting = "initiate" /\ starter = "loop")

Units(condition) == IF condition THEN 1 ELSE 0
TracksGrpcContext == tracker /\ executor = "grpc"
-----------------------------------------------------------------------------
(* Starting                                                                 *)

(* BasicRepeatedlyRequestInitiator: the operation is counted, as are the    *)
(* buffer of the awaitable variant and the executor that the completion     *)
(* handler tracks.  Then the slot gets its RepeatedlyRequestStopFunction.   *)
RepeatedlyRequestInitiator(t) ==
    /\ starting = "idle" /\ ~draining
    /\ starting' = "initiate" /\ starter' = t
    /\ operation' = "alive"
    /\ tracker' = (executor # "inline")
    /\ foreign_work' = Units(executor = "foreign")
    /\ buffer' = IF kind = "awaitable" THEN "alive" ELSE "none"
    /\ work' = work + 1 + Units(kind = "awaitable") + Units(executor = "grpc")
    /\ UNCHANGED <<configVars, abandoned, stopped, invoked, request, contextVars,
                   buffer_used, queue, handlers, loop, serverVars>>

(* initiate_repeatedly_request of the operation, unless it is stopped:      *)
(* allocate the next RPCContext and give it to gRPC ...                     *)
RequestWithContext(owners) ==
    \E c \in Contexts :
        /\ owners[c] = "free"
        /\ owner' = [owners EXCEPT ![c] = "request"]
        /\ rpc_context' = c
        /\ request' = "pending"
        /\ work' = work + 1

(* ... or spawn the next coroutine.  External: co_spawn() counts the        *)
(* coroutine, and the posted function that starts it.                       *)
SpawnRequest ==
    /\ queue' = Append(queue, "coroutine")
    /\ work' = work + 2

(* The one who cannot repeat queues the operation itself.                   *)
InitiateRepeatedlyRequest ==
    /\ starting = "initiate"
    /\ \/ /\ stopped
          /\ queue' = Append(queue, "self")
          /\ UNCHANGED <<work, contextVars, request>>
       \/ /\ ~stopped /\ kind = "handler"
          /\ RequestWithContext(owner)
          /\ UNCHANGED queue
       \/ /\ ~stopped /\ kind = "awaitable"
          /\ SpawnRequest
          /\ UNCHANGED <<contextVars, request>>
    /\ starting' = "done"
    /\ UNCHANGED <<configVars, starter, operation, abandoned, stopped, handlerVars,
                   bufferVars, handlers, loop, serverVars>>

(* The user may emit the signal in the thread of the event loop, between    *)
(* events or in a request handler, until the completion handler is invoked. *)
(* (An initiator that throws has begun nothing that could be cancelled.)    *)
MayEmit ==
    /\ starting # "idle" /\ invoked \in {"no", "posted"} /\ ~draining
    /\ LoopIsFree \/ loop = "handler"

(* The slot keeps the function and its pointer to stop_context().           *)
RepeatedlyRequestStopFunction ==
    /\ MayEmit /\ ~stopped
    /\ stopped' = TRUE
    /\ UNCHANGED <<configVars, startVars, operation, abandoned, work, handlerVars,
                   request, contextVars, bufferVars, queue, handlers, loop, serverVars>>
-----------------------------------------------------------------------------
(* RepeatedlyRequestOperation::on_request_complete                          *)

(* Mutant: the destructor of the operation frees the buffer.                *)
FreeOperationWithBuffer(rest) ==
    /\ operation' = "freed"
    /\ buffer' = IF kind = "awaitable" THEN "freed" ELSE buffer
    /\ queue' = rest

(* The destructor of the operation queues the buffer, in which the request  *)
(* that is being destroyed may live.                                        *)
FreeOperation(rest) ==
    /\ operation' = "freed"
    /\ UNCHANGED buffer
    /\ queue' = IF kind = "awaitable" THEN Append(rest, "buffer") ELSE rest

(* Its completion handler goes without being invoked, the tracker with it.  *)
DropHandler ==
    /\ tracker' = FALSE
    /\ foreign_work' = foreign_work - Units(executor = "foreign")
    /\ invoked' = "dropped"

(* The allocation of the first context, or co_spawn(), throws out of the    *)
(* initiator: it frees the operation.  (The destructor of the awaitable     *)
(* variant queues the buffer, which only the event loop's thread may do.)   *)
InitiateThrows ==
    /\ starting = "initiate" /\ ~stopped
    /\ kind = "awaitable" => starter = "loop"
    /\ FreeOperation(queue)
    /\ DropHandler
    /\ work' = work - 1 - Units(TracksGrpcContext)
    /\ starting' = "done"
    /\ UNCHANGED <<configVars, starter, abandoned, stopped, request, contextVars,
                   buffer_used, handlers, loop, serverVars>>

(* A request has arrived: ptr takes the context over.                       *)
TakeContext ==
    /\ kind = "handler" /\ LoopIsFree /\ request = "ok" /\ ~draining
    /\ owner' = [owner EXCEPT ![rpc_context] = "loop"]
    /\ request' = "none" /\ loop' = "repeat"
    /\ UNCHANGED <<configVars, startVars, operation, abandoned, stopped, work,
                   handlerVars, rpc_context, bufferVars, queue, handlers, serverVars>>

HandContextOver == [c \in Contexts |-> IF owner[c] = "loop" THEN "handler" ELSE owner[c]]

(* The next request is made before the handler gets this one.               *)
RepeatAndHandle ==
    /\ loop = "repeat" /\ kind = "handler"
    /\ IF stopped
       THEN owner' = HandContextOver /\ UNCHANGED <<work, rpc_context, request>>
       ELSE RequestWithContext(HandContextOver)
    /\ loop' = "handler"
    /\ UNCHANGED <<configVars, startVars, operation, abandoned, stopped, handlerVars,
                   bufferVars, queue, handlers, serverVars>>

(* The allocation of the next context throws out of run(): ptr frees this   *)
(* one, and nobody refers to the operation any more.                        *)
RepeatThrows ==
    /\ loop = "repeat" /\ kind = "handler" /\ ~stopped
    /\ owner' = [c \in Contexts |-> IF owner[c] = "loop" THEN "free" ELSE owner[c]]
    /\ abandoned' = TRUE
    /\ work' = work - 1
    /\ loop' = "idle"
    /\ UNCHANGED <<configVars, startVars, operation, stopped, handlerVars, request,
                   rpc_context, bufferVars, queue, handlers, serverVars>>

(* Mutant: the operation is queued also when it is repeated.                *)
RequestHandlerReturnsAlwaysQueues ==
    /\ loop = "handler" /\ kind = "handler"
    /\ queue' = Append(queue, "self")
    /\ work' = work - 1
    /\ loop' = "idle"
    /\ UNCHANGED <<configVars, startVars, operation, abandoned, stopped, handlerVars,
                   request, contextVars, bufferVars, handlers, serverVars>>

(* request_handler returns, or throws: the guard queues the operation if no *)
(* request was made, and the event loop finishes the work of the event.     *)
RequestHandlerReturns ==
    /\ loop = "handler" /\ kind = "handler"
    /\ queue' = IF request = "none" THEN Append(queue, "self") ELSE queue
    /\ work' = work - 1
    /\ loop' = "idle"
    /\ UNCHANGED <<configVars, startVars, operation, abandoned, stopped, handlerVars,
                   request, contextVars, bufferVars, handlers, serverVars>>

(* Mutant: a request that fails is made again.                              *)
RequestFailedRetries ==
    /\ kind = "handler" /\ LoopIsFree /\ request = "failed" /\ ~draining
    /\ request' = "pending"
    /\ UNCHANGED <<configVars, startVars, operation, abandoned, stopped, work,
                   handlerVars, contextVars, queue, bufferVars, handlers, loop, serverVars>>

(* The server is shut down.                                                 *)
RequestFailed ==
    /\ kind = "handler" /\ LoopIsFree /\ request = "failed" /\ ~draining
    /\ owner' = [owner EXCEPT ![rpc_context] = "free"]
    /\ queue' = Append(queue, "self")
    /\ request' = "none"
    /\ work' = work - 1
    /\ UNCHANGED <<configVars, startVars, operation, abandoned, stopped, handlerVars,
                   rpc_context, bufferVars, handlers, loop, serverVars>>

(* Mutant: without WorkFinishedOnExit.                                      *)
DrainRequestUncounted ==
    /\ kind = "handler" /\ LoopIsFree /\ request # "none" /\ request # "pending"
    /\ draining
    /\ owner' = [owner EXCEPT ![rpc_context] = "free"]
    /\ FreeOperation(queue)
    /\ DropHandler
    /\ work' = work - 1 - Units(TracksGrpcContext)
    /\ request' = "none"
    /\ UNCHANGED <<configVars, startVars, abandoned, stopped, rpc_context, buffer_used,
                   handlers, loop, serverVars>>

(* InvokeHandler::NO: the work of the operation is finished here, the work  *)
(* of the event by the drain.                                               *)
DrainRequest ==
    /\ kind = "handler" /\ LoopIsFree /\ request # "none" /\ request # "pending"
    /\ draining
    /\ owner' = [owner EXCEPT ![rpc_context] = "free"]
    /\ FreeOperation(queue)
    /\ DropHandler
    /\ work' = work - 2 - Units(TracksGrpcContext)
    /\ request' = "none"
    /\ UNCHANGED <<configVars, startVars, abandoned, stopped, rpc_context, buffer_used,
                   handlers, loop, serverVars>>
-----------------------------------------------------------------------------
(* RepeatedlyRequestAwaitableOperation::perform_request_and_repeat          *)

(* The coroutine starts and makes its request in the one-shot buffer.       *)
CoroutineRequests ==
    /\ LoopIsFree /\ queue # <<>> /\ Head(queue) = "coroutine" /\ ~draining
    /\ queue' = Tail(queue)
    /\ buffer_used' = TRUE
    /\ request' = "pending"
    /\ UNCHANGED <<configVars, startVars, operation, abandoned, stopped, work,
                   handlerVars, contextVars, buffer, handlers, loop, serverVars>>

(* A coroutine that is destroyed before it has started has no guard yet:    *)
(* nobody refers to the operation and its buffer any more.                  *)
CoroutineNeverStarts ==
    /\ LoopIsFree /\ queue # <<>> /\ Head(queue) = "coroutine" /\ draining
    /\ queue' = Tail(queue)
    /\ abandoned' = TRUE
    /\ work' = work - 2
    /\ UNCHANGED <<configVars, startVars, operation, stopped, handlerVars, request,
                   contextVars, bufferVars, handlers, loop, serverVars>>

(* The request's operation leaves the buffer before the coroutine resumes.  *)
CoroutineResumes ==
    /\ kind = "awaitable" /\ LoopIsFree /\ request \in {"ok", "failed"} /\ ~draining
    /\ buffer_used' = FALSE
    /\ request' = "none"
    /\ IF request = "ok"
       THEN loop' = "repeat" /\ UNCHANGED <<queue, work>>
       ELSE queue' = Append(queue, "self") /\ work' = work - 2 /\ UNCHANGED loop
    /\ UNCHANGED <<configVars, startVars, operation, abandoned, stopped, handlerVars,
                   contextVars, buffer, handlers, serverVars>>

CoroutineRepeats ==
    /\ loop = "repeat" /\ kind = "awaitable"
    /\ IF stopped THEN queue' = Append(queue, "self") /\ UNCHANGED work
                  ELSE SpawnRequest
    /\ loop' = "handler"
    /\ UNCHANGED <<configVars, startVars, operation, abandoned, stopped, handlerVars,
                   request, contextVars, bufferVars, handlers, serverVars>>

(* The copy of the request handler or co_spawn() throws when the guard has  *)
(* been released: the coroutine ends, its exception leaves run(), and       *)
(* nobody refers to the operation and its buffer any more.                  *)
CoroutineRepeatThrows ==
    /\ loop = "repeat" /\ kind = "awaitable"
    /\ abandoned' = TRUE
    /\ work' = work - 2
    /\ loop' = "idle"
    /\ UNCHANGED <<configVars, startVars, operation, stopped, handlerVars, request,
                   contextVars, bufferVars, queue, handlers, serverVars>>

(* The coroutine suspends in its request handler; the event is over.        *)
CoroutineSuspends ==
    /\ loop = "handler" /\ kind = "awaitable"
    /\ handlers' = handlers + 1
    /\ work' = work - 1
    /\ loop' = "idle"
    /\ UNCHANGED <<configVars, startVars, operation, abandoned, stopped, handlerVars,
                   request, contextVars, bufferVars, queue, serverVars>>

(* The drain destroys the operation in the buffer, with it the coroutine    *)
(* that waits for it, with it, by the guard, the operation itself.          *)
DestroyCoroutine ==
    /\ kind = "awaitable" /\ LoopIsFree /\ request \in {"ok", "failed"} /\ draining
    /\ FreeOperation(queue)
    /\ DropHandler
    /\ work' = work - 2 - Units(TracksGrpcContext)
    /\ loop' = "destroying"
    /\ UNCHANGED <<configVars, startVars, abandoned, stopped, request, contextVars,
                   buffer_used, handlers, serverVars>>

RequestDestroyed ==
    /\ loop = "destroying"
    /\ buffer_used' = FALSE
    /\ request' = "none"
    /\ work' = work - 1
    /\ loop' = "idle"
    /\ UNCHANGED <<configVars, startVars, operation, abandoned, stopped, handlerVars,
                   contextVars, buffer, queue, handlers, serverVars>>

FreeBuffer ==
    /\ LoopIsFree /\ queue # <<>> /\ Head(queue) = "buffer"
    /\ queue' = Tail(queue)
    /\ buffer' = "freed"
    /\ work' = work - 1
    /\ UNCHANGED <<configVars, startVars, operation, abandoned, stopped, handlerVars,
                   request, contextVars, buffer_used, handlers, loop, serverVars>>
-----------------------------------------------------------------------------
(* ON_STOP_COMPLETE and the completion handler                              *)

SelfIsNext == LoopIsFree /\ queue # <<>> /\ Head(queue) = "self"

(* The completion handler is moved out, then the operation is freed.        *)
OnStopComplete ==
    /\ SelfIsNext /\ ~draining
    /\ FreeOperation(Tail(queue))
    /\ loop' = "invoke"
    /\ UNCHANGED <<configVars, startVars, abandoned, stopped, work, handlerVars,
                   request, contextVars, buffer_used, handlers, serverVars>>

DrainOperation ==
    /\ SelfIsNext /\ draining
    /\ FreeOperation(Tail(queue))
    /\ DropHandler
    /\ work' = work - 1 - Units(TracksGrpcContext)
    /\ UNCHANGED <<configVars, startVars, abandoned, stopped, request, contextVars,
                   buffer_used, handlers, loop, serverVars>>

(* Mutant: the tracker is released before the handler is handed over.       *)
CompleteReleasesFirst ==
    /\ loop = "invoke"
    /\ tracker' = FALSE
    /\ foreign_work' = foreign_work - Units(executor = "foreign")
    /\ work' = work - Units(TracksGrpcContext)
    /\ loop' = "tracker"
    /\ UNCHANGED <<configVars, startVars, operation, abandoned, stopped, invoked,
                   request, contextVars, bufferVars, queue, handlers, serverVars>>

(* WorkTrackingCompletionHandler::complete: blocking.possibly, so that the  *)
(* handler is invoked here unless it belongs to another context ...         *)
Complete ==
    /\ loop = "invoke"
    /\ invoked' = IF executor = "foreign" THEN "posted" ELSE "yes"
    /\ foreign_work' = foreign_work + Units(executor = "foreign")
    /\ loop' = "tracker"
    /\ UNCHANGED <<configVars, startVars, operation, abandoned, stopped, work, tracker,
                   request, contextVars, bufferVars, queue, handlers, serverVars>>

(* Mutant: destroyed as the copy that it was moved from, too.               *)
ReleaseTrackerTwice ==
    /\ loop = "tracker"
    /\ tracker' = FALSE
    /\ foreign_work' = foreign_work - 2 * Units(executor = "foreign")
    /\ work' = work - 1 - Units(TracksGrpcContext)
    /\ loop' = "idle"
    /\ UNCHANGED <<configVars, startVars, operation, abandoned, stopped, invoked,
                   request, contextVars, bufferVars, queue, handlers, serverVars>>

(* ... and the tracker is destroyed after that.                             *)
ReleaseTracker ==
    /\ loop = "tracker"
    /\ tracker' = FALSE
    /\ foreign_work' = foreign_work - Units(tracker /\ executor = "foreign")
    /\ work' = work - 1 - Units(TracksGrpcContext)
    /\ loop' = "idle"
    /\ UNCHANGED <<configVars, startVars, operation, abandoned, stopped, invoked,
                   request, contextVars, bufferVars, queue, handlers, serverVars>>

(* External: the other context runs the completion handler.                 *)
ForeignContextRuns ==
    /\ invoked = "posted"
    /\ invoked' = "yes"
    /\ foreign_work' = foreign_work - 1
    /\ UNCHANGED <<configVars, startVars, operation, abandoned, stopped, work, tracker,
                   request, contextVars, bufferVars, queue, handlers, loop, serverVars>>
-----------------------------------------------------------------------------
(* Request handlers, the server, the destructor                             *)

OnlyWork ==
    UNCHANGED <<configVars, startVars, operation, abandoned, stopped, handlerVars,
                request, rpc_context, bufferVars, queue, loop, serverVars>>

(* The last copy of a RepeatedlyRequestContext is destroyed.                *)
FreeContext(c) ==
    /\ owner[c] = "handler"
    /\ owner' = [owner EXCEPT ![c] = "free"]
    /\ UNCHANGED <<work, handlers>>
    /\ OnlyWork

CoroutineEnds ==
    /\ handlers > 0
    /\ handlers' = handlers - 1
    /\ work' = work - 1
    /\ UNCHANGED owner
    /\ OnlyWork

(* External: gRPC completes the request.  (Within the bounds.)              *)
RequestCompletes ==
    /\ request = "pending"
    /\ \/ /\ ~server_shutdown
          /\ \E c \in Contexts : owner[c] = "free"
          /\ handlers < MaxHandlers
          /\ request' = "ok"
       \/ server_shutdown /\ request' = "failed"
    /\ UNCHANGED <<configVars, startVars, operation, abandoned, stopped, work, handlerVars,
                   contextVars, bufferVars, queue, handlers, loop, serverVars>>

ShutdownServer ==
    /\ ~server_shutdown
    /\ server_shutdown' = TRUE
    /\ UNCHANGED <<configVars, startVars, operation, abandoned, stopped, work, handlerVars,
                   request, contextVars, bufferVars, queue, handlers, loop, draining>>

(* "Make sure to shutdown the server before destructing the grpc_context."  *)
DestroyContext ==
    /\ server_shutdown /\ ~draining
    /\ LoopIsFree /\ starting # "initiate"
    /\ draining' = TRUE
    /\ UNCHANGED <<configVars, startVars, operation, abandoned, stopped, work, handlerVars,
                   request, contextVars, bufferVars, queue, handlers, loop,
                   server_shutdown>>
-----------------------------------------------------------------------------
EventLoop ==
    \/ TakeContext \/ RepeatAndHandle \/ RepeatThrows \/ RequestHandlerReturns
    \/ RequestFailed \/ DrainRequest
    \/ CoroutineRequests \/ CoroutineNeverStarts \/ CoroutineResumes
    \/ CoroutineRepeats \/ CoroutineRepeatThrows \/ CoroutineSuspends
    \/ DestroyCoroutine
    \/ RequestDestroyed \/ FreeBuffer
    \/ OnStopComplete \/ DrainOperation \/ Complete \/ ReleaseTracker

Next ==
    \/ \E t \in {"loop", "other"} : RepeatedlyRequestInitiator(t)
    \/ InitiateRepeatedlyRequest \/ InitiateThrows
    \/ RepeatedlyRequestStopFunction
    \/ EventLoop
    \/ ForeignContextRuns
    \/ \E c \in Contexts : FreeContext(c)
    \/ CoroutineEnds
    \/ RequestCompletes
    \/ ShutdownServer
    \/ DestroyContext

(* The threads go on with what they have begun, the event loop and the      *)
(* other context are run, and a server that shuts down fails its requests.  *)
Fairness ==
    /\ WF_vars(InitiateRepeatedlyRequest \/ InitiateThrows)
    /\ WF_vars(EventLoop)
    /\ WF_vars(ForeignContextRuns)
    /\ WF_vars(RequestCompletes)

Spec == Init /\ [][Next]_vars /\ Fairness
-----------------------------------------------------------------------------
Count(what) == Cardinality({i \in DOMAIN queue : queue[i] = what})

(* What counts on the context: the operation until its completion handler   *)
(* has been invoked (for ever if it is abandoned), its buffer, its request, *)
(* the event in hand, every coroutine, and the executor that is tracked.    *)
(* So the context is not stopped early and, nothing abandoned, not late.    *)
WorkAccounting ==
    work = Units(operation = "alive" \/ loop \in {"invoke", "tracker"})
           + Units(buffer = "alive")
           + Units(request # "none")
           + Units(kind = "awaitable" /\ request # "none" /\ loop # "destroying")
           + Units(loop \in {"repeat", "handler"})
           + Units(kind = "awaitable" /\ loop \in {"repeat", "handler"})
           + 2 * Count("coroutine") + handlers
           + Units(TracksGrpcContext)

(* A living operation is referred to by exactly one of: the initiator, a    *)
(* request, the event loop, the queue; a freed one by none of them.  So it  *)
(* is completed once, and none of them uses it after it is freed, whichever *)
(* of request and handler goes first.  The slot refers to it as well: a     *)
(* signal finds it alive as long as the completion handler has not been     *)
(* handed to its executor (after that: StopFunctionFindsOperation).         *)
OneContinuation ==
    LET references ==
            Units(starting = "initiate") + Units(request # "none" /\ loop # "destroying")
            + Count("self") + Count("coroutine")
            + Units(loop = "repeat")
            + Units(loop = "handler" /\ request = "none"
                    /\ Count("self") + Count("coroutine") = 0)
    IN /\ references = Units(operation = "alive" /\ ~abandoned)
       /\ MayEmit /\ invoked = "no" => operation = "alive"

(* This does not hold.  repeatedly_request "will complete when it was       *)
(* cancelled", so a signal that is emitted before the completion handler is *)
(* invoked has to find the operation whose stop_context() it sets.  The     *)
(* operation is freed before a completion handler of another context is     *)
(* posted to it, and the slot is not cleared.                               *)
StopFunctionFindsOperation == MayEmit /\ ~stopped => operation = "alive"

(* Every RPCContext that gRPC writes to is the one in rpc_context and is    *)
(* freed by its owner alone, and the one-shot buffer holds one operation at *)
(* a time and outlives it, also when the drain destroys everything at once. *)
MemoryOwned ==
    /\ \A c \in Contexts : owner[c] = "request" <=>
                               kind = "handler" /\ request # "none" /\ c = rpc_context
    /\ Cardinality({c \in Contexts : owner[c] = "loop"}) =
           Units(kind = "handler" /\ loop = "repeat")
    /\ buffer_used <=> kind = "awaitable" /\ request # "none"
    /\ buffer_used => buffer = "alive"
    /\ Count("buffer") = Units(operation = "freed" /\ buffer = "alive")

(* The tracker: from the start until the completion handler has run, its    *)
(* own context does not run out of work.                                    *)
HandlerContextHasWork ==
    starting # "idle" /\ executor = "foreign" /\ invoked \in {"no", "posted"}
        => foreign_work > 0

(* "agrpc::repeatedly_request will complete when it was cancelled, the      *)
(* GrpcContext was stopped or the grpc::Server been shutdown": a shutdown,  *)
(* or a request that arrives after the cancellation, leads to the           *)
(* completion handler, which the destructor of the context and an initiator *)
(* that throws destroy instead; an operation that is abandoned keeps it for *)
(* ever.  A context that is stopped, and not run again, is not covered: its *)
(* event loop takes no step.                                                *)
Completes ==
    (operation = "alive" /\ (server_shutdown \/ (stopped /\ request = "ok")))
        ~> (invoked \in {"yes", "dropped"} \/ abandoned)
=============================================================================
