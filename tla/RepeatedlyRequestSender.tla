---------------------- MODULE RepeatedlyRequestSender -----------------------
(***************************************************************************)
(* The operation state of agrpc::repeatedly_request with use_sender.  It    *)
(* asks gRPC for one request at a time, into a RequestHandlerOperation      *)
(* ("context") that then runs the sender made by the request handler, and   *)
(* completes its receiver when it is stopped, the server is shut down or    *)
(* the request handler throws.                                              *)
(*                                                                          *)
(* start(), request_stop() and the event loop run in threads of their own   *)
(* or share one: a behaviour is in one of the environments that the         *)
(* constants allow.  The GrpcContext is abstracted to the counter of        *)
(* outstanding work and an event loop that takes one event at a time and    *)
(* finishes its work afterwards.                                            *)
(***************************************************************************)
EXTENDS StopCallback, Naturals, FiniteSets

CONSTANTS
    Loop,                 \* the thread of the event loop
    StartThreads,         \* threads that may call start()
    StopThreads,          \* threads that may call request_stop()
    AllocationMayThrow,   \* subset of BOOLEAN
    Contexts,             \* addresses of RequestHandlerOperations
    None

ASSUME RepeatedlyRequestSenderAssumption ==
    /\ IsFiniteSet(Contexts)
    /\ AllocationMayThrow \subseteq BOOLEAN
    /\ None \notin Contexts

VARIABLES
    env,                         \* the environment
    stopped,                     \* RepeatedlyRequestStopContext::stopped
    request_handler_operation,   \* the member
    alive,                       \* the operation state exists
    receiver,                    \* "none", or how it has been completed
    outstanding_work,            \* of the GrpcContext
    draining,                    \* ~GrpcContext is running
    \* gRPC
    server_shutdown,
    request,                     \* "none", "pending", or an event: "ok", "failed"
    target,                      \* the context that gRPC writes to
    \* heap
    allocated,                   \* contexts that are allocated
    running,                     \* contexts whose handler operation runs
    \* threads
    start,                       \* next step of start()
    stopper,                     \* next step of request_stop()
    loop,                        \* next step of on_request_complete()
    ptr,                         \* its local variables
    is_repeated,
    signal                       \* the completion it is about to deliver

opVars == <<stopped, request_handler_operation, alive, receiver>>
requestVars == <<request, target>>
workVars == <<outstanding_work, requestVars, allocated, running>>
grpcVars == <<draining, server_shutdown, env>>
otherVars == <<grpcVars, start, stopper>>
loopVars == <<loop, ptr, is_repeated, signal>>
vars == <<stopVars, opVars, workVars, otherVars, loopVars>>

Environments ==
    [start_thread : StartThreads, stop_thread : StopThreads,
     allocation_throws : AllocationMayThrow]

TypeOK ==
    /\ StopTypeOK
    /\ env \in Environments
    /\ stopped \in BOOLEAN
    /\ request_handler_operation \in Contexts \cup {None}
    /\ alive \in BOOLEAN
    /\ receiver \in {"none", "value", "done", "error"}
    /\ outstanding_work \in Nat
    /\ draining \in BOOLEAN
    /\ server_shutdown \in BOOLEAN
    /\ request \in {"none", "pending", "ok", "failed"}
    /\ target \in Contexts \cup {None}
    /\ allocated \in SUBSET Contexts
    /\ running \in SUBSET Contexts
    /\ start \in {"created", "token", "emplace", "initiate", "returned"}
    /\ stopper \in {"user", "store", "reset", "disengage", "return"}
    /\ loop \in {"idle", "handler", "initiate", "start", "repeat",
                 "reset", "wait", "signal", "exit"}
    /\ ptr \in Contexts \cup {None}
    /\ is_repeated \in BOOLEAN
    /\ signal \in {"value", "done", "error"}

Init ==
    /\ StopInit
    /\ env \in Environments
    /\ stopped = FALSE
    /\ request_handler_operation = None
    /\ alive = TRUE
    /\ receiver = "none"
    /\ outstanding_work = 0
    /\ draining = FALSE
    /\ server_shutdown = FALSE
    /\ request = "none"
    /\ target = None
    /\ allocated = {}
    /\ running = {}
    /\ start = "created"
    /\ stopper = "user"
    /\ loop = "idle"
    /\ ptr = None
    /\ is_repeated = FALSE
    /\ signal = "done"
-----------------------------------------------------------------------------
(* Threads                                                                  *)

InStart == start \in {"token", "emplace", "initiate"}

InStop == stopper # "user"

(* The thread is in user code, which may begin a call.                      *)
CanCall(t) ==
    /\ t = env.start_thread => ~InStart
    /\ t = env.stop_thread => ~InStop
    /\ t = Loop => loop \in {"idle", "handler", "repeat"}

LoopFrom(step) ==
    /\ loop = step
    /\ env.start_thread = Loop => ~InStart
    /\ env.stop_thread = Loop => ~InStop

(* set_value, set_done or set_error: whoever connected the sender may       *)
(* destroy the operation state as soon as the receiver is completed.        *)
CompleteReceiver(s) == receiver' = s /\ alive' = FALSE
-----------------------------------------------------------------------------
(* initiate_repeatedly_request(), unless it finds the operation stopped     *)

RequestWithWork(c, work) ==
    /\ c \notin allocated
    /\ allocated' = allocated \cup {c}
    /\ request_handler_operation' = c
    /\ outstanding_work' = outstanding_work + work
    /\ request' = "pending"
    /\ target' = c

(* Mutant: the pending request is not counted as work.                      *)
RequestUncounted(c) == RequestWithWork(c, 0)

Request(c) == RequestWithWork(c, 1)
-----------------------------------------------------------------------------
(* start()                                                                  *)

Start ==
    /\ start = "created"
    /\ CanCall(env.start_thread)
    /\ draining => env.start_thread = Loop
    /\ IF draining
       THEN start' = "returned" /\ CompleteReceiver("done")
       ELSE start' = "token" /\ UNCHANGED <<alive, receiver>>
    /\ UNCHANGED <<stopVars, stopped, request_handler_operation, workVars,
                   grpcVars, stopper, loopVars>>

CheckStopToken ==
    /\ start = "token"
    /\ IF stop_requested
       THEN start' = "returned" /\ CompleteReceiver("done")
       ELSE start' = "emplace" /\ UNCHANGED <<alive, receiver>>
    /\ UNCHANGED <<stopVars, stopped, request_handler_operation, workVars,
                   grpcVars, stopper, loopVars>>

(* The callback's constructor calls stop() if the stop has been requested:  *)
(* its reset() finds the optional not engaged yet.                          *)
EmplaceStopContext ==
    /\ start = "emplace"
    /\ EmplaceCallback
    /\ stopped' = (stopped \/ stop_requested)
    /\ start' = "initiate"
    /\ UNCHANGED <<request_handler_operation, alive, receiver, workVars,
                   grpcVars, stopper, loopVars>>

(* The result of initiate_repeatedly_request() is not used.                 *)
StartInitiates ==
    /\ start = "initiate"
    /\ start' = "returned"
    /\ IF stopped
       THEN UNCHANGED <<request_handler_operation, outstanding_work,
                        requestVars, allocated>>
       ELSE \E c \in Contexts : Request(c)
    /\ UNCHANGED <<stopVars, stopped, alive, receiver, running, grpcVars,
                   stopper, loopVars>>
-----------------------------------------------------------------------------
(* request_stop() and the StopFunction it executes                          *)

RequestStop ==
    /\ CanCall(env.stop_thread)
    /\ MarkStopRequested
    /\ stopper' = IF callback = "registered" THEN "store" ELSE "user"
    /\ UNCHANGED <<opVars, workVars, grpcVars, start, loopVars>>

StoreStopped ==
    /\ stopper = "store"
    /\ stopped' = TRUE
    /\ stopper' = "reset"
    /\ UNCHANGED <<stopVars, request_handler_operation, alive, receiver,
                   workVars, grpcVars, start, loopVars>>

StopResets ==
    /\ stopper = "reset"
    /\ IF engaged
       THEN stopper' = "disengage" /\ DestroyInExecution
       ELSE stopper' = "return" /\ UNCHANGED stopVars
    /\ UNCHANGED <<opVars, workVars, grpcVars, start, loopVars>>

StopDisengages ==
    /\ stopper = "disengage"
    /\ stopper' = "return"
    /\ Disengage
    /\ UNCHANGED <<opVars, workVars, grpcVars, start, loopVars>>

StopReturns ==
    /\ stopper = "return"
    /\ stopper' = "user"
    /\ ExecutionReturns
    /\ UNCHANGED <<opVars, workVars, grpcVars, start, loopVars>>
-----------------------------------------------------------------------------
(* on_request_complete()                                                    *)

(* The context is taken from the member before the next request is made.    *)
(* Unless the request handler is to be invoked it is freed at once, and     *)
(* then finish() (the server has been shut down) or done() is called.       *)
TakeRequest(next) ==
    /\ LoopFrom("idle")
    /\ request \in {"ok", "failed"}
    /\ request' = "none"
    /\ target' = None
    /\ IF ~draining /\ request = "ok"
       THEN /\ loop' = "handler"
            /\ ptr' = request_handler_operation
            /\ UNCHANGED <<allocated, signal>>
       ELSE /\ loop' = next
            /\ ptr' = None
            /\ allocated' = allocated \ {request_handler_operation}
            /\ signal' = IF draining THEN "done" ELSE "value"
    /\ UNCHANGED <<stopVars, opVars, outstanding_work, running, otherVars,
                   is_repeated>>

(* Mutant: a request that fails does not complete the receiver.             *)
FailedIsIgnored == TakeRequest("exit")

OnRequestComplete == TakeRequest("reset")

(* The request handler is invoked and its sender connected.                 *)
EmplaceRequestHandlerOperation ==
    /\ LoopFrom("handler")
    /\ loop' = "initiate"
    /\ UNCHANGED <<stopVars, opVars, workVars, otherVars, ptr, is_repeated,
                   signal>>

RequestHandlerThrows ==
    /\ LoopFrom("handler")
    /\ loop' = "reset"
    /\ signal' = "error"
    /\ UNCHANGED <<stopVars, opVars, workVars, otherVars, ptr, is_repeated>>

Repeat ==
    /\ LoopFrom("initiate")
    /\ is_repeated' = ~stopped
    /\ loop' = "start"
    /\ IF stopped
       THEN UNCHANGED <<request_handler_operation, outstanding_work,
                        requestVars, allocated>>
       ELSE \E c \in Contexts : Request(c)
    /\ UNCHANGED <<stopVars, stopped, alive, receiver, running, otherVars,
                   ptr, signal>>

(* The allocation of the next context throws: ptr frees this one and the    *)
(* exception leaves on_request_complete.                                    *)
RepeatThrows ==
    /\ LoopFrom("initiate")
    /\ env.allocation_throws
    /\ ~stopped
    /\ allocated' = allocated \ {ptr}
    /\ ptr' = None
    /\ loop' = "exit"
    /\ UNCHANGED <<stopVars, opVars, outstanding_work, requestVars, running,
                   otherVars, is_repeated, signal>>

StartHandler(work, heap) ==
    /\ LoopFrom("start")
    /\ outstanding_work' = outstanding_work + work
    /\ running' = running \cup {ptr}
    /\ allocated' = heap
    /\ ptr' = None
    /\ loop' = "repeat"
    /\ UNCHANGED <<stopVars, opVars, requestVars, otherVars, is_repeated,
                   signal>>

(* Mutants: the handler operation is not counted as work; ptr is not        *)
(* released and frees the context that has been started.                    *)
StartUncounted == StartHandler(0, allocated)
StartUnreleased == StartHandler(1, allocated \ {ptr})

StartRequestHandlerOperation == StartHandler(1, allocated)

DoneIf(condition) ==
    /\ LoopFrom("repeat")
    /\ loop' = IF condition THEN "reset" ELSE "exit"
    /\ signal' = "done"
    /\ UNCHANGED <<stopVars, opVars, workVars, otherVars, ptr, is_repeated>>

(* Mutants: done() is called although the request has been repeated; done() *)
(* is forgotten.                                                            *)
DoneAlways == DoneIf(TRUE)
DoneNever == DoneIf(FALSE)

DoneUnlessRepeated == DoneIf(~is_repeated)

(* finish(), done() and the error path reset the stop callback.  If its     *)
(* destructor begins while the StopFunction is executed it waits for that   *)
(* to be completed, whatever becomes of the optional in the meantime.       *)
ResetWaits ==
    /\ LoopFrom("reset")
    /\ MustWait
    /\ loop' = "wait"
    /\ UNCHANGED <<stopVars, opVars, workVars, otherVars, ptr, is_repeated,
                   signal>>

DestructorReturns ==
    IF loop = "wait" THEN callback = "completed" ELSE ~MustWait

(* The error path then frees the context it still holds.                    *)
ResetStopContext ==
    /\ loop \in {"reset", "wait"}
    /\ LoopFrom(loop)
    /\ DestructorReturns
    /\ ResetCallback
    /\ loop' = "signal"
    /\ allocated' = allocated \ {ptr}
    /\ ptr' = None
    /\ UNCHANGED <<opVars, outstanding_work, requestVars, running, otherVars,
                   is_repeated, signal>>

(* satisfy_receiver() calls set_error if set_value throws.                  *)
SignalReceiver ==
    /\ LoopFrom("signal")
    /\ \/ CompleteReceiver(signal)
       \/ signal = "value" /\ CompleteReceiver("error")
    /\ loop' = "exit"
    /\ UNCHANGED <<stopVars, stopped, request_handler_operation, workVars,
                   otherVars, ptr, is_repeated, signal>>

(* The event loop finishes the work of the event.                           *)
EventIsFinished ==
    /\ LoopFrom("exit")
    /\ outstanding_work' = outstanding_work - 1
    /\ loop' = "idle"
    /\ UNCHANGED <<stopVars, opVars, requestVars, allocated, running,
                   otherVars, ptr, is_repeated, signal>>

(* DeallocateRequestHandlerOperationReceiver::deallocate()                  *)
Deallocate(c) ==
    /\ c \in running
    /\ running' = running \ {c}
    /\ allocated' = allocated \ {c}
    /\ outstanding_work' = outstanding_work - 1
    /\ UNCHANGED <<stopVars, opVars, requestVars, otherVars, loopVars>>
-----------------------------------------------------------------------------
(* External: gRPC, and the destructor of the GrpcContext                    *)

RequestCompletes ==
    /\ request = "pending"
    /\ \/ ~server_shutdown /\ request' = "ok"
       \/ server_shutdown /\ request' = "failed"
    /\ UNCHANGED <<stopVars, opVars, outstanding_work, target, allocated,
                   running, otherVars, loopVars>>

ShutdownServer ==
    /\ ~server_shutdown
    /\ server_shutdown' = TRUE
    /\ UNCHANGED <<stopVars, opVars, workVars, draining, env, start, stopper,
                   loopVars>>

(* The server is shut down before the GrpcContext is destroyed, and no      *)
(* other thread uses the GrpcContext while it is.                           *)
DestroyContext ==
    /\ LoopFrom("idle")
    /\ server_shutdown /\ ~draining /\ ~InStart
    /\ draining' = TRUE
    /\ UNCHANGED <<stopVars, opVars, workVars, server_shutdown, env, start,
                   stopper, loopVars>>
-----------------------------------------------------------------------------
StartStep == CheckStopToken \/ EmplaceStopContext \/ StartInitiates

StopStep == StoreStopped \/ StopResets \/ StopDisengages \/ StopReturns

LoopStep ==
    \/ OnRequestComplete
    \/ EmplaceRequestHandlerOperation
    \/ RequestHandlerThrows
    \/ Repeat
    \/ RepeatThrows
    \/ StartRequestHandlerOperation
    \/ DoneUnlessRepeated
    \/ ResetWaits
    \/ ResetStopContext
    \/ SignalReceiver
    \/ EventIsFinished

Next ==
    \/ Start
    \/ StartStep
    \/ RequestStop
    \/ StopStep
    \/ LoopStep
    \/ \E c \in Contexts : Deallocate(c)
    \/ RequestCompletes
    \/ ShutdownServer
    \/ DestroyContext

Spec == Init /\ [][Next]_vars

(* The threads go on, clients make requests until the server is shut down,  *)
(* and the senders of the request handler complete.                         *)
Fairness ==
    /\ WF_vars(StartStep)
    /\ WF_vars(StopStep)
    /\ WF_vars(LoopStep)
    /\ \A c \in Contexts : WF_vars(Deallocate(c))
    /\ WF_vars(RequestCompletes)

FairSpec == Spec /\ Fairness
-----------------------------------------------------------------------------
(* Properties                                                               *)

(* The receiver may destroy the operation state when it is completed, so by *)
(* then nothing refers to it any more: gRPC holds no tag, start() has       *)
(* returned, the stop callback is neither registered nor executing code     *)
(* that uses the operation, and on_request_complete does not return to it   *)
(* (in particular it does not complete the receiver twice).                 *)
NoUseAfterCompletion ==
    ~alive =>
        /\ request = "none"
        /\ ~InStart
        /\ callback # "registered"
        /\ stopper \notin {"store", "reset", "disengage"}
        /\ loop \in {"idle", "exit"}

(* Every context is owned by exactly one of the pending request, the        *)
(* on_request_complete in progress and its own handler operation, and freed *)
(* by the last; the single member request_handler_operation names the one   *)
(* that gRPC writes to although it is overwritten for every request.        *)
ContextOwnership ==
    /\ allocated = running \cup ({target, ptr} \ {None})
    /\ running \cap {target, ptr} = {}
    /\ target = ptr => target = None
    /\ target # None => target = request_handler_operation
    /\ (request = "none") = (target = None)

(* The outstanding work is the pending request, the event in progress and   *)
(* the running handler operations: the GrpcContext neither stops under them *)
(* nor is it kept running by anything else.                                 *)
WorkAccounting ==
    outstanding_work = Cardinality(running)
                         + (IF request # "none" THEN 1 ELSE 0)
                         + (IF loop # "idle" THEN 1 ELSE 0)

(* "agrpc::repeatedly_request will complete when it was cancelled": a       *)
(* started operation whose stop token is signalled completes its receiver,  *)
(* given that requests keep arriving or the server is shut down.            *)
CancelledCompletes ==
    (stop_requested /\ start # "created") ~> (receiver # "none")

(* It does complete if the stop is requested in the thread of the event     *)
(* loop and start() is called there too or has made the first request.      *)
CancelledInLoopThreadCompletes ==
    (/\ stop_requested
     /\ env.stop_thread = Loop
     /\ start # "created"
     /\ env.start_thread = Loop \/ request # "none"
     /\ ~env.allocation_throws) ~> (receiver # "none")

(* "... or the grpc::Server been shutdown": a started operation completes   *)
(* then, whichever threads are involved, unless it is stopped as well.      *)
ServerShutdownCompletes ==
    (server_shutdown /\ start # "created" /\ ~env.allocation_throws)
        ~> (receiver # "none" \/ stop_requested)
=============================================================================
