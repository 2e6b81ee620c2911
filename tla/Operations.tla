----------------------------- MODULE Operations -----------------------------
(***************************************************************************)
(* What keeps a GrpcContext alive: executors that track work, functions     *)
(* submitted through executors, senders, waits for a grpc::Alarm and client *)
(* requests that hand their responder to the completion handler.  Three     *)
(* scenarios share the work counters:                                       *)
(*   "executors"  executors of several contexts are converted, copied,      *)
(*                moved, assigned, destroyed and submitted to;              *)
(*   "waits"      two operations use one alarm (or the queue) one after the *)
(*                other, with a stop request, a cancellation slot and the   *)
(*                destructor of the context;                                *)
(*   "request"    grpc_initiate_with_payload.                               *)
(* The event loop is abstracted to one event at a time; GrpcContext models  *)
(* its queues.  One thread, "loop", runs it, "other" stands for the rest.   *)
(***************************************************************************)
EXTENDS StopCallback, Naturals, FiniteSets

CONSTANTS
    Contexts,        \* GrpcContexts
    Home,            \* the one that waits and requests use
    Executors,       \* places of executor objects
    MaxPosted,       \* bound: functions submitted to one context at a time
    RequestThreads,  \* who starts the request: "loop" or "other"
    None

ASSUME OperationsAssumption ==
    /\ Home \in Contexts
    /\ MaxPosted \in Nat
    /\ RequestThreads \subseteq {"loop", "other"}
    /\ None \notin Contexts \cup {"first", "second"}
    /\ None \notin Executors \X Executors
    /\ None \notin [context : Contexts \cup {None},
                    options : SUBSET {"blocking_never", "relationship_continuation",
                                      "outstanding_work_tracked"}]

VARIABLES
    scenario,
    work,        \* outstanding_work of each context
    executor,    \* [context, options] of each place, or None
    assigning,   \* <<x, y>> between the two halves of x = y, or None
    posted,      \* functions in the queues of each context
    shutdown,    \* the destructor of Home has begun
    via,         \* how each wait is made
    stage,       \* how far it is
    starter,     \* the thread that started it
    ok,          \* what its event will say
    outcome,     \* what its receiver or handler was told
    completions, \* how often
    alarm,       \* the wait that is pending on the alarm, or None
    slot,        \* the cancellation slot holds an AlarmCancellationHandler
    stopping,    \* the call of request_stop(), and its thread
    request      \* the request with payload

workVars == <<work, executor, assigning, posted>>
waitVars == <<stopVars, via, stage, starter, ok, outcome, completions, alarm,
              slot, stopping>>
vars == <<scenario, shutdown, workVars, waitVars, request>>

BLOCKING_NEVER == "blocking_never"
RELATIONSHIP_CONTINUATION == "relationship_continuation"
OUTSTANDING_WORK_TRACKED == "outstanding_work_tracked"
Options == {BLOCKING_NEVER, RELATIONSHIP_CONTINUATION, OUTSTANDING_WORK_TRACKED}
DEFAULT == {BLOCKING_NEVER}

Waits == {"first", "second"}
Threads == {"loop", "other"}
Ways == {"start", "submit", "handler", "schedule", "schedule_submit"}
Starting == {"emplace", "initiate"}
Completing == {"resetting", "satisfying", "handler"}

Tracked(e) == OUTSTANDING_WORK_TRACKED \in e.options

TypeOK ==
    /\ StopTypeOK
    /\ scenario \in {"executors", "waits", "request"}
    /\ work \in [Contexts -> Nat]
    /\ executor \in [Executors -> [context : Contexts \cup {None},
                                   options : SUBSET Options] \cup {None}]
    /\ assigning \in (Executors \X Executors) \cup {None}
    /\ posted \in [Contexts -> 0..MaxPosted]
    /\ shutdown \in BOOLEAN
    /\ via \in [Waits -> Ways]
    /\ stage \in [Waits -> Starting \cup Completing
                           \cup {"connected", "pending", "event", "completed"}]
    /\ starter \in [Waits -> Threads]
    /\ ok \in [Waits -> BOOLEAN]
    /\ outcome \in [Waits -> {None, "expired", "cancelled", "error", "done",
                             "dropped"}]
    /\ completions \in [Waits -> 0..1]
    /\ alarm \in Waits \cup {None}
    /\ slot \in BOOLEAN
    /\ stopping \in [step : {"idle", "cancel", "return"}, thread : Threads]
    /\ request \in [call : {"idle", "calling", "returned"}, thread : Threads,
                    tag : {"none", "inflight", "event", "completed"},
                    payload : {"null", "responder"},
                    delivered : {None, "null", "responder"}]

Init ==
    /\ StopInit
    /\ scenario \in {"executors", "waits", "request"}
    /\ work = [c \in Contexts |-> 0]
    /\ executor = [x \in Executors |-> None]
    /\ assigning = None
    /\ posted = [c \in Contexts |-> 0]
    /\ shutdown = FALSE
    /\ via \in [Waits -> Ways]
    /\ via["second"] # "start"
    /\ scenario # "waits" => via = [w \in Waits |-> "submit"]
    /\ stage = [w \in Waits |-> "connected"]
    /\ starter = [w \in Waits |-> "loop"]
    /\ ok = [w \in Waits |-> FALSE]
    /\ outcome = [w \in Waits |-> None]
    /\ completions = [w \in Waits |-> 0]
    /\ alarm = None
    /\ slot = FALSE
    /\ stopping = [step |-> "idle", thread |-> "loop"]
    /\ request = [call |-> "idle", thread |-> "loop", tag |-> "none",
                  payload |-> "null", delivered |-> None]

WorkStarted(c) == work' = [work EXCEPT ![c] = @ + 1]
WorkFinished(c) == work' = [work EXCEPT ![c] = @ - 1]
-----------------------------------------------------------------------------
(* Executors.  An executor that tracks work counts for the context that its *)
(* pointer refers to; the moved-from one has a null pointer and may only be *)
(* assigned to or destroyed.                                                *)

OnlyExecutors == UNCHANGED <<scenario, shutdown, posted, waitVars, request>>

(* No thread is inside an operator= that uses x.                            *)
Usable(x) ==
    /\ scenario = "executors" /\ executor[x] # None
    /\ assigning # None => x \notin {assigning[1], assigning[2]}

(* Base(&grpc_context, allocator): the tracking one starts work.            *)
ConstructFrom(y, c, options) ==
    /\ executor[y] = None
    /\ executor' = [executor EXCEPT ![y] = [context |-> c, options |-> options]]
    /\ IF OUTSTANDING_WORK_TRACKED \in options THEN WorkStarted(c)
                                               ELSE UNCHANGED work
    /\ UNCHANGED assigning
    /\ OnlyExecutors

GetExecutor(y, c) == scenario = "executors" /\ ConstructFrom(y, c, DEFAULT)

set_option(options, o, value) == IF value THEN options \cup {o} ELSE options \ {o}

(* require() and prefer(): a new executor of another type.                  *)
Require(x, y, o, value) ==
    /\ Usable(x) /\ executor[x].context # None
    /\ ConstructFrom(y, executor[x].context,
                     set_option(executor[x].options, o, value))

CopyConstruct(x, y) ==
    /\ Usable(x) /\ executor[x].context # None
    /\ ConstructFrom(y, executor[x].context, executor[x].options)

(* Mutant: the pointer is copied, not exchanged.                            *)
MoveConstructKeepsPointer(x, y) ==
    /\ Usable(x) /\ executor[y] = None
    /\ executor' = [executor EXCEPT ![y] = executor[x]]
    /\ UNCHANGED <<work, assigning>>
    /\ OnlyExecutors

MovedFrom(e) == IF Tracked(e) THEN [e EXCEPT !.context = None] ELSE e

MoveConstruct(x, y) ==
    /\ Usable(x) /\ executor[y] = None
    /\ executor' = [executor EXCEPT ![y] = executor[x],
                                    ![x] = MovedFrom(executor[x])]
    /\ UNCHANGED <<work, assigning>>
    /\ OnlyExecutors

ReleaseWork(e) ==
    IF Tracked(e) /\ e.context # None THEN WorkFinished(e.context)
                                      ELSE UNCHANGED work

Destroy(x) ==
    /\ Usable(x)
    /\ ReleaseWork(executor[x])
    /\ executor' = [executor EXCEPT ![x] = None]
    /\ UNCHANGED assigning
    /\ OnlyExecutors

SameType(x, y) == x # y /\ executor[x].options = executor[y].options

(* operator=(const&): the old work is finished before the new is started.   *)
(* The assigned executor must not be a moved-from one.                      *)
CopyAssign(x, y) ==
    /\ Usable(x) /\ Usable(y) /\ SameType(x, y) /\ assigning = None
    /\ executor[y].context # None
    /\ ReleaseWork(executor[x])
    /\ assigning' = <<x, y>>
    /\ UNCHANGED executor
    /\ OnlyExecutors

CopyAssigned ==
    /\ assigning # None
    /\ LET x == assigning[1]
           e == executor[assigning[2]]
       IN /\ executor' = [executor EXCEPT ![x] = e]
          /\ IF Tracked(e) THEN WorkStarted(e.context) ELSE UNCHANGED work
    /\ assigning' = None
    /\ OnlyExecutors

MoveAssign(x, y) ==
    /\ Usable(x) /\ Usable(y) /\ SameType(x, y)
    /\ ReleaseWork(executor[x])
    /\ executor' = [executor EXCEPT ![x] = executor[y],
                                    ![y] = MovedFrom(executor[y])]
    /\ UNCHANGED assigning
    /\ OnlyExecutors

(* dispatch() and execute() without blocking.never run the function inside  *)
(* the call in the thread of the context; everything else is queued.        *)
Inline(x, how, t) ==
    /\ t = executor[x].context
    /\ \/ how = "dispatch"
       \/ how = "execute" /\ BLOCKING_NEVER \notin executor[x].options

Submit(x, how, t) ==
    /\ Usable(x) /\ executor[x].context # None
    /\ ~Inline(x, how, t)
    /\ LET c == executor[x].context
       IN /\ posted[c] < MaxPosted
          /\ posted' = [posted EXCEPT ![c] = @ + 1]
          /\ WorkStarted(c)
    /\ UNCHANGED <<scenario, shutdown, executor, assigning, waitVars, request>>

RunPosted(c) ==
    /\ posted[c] > 0
    /\ posted' = [posted EXCEPT ![c] = @ - 1]
    /\ WorkFinished(c)
    /\ UNCHANGED <<scenario, shutdown, executor, assigning, waitVars, request>>
-----------------------------------------------------------------------------
(* Waits and senders                                                        *)

OnlyWaits == UNCHANGED <<scenario, executor, assigning, posted, request>>

At(w, step) == stage' = [stage EXCEPT ![w] = step]

(* The receiver or the handler of w is told, or dropped without a word.     *)
Tell(w, what) ==
    /\ outcome' = [outcome EXCEPT ![w] = what]
    /\ completions' = [completions EXCEPT ![w] = IF what = "dropped" THEN @
                                                                     ELSE @ + 1]

InStart(w, t) == stage[w] \in Starting /\ starter[w] = t

(* The thread of the event loop is between two events.                      *)
LoopIsFree ==
    /\ \A w \in Waits : stage[w] \notin Completing /\ ~InStart(w, "loop")
    /\ ~(stopping.step # "idle" /\ stopping.thread = "loop")

(* The user waits again when the first wait has told its outcome: in its    *)
(* handler, or later in any thread.                                         *)
MayStart(w, t) ==
    /\ scenario = "waits" /\ stage[w] = "connected"
    /\ w = "second" => /\ outcome["first"] # None
                       /\ t = "other" => stage["first"] = "completed"
    /\ t = "loop" => LoopIsFree \/ stage["first"] = "handler"
    /\ t = "other" => ~shutdown /\ ~\E v \in Waits : InStart(v, "other")

(* Once the context is shut down, a sender is done; an initiation with a    *)
(* completion handler is not even that.                                     *)
StartAfterShutdown(w, t) ==
    /\ MayStart(w, t) /\ shutdown
    /\ Tell(w, IF via[w] = "handler" THEN "dropped" ELSE "done")
    /\ At(w, "completed")
    /\ UNCHANGED <<shutdown, work, stopVars, via, starter, ok, alarm, slot, stopping>>
    /\ OnlyWaits

(* Mutant: no return after set_done.                                        *)
CheckStopTokenContinues(w, t) ==
    /\ MayStart(w, t) /\ ~shutdown /\ via[w] = "start"
    /\ IF stop_requested THEN Tell(w, "done")
                         ELSE UNCHANGED <<outcome, completions>>
    /\ At(w, "emplace")
    /\ starter' = [starter EXCEPT ![w] = t]
    /\ UNCHANGED <<shutdown, work, stopVars, via, ok, alarm, slot, stopping>>
    /\ OnlyWaits

(* Operation::start() of GrpcSender: done if the stop was requested before. *)
CheckStopToken(w, t) ==
    /\ MayStart(w, t) /\ ~shutdown /\ via[w] = "start"
    /\ IF stop_requested
       THEN Tell(w, "done") /\ At(w, "completed")
       ELSE At(w, "emplace") /\ UNCHANGED <<outcome, completions>>
    /\ starter' = [starter EXCEPT ![w] = t]
    /\ UNCHANGED <<shutdown, work, stopVars, via, ok, alarm, slot, stopping>>
    /\ OnlyWaits

(* The stop callback is there before the alarm is set.  If the stop has     *)
(* been requested meanwhile, the constructor cancels an alarm that is unset. *)
EmplaceStopCallback(w) ==
    /\ stage[w] = "emplace"
    /\ EmplaceCallback
    /\ At(w, "initiate")
    /\ UNCHANGED <<shutdown, work, via, starter, ok, outcome, completions, alarm, slot,
                   stopping>>
    /\ OnlyWaits

(* GrpcSender::submit() looks at no stop token.                             *)
GrpcSubmit(w, t) ==
    /\ MayStart(w, t) /\ ~shutdown /\ via[w] = "submit"
    /\ At(w, "initiate")
    /\ starter' = [starter EXCEPT ![w] = t]
    /\ UNCHANGED <<shutdown, work, stopVars, via, ok, outcome, completions, alarm,
                   slot, stopping>>
    /\ OnlyWaits

(* GrpcInitiator puts an AlarmCancellationHandler into the slot, if any.    *)
GrpcInitiator(w, t) ==
    /\ MayStart(w, t) /\ ~shutdown /\ via[w] = "handler"
    /\ slot' \in {slot, TRUE}
    /\ At(w, "initiate")
    /\ starter' = [starter EXCEPT ![w] = t]
    /\ UNCHANGED <<shutdown, work, stopVars, via, ok, outcome, completions, alarm,
                   stopping>>
    /\ OnlyWaits

(* work_started(), then alarm.Set: from here on the event may come.         *)
AlarmInitFunction(w) ==
    /\ stage[w] = "initiate"
    /\ WorkStarted(Home)
    /\ alarm' = w
    /\ At(w, "pending")
    /\ UNCHANGED <<shutdown, stopVars, via, starter, ok, outcome, completions, slot,
                   stopping>>
    /\ OnlyWaits

(* Counted and put into a queue of the context.                             *)
AddOperation(w, t) ==
    /\ MayStart(w, t) /\ ~shutdown
    /\ WorkStarted(Home)
    /\ At(w, "event")
    /\ ok' = [ok EXCEPT ![w] = TRUE]
    /\ starter' = [starter EXCEPT ![w] = t]
    /\ UNCHANGED <<shutdown, stopVars, via, outcome, completions, alarm, slot, stopping>>
    /\ OnlyWaits

(* ScheduleSender: Operation::start() and submit().                         *)
Schedule(w, t) == via[w] = "schedule" /\ AddOperation(w, t)

ScheduleSubmit(w, t) == via[w] = "schedule_submit" /\ AddOperation(w, t)

(* External: the deadline of the alarm.                                     *)
AlarmExpires ==
    /\ alarm # None
    /\ alarm' = None
    /\ At(alarm, "event")
    /\ ok' = [ok EXCEPT ![alarm] = TRUE]
    /\ UNCHANGED <<shutdown, work, stopVars, via, starter, outcome, completions, slot,
                   stopping>>
    /\ OnlyWaits

(* Mutant: the test of the cancellation type is inverted.                   *)
AlarmCancellationHandlerNever == UNCHANGED <<alarm, stage, ok>>

(* alarm.Cancel(), without effect on an alarm that is not pending.          *)
AlarmCancellationHandler ==
    IF alarm = None
    THEN UNCHANGED <<alarm, stage, ok>>
    ELSE /\ alarm' = None
         /\ At(alarm, "event")
         /\ ok' = [ok EXCEPT ![alarm] = FALSE]

(* request_stop() of the first wait's stop source, by the loop between two  *)
(* events or by another thread.                                             *)
RequestStop(t) ==
    /\ scenario = "waits" /\ via["first"] = "start"
    /\ t = "loop" => LoopIsFree
    /\ MarkStopRequested
    /\ stopping' = [step |-> IF callback = "registered" THEN "cancel" ELSE "idle",
                    thread |-> t]
    /\ UNCHANGED <<shutdown, work, via, stage, starter, ok, outcome, completions, alarm,
                   slot>>
    /\ OnlyWaits

StopCancels ==
    /\ stopping.step = "cancel"
    /\ AlarmCancellationHandler
    /\ stopping' = [stopping EXCEPT !.step = "return"]
    /\ UNCHANGED <<shutdown, work, stopVars, via, starter, outcome, completions, slot>>
    /\ OnlyWaits

StopReturns ==
    /\ stopping.step = "return"
    /\ ExecutionReturns
    /\ stopping' = [stopping EXCEPT !.step = "idle"]
    /\ UNCHANGED <<shutdown, work, via, stage, starter, ok, outcome, completions, alarm,
                   slot>>
    /\ OnlyWaits

(* The cancellation signal is emitted in the thread of the event loop.  The *)
(* slot keeps its handler, also when the wait it was made for is over.      *)
EmitCancellation ==
    /\ slot /\ LoopIsFree
    /\ AlarmCancellationHandler
    /\ UNCHANGED <<shutdown, work, stopVars, via, starter, outcome, completions,
                   slot, stopping>>
    /\ OnlyWaits

TakeEvent(w) ==
    /\ LoopIsFree /\ stage[w] = "event"
    /\ At(w, IF via[w] = "start" THEN "resetting" ELSE "satisfying")
    /\ UNCHANGED <<shutdown, work, stopVars, via, starter, ok, outcome, completions, alarm,
                   slot, stopping>>
    /\ OnlyWaits

(* Mutant: the receiver is satisfied without resetting the callback first.  *)
ResetStopCallbackNever(w) ==
    /\ stage[w] = "resetting"
    /\ At(w, "satisfying")
    /\ UNCHANGED <<shutdown, work, stopVars, via, starter, ok, outcome, completions, alarm,
                   slot, stopping>>
    /\ OnlyWaits

(* on_complete: reset() waits for a callback that another thread executes.  *)
ResetStopCallback(w) ==
    /\ stage[w] = "resetting" /\ ~MustWait
    /\ ResetCallback
    /\ At(w, "satisfying")
    /\ UNCHANGED <<shutdown, work, via, starter, ok, outcome, completions, alarm, slot,
                   stopping>>
    /\ OnlyWaits

(* satisfy_receiver: set_value of a receiver may throw, and set_error gets  *)
(* the exception.  A completion handler is just invoked.                    *)
Signals(w) ==
    {IF ok[w] THEN "expired" ELSE "cancelled"}
    \cup (IF via[w] = "handler" THEN {} ELSE {"error"})

(* on_complete of an operation state signals in any case; an operation that *)
(* the library allocated is discarded by the destructor's drain.            *)
Satisfy(w) ==
    /\ stage[w] = "satisfying"
    /\ \/ ~shutdown /\ \E signal \in Signals(w) : Tell(w, signal)
       \/ /\ shutdown
          /\ Tell(w, IF via[w] \in {"start", "schedule"} THEN "done" ELSE "dropped")
    /\ At(w, "handler")
    /\ UNCHANGED <<shutdown, work, stopVars, via, starter, ok, alarm, slot, stopping>>
    /\ OnlyWaits

(* Back in the event loop, which finishes the work of the event.            *)
HandlerReturns(w) ==
    /\ stage[w] = "handler"
    /\ \A v \in Waits : ~InStart(v, "loop")
    /\ WorkFinished(Home)
    /\ At(w, "completed")
    /\ UNCHANGED <<shutdown, stopVars, via, starter, ok, outcome, completions, alarm, slot,
                   stopping>>
    /\ OnlyWaits

(* The destructor begins while no other thread calls a function of the      *)
(* context.                                                                 *)
Shutdown ==
    /\ scenario = "waits" /\ ~shutdown /\ LoopIsFree
    /\ \A w \in Waits : stage[w] \notin Starting
    /\ shutdown' = TRUE
    /\ UNCHANGED <<work, waitVars>>
    /\ OnlyWaits
-----------------------------------------------------------------------------
(* A client request whose responder is sent through the completion handler  *)

OnlyRequest == UNCHANGED <<scenario, shutdown, executor, assigning, posted, waitVars>>

(* The stub's function gets the tag before it returns the responder.        *)
ClientServerStreamingRequestConvenience(t) ==
    /\ scenario = "request" /\ request.call = "idle"
    /\ WorkStarted(Home)
    /\ request' = [request EXCEPT !.call = "calling", !.thread = t,
                                  !.tag = "inflight"]
    /\ OnlyRequest

(* payload() = ...: a store into freed memory if the tag has been completed. *)
AssignPayload ==
    /\ request.call = "calling"
    /\ request' = [request EXCEPT !.call = "returned",
                      !.payload = IF request.tag = "completed" THEN @ ELSE "responder"]
    /\ UNCHANGED work
    /\ OnlyRequest

(* External: the RPC goes to the wire, or not.                              *)
RequestTagCompletes ==
    /\ request.tag = "inflight"
    /\ request' = [request EXCEPT !.tag = "event"]
    /\ UNCHANGED work
    /\ OnlyRequest

(* GrpcCompletionHandlerWithPayload: the handler gets what payload_ holds.  *)
CompleteWithPayload ==
    /\ request.tag = "event"
    /\ request.thread = "loop" => request.call = "returned"
    /\ request' = [request EXCEPT !.tag = "completed", !.delivered = request.payload]
    /\ WorkFinished(Home)
    /\ OnlyRequest
-----------------------------------------------------------------------------
ExecutorStep ==
    \/ \E y \in Executors, c \in Contexts : GetExecutor(y, c)
    \/ \E x, y \in Executors :
          \/ \E o \in Options, value \in BOOLEAN : Require(x, y, o, value)
          \/ CopyConstruct(x, y)
          \/ MoveConstruct(x, y)
          \/ CopyAssign(x, y)
          \/ MoveAssign(x, y)
    \/ \E x \in Executors : Destroy(x)
    \/ \E x \in Executors, t \in Contexts \cup {None},
          how \in {"dispatch", "post", "defer", "execute"} : Submit(x, how, t)
    \/ CopyAssigned
    \/ \E c \in Contexts : RunPosted(c)

(* WaitFn and schedule(): the completion token decides.                     *)
BeginWait(w, t) ==
    \/ StartAfterShutdown(w, t)
    \/ CheckStopToken(w, t)
    \/ GrpcSubmit(w, t)
    \/ GrpcInitiator(w, t)
    \/ Schedule(w, t)
    \/ ScheduleSubmit(w, t)

(* What goes on by itself once it has begun.                                *)
WaitStep ==
    \/ \E w \in Waits :
          \/ EmplaceStopCallback(w)
          \/ AlarmInitFunction(w)
          \/ TakeEvent(w)
          \/ ResetStopCallback(w)
          \/ Satisfy(w)
          \/ HandlerReturns(w)
    \/ StopCancels
    \/ StopReturns

RequestStep ==
    \/ \E t \in RequestThreads : ClientServerStreamingRequestConvenience(t)
    \/ AssignPayload
    \/ RequestTagCompletes
    \/ CompleteWithPayload

Next ==
    \/ ExecutorStep
    \/ \E w \in Waits, t \in Threads : BeginWait(w, t)
    \/ WaitStep
    \/ AlarmExpires
    \/ \E t \in Threads : RequestStop(t)
    \/ EmitCancellation
    \/ Shutdown
    \/ RequestStep

(* Threads that are inside a call go on.  Nothing says that the deadline of *)
(* the alarm is ever reached.                                               *)
Spec == Init /\ [][Next]_vars /\ WF_vars(WaitStep)
-----------------------------------------------------------------------------
Counted(w) == stage[w] \in {"pending", "event"} \cup Completing

(* A context is told to stop exactly when nothing is left that counts on    *)
(* it: its work is one for each executor that tracks it (the one that is    *)
(* being assigned to excepted), each function in its queues and each        *)
(* operation until its handler has returned.                                *)
WorkAccounting ==
    \A c \in Contexts :
        work[c] =
            Cardinality({x \in Executors :
                            /\ executor[x] # None
                            /\ Tracked(executor[x]) /\ executor[x].context = c
                            /\ assigning # None => x # assigning[1]})
            + posted[c]
            + (IF c = Home THEN Cardinality({w \in Waits : Counted(w)}) ELSE 0)
            + (IF c = Home /\ request.tag \in {"inflight", "event"} THEN 1 ELSE 0)

(* Once the receiver of a wait is completed its operation state and the     *)
(* alarm may be gone or serve another wait: on_complete has taken the stop  *)
(* callback back, and no thread that requests a stop is about to cancel.    *)
NoStaleCancel ==
    outcome["first"] # None => ~engaged /\ stopping.step # "cancel"

(* "Sends std::unique_ptr<grpc::ClientAsyncReader<Response>> through the    *)
(* completion handler": the handler never gets a null pointer.              *)
PayloadDelivered == request.delivered # "null"

(* A stop that is requested while the alarm is pending ends the wait, even  *)
(* if the deadline is never reached; on_complete and the callback do not    *)
(* wait for each other.                                                     *)
StopEndsWait ==
    (stopping.step = "cancel" /\ alarm = "first") ~> (outcome["first"] # None)
=============================================================================
