---------------------------- MODULE GrpcContext ----------------------------
(***************************************************************************)
(* agrpc::GrpcContext: an event loop over a grpc::CompletionQueue that      *)
(* completes gRPC tags and operations posted from any thread.               *)
(*                                                                          *)
(* Thread Main calls run(), poll() and the destructor ("Only one thread may *)
(* call run()/poll() at a time").  Every thread, Main included, calls the   *)
(* other functions.  A call is a sequence of atomic accesses to the shared  *)
(* members; call[t] says which one thread t performs next, loop says the    *)
(* same for the event loop, whose steps Main performs while it is not       *)
(* inside a nested call.  The queue operations are those of WorkQueues.     *)
(***************************************************************************)
EXTENDS WorkQueues, Integers, FiniteSets

CONSTANTS
    Threads,              \* all threads that use the context
    Main,                 \* the one that runs the event loop
    Tags,                 \* gRPC operations (completion queue tags)
    MaxGuards,            \* bound: units of work counted by hand at one time
    UserCalls,            \* what the user code of this instance does
    HAS_REMOTE_WORK_TAG,  \* the tag of work_alarm
    None

Api == {"post", "initiate", "stop", "reset", "guard", "release", "main_release",
        "run", "poll", "destroy", "throwing_allocator", "throwing_handler"}

ASSUME GrpcContextAssumption ==
    /\ Main \in Threads
    /\ UserCalls \subseteq Api
    /\ HAS_REMOTE_WORK_TAG \notin Ops \cup Tags    \* it is nullptr
    /\ MaxGuards \in Nat
    /\ None \notin Ops \cup Tags
    /\ Ops \cap Tags = {}

VARIABLES
    outstanding_work,
    stopped,
    shutdown,           \* set right before completion_queue->Shutdown()
    check_remote_work,
    work_alarm,         \* "set" while a deadline is pending on it
    cq,                 \* completed tags that AsyncNext has not returned yet
    inflight,           \* gRPC operations that have not completed yet
    call,               \* per thread: the next step of the call it is in
    arg,                \* per thread: the operation or tag it allocates
    loop,               \* the next step of the event loop
    mode,               \* "run", "poll", or "drain" (the destructor)
    guards,             \* calls of work_started() to be matched by the user
    leaked              \* operations that nothing points to any more

loopVars == <<loop, mode, check_remote_work>>
cqVars == <<work_alarm, cq, inflight>>
userVars == <<guards, leaked>>
vars == <<queueVars, outstanding_work, stopped, shutdown, check_remote_work,
          work_alarm, cq, inflight, call, arg, loop, mode, guards, leaked>>

CallSteps == {"user", "submit", "initiate", "alarm", "stop", "mark_active",
              "finish"}

InCompletion == loop \in {"op", "tag"}  \* inside operation->complete()

InLoop == loop \in {"move", "take", "batch", "op", "stop_condition", "next",
                    "tag", "unwind"}

LoopSteps == {"idle", "enter", "mark_stopped", "reset", "move", "take",
              "batch", "op", "stop_condition", "next", "tag", "unwind",
              "shutdown", "destroyed"}

TypeOK ==
    /\ QueueTypeOK
    /\ outstanding_work \in Int
    /\ stopped \in BOOLEAN
    /\ shutdown \in BOOLEAN
    /\ check_remote_work \in BOOLEAN
    /\ work_alarm \in {"unset", "set"}
    /\ cq \subseteq Tags \cup {HAS_REMOTE_WORK_TAG}
    /\ inflight \subseteq Tags
    /\ call \in [Threads -> CallSteps]
    /\ arg \in [Threads -> Ops \cup Tags \cup {None}]
    /\ \A t \in Threads : /\ call[t] = "submit" => arg[t] \in Ops
                          /\ call[t] = "initiate" => arg[t] \in Tags
    /\ loop \in LoopSteps
    /\ mode \in {"run", "poll", "drain"}
    /\ guards \in 0..MaxGuards
    /\ leaked \subseteq Ops

Init ==
    /\ QueueInit
    /\ outstanding_work = 0
    /\ stopped = FALSE
    /\ shutdown = FALSE
    /\ check_remote_work = FALSE
    /\ work_alarm = "unset"
    /\ cq = {}
    /\ inflight = {}
    /\ call = [t \in Threads |-> "user"]
    /\ arg = [t \in Threads |-> None]
    /\ loop = "idle"
    /\ mode = "run"
    /\ guards = 0
    /\ leaked = {}
-----------------------------------------------------------------------------
(* Calls                                                                    *)

(* The thread_local pointer that ThreadLocalGrpcContextGuard sets and       *)
(* restores.  The destructor drains without it.                             *)
RunningInThisThread(t) == t = Main /\ InLoop /\ mode # "drain"

(* User code runs outside of the event loop and in completion handlers; no  *)
(* call may begin once the destructor has begun.                            *)
CanCall(t, api) ==
    /\ api \in UserCalls
    /\ call[t] = "user"
    /\ mode # "drain"
    /\ t = Main => loop = "idle" \/ InCompletion

Goto(t, step) == call' = [call EXCEPT ![t] = step]

Carried == {arg[t] : t \in {u \in Threads : call[u] \in {"submit", "initiate"}}}

(* create_and_submit_no_arg_operation: count the work before allocating.    *)
(* (An inline dispatch on the event loop's thread changes no state.)        *)
Post(t, op) ==
    /\ CanCall(t, "post")
    /\ op \notin Queued \cup leaked \cup Carried
    /\ outstanding_work' = outstanding_work + 1
    /\ arg' = [arg EXCEPT ![t] = op]
    /\ Goto(t, "submit")
    /\ UNCHANGED <<queueVars, stopped, shutdown, cqVars, loopVars, userVars>>

(* grpc_initiate: the same for an operation that is a completion queue tag. *)
Initiate(t, tag) ==
    /\ CanCall(t, "initiate")
    /\ tag \notin inflight \cup cq \cup Carried
    /\ outstanding_work' = outstanding_work + 1
    /\ arg' = [arg EXCEPT ![t] = tag]
    /\ Goto(t, "initiate")
    /\ UNCHANGED <<queueVars, stopped, shutdown, cqVars, loopVars, userVars>>

(* Mutant: on_exit.release() before the allocation.                         *)
AllocationFailsReleased(t) ==
    /\ "throwing_allocator" \in UserCalls
    /\ call[t] \in {"submit", "initiate"}
    /\ Goto(t, "user")
    /\ arg' = [arg EXCEPT ![t] = None]
    /\ UNCHANGED <<queueVars, outstanding_work, stopped, shutdown, cqVars,
                   loopVars, userVars>>

(* The allocation throws and WorkFinishedOnExit takes the count back.       *)
AllocationFails(t) ==
    /\ "throwing_allocator" \in UserCalls
    /\ call[t] \in {"submit", "initiate"}
    /\ Goto(t, "finish")
    /\ arg' = [arg EXCEPT ![t] = None]
    /\ UNCHANGED <<queueVars, outstanding_work, stopped, shutdown, cqVars,
                   loopVars, userVars>>

AddLocalOperation(t) ==
    /\ call[t] = "submit"
    /\ RunningInThisThread(t)
    /\ PushBack(arg[t])
    /\ Goto(t, "user")
    /\ arg' = [arg EXCEPT ![t] = None]
    /\ UNCHANGED <<outstanding_work, stopped, shutdown, cqVars, loopVars,
                   userVars>>

(* Mutant: the result of enqueue is ignored.                                *)
AddRemoteOperationAlwaysAlarm(t) ==
    /\ call[t] = "submit"
    /\ ~RunningInThisThread(t)
    /\ Enqueue(arg[t])
    /\ Goto(t, "alarm")
    /\ arg' = [arg EXCEPT ![t] = None]
    /\ UNCHANGED <<outstanding_work, stopped, shutdown, cqVars, loopVars,
                   userVars>>

(* The thread that finds the queue inactive has to trigger the alarm.       *)
AddRemoteOperation(t) ==
    /\ call[t] = "submit"
    /\ ~RunningInThisThread(t)
    /\ Enqueue(arg[t])
    /\ Goto(t, IF active THEN "user" ELSE "alarm")
    /\ arg' = [arg EXCEPT ![t] = None]
    /\ UNCHANGED <<outstanding_work, stopped, shutdown, cqVars, loopVars,
                   userVars>>

StartTag(t) ==
    /\ call[t] = "initiate"
    /\ inflight' = inflight \cup {arg[t]}
    /\ Goto(t, "user")
    /\ arg' = [arg EXCEPT ![t] = None]
    /\ UNCHANGED <<queueVars, outstanding_work, stopped, shutdown, work_alarm,
                   cq, loopVars, userVars>>

TriggerWorkAlarm(t) ==
    /\ call[t] = "alarm"
    /\ work_alarm' = "set"
    /\ Goto(t, "user")
    /\ UNCHANGED <<queueVars, outstanding_work, stopped, shutdown, cq,
                   inflight, arg, loopVars, userVars>>

Stop(t) ==
    /\ CanCall(t, "stop")
    /\ Goto(t, "stop")
    /\ UNCHANGED <<queueVars, outstanding_work, stopped, shutdown, cqVars,
                   arg, loopVars, userVars>>

(* Mutant: stop() only sets the flag.                                       *)
ExchangeStoppedNoWakeup(t) ==
    /\ call[t] = "stop"
    /\ stopped' = TRUE
    /\ Goto(t, "user")
    /\ UNCHANGED <<queueVars, outstanding_work, shutdown, cqVars, arg,
                   loopVars, userVars>>

(* Mutant: the thread is tested before the exchange.                        *)
ExchangeStoppedAfterTest(t) ==
    /\ call[t] = "stop"
    /\ IF RunningInThisThread(t)
       THEN Goto(t, "user") /\ UNCHANGED stopped
       ELSE Goto(t, IF stopped THEN "user" ELSE "mark_active") /\ stopped' = TRUE
    /\ UNCHANGED <<queueVars, outstanding_work, shutdown, cqVars, arg,
                   loopVars, userVars>>

(* stop: stopped.exchange(true) and the test of the thread.                 *)
ExchangeStopped(t) ==
    /\ call[t] = "stop"
    /\ stopped' = TRUE
    /\ Goto(t, IF stopped \/ RunningInThisThread(t) THEN "user"
                                                    ELSE "mark_active")
    /\ UNCHANGED <<queueVars, outstanding_work, shutdown, cqVars, arg,
                   loopVars, userVars>>

(* stop: remote_work_queue.try_mark_active().                               *)
TryMarkActive(t) ==
    /\ call[t] = "mark_active"
    /\ \/ MarkActive /\ Goto(t, "alarm")
       \/ active /\ Goto(t, "user") /\ UNCHANGED queueVars
    /\ UNCHANGED <<outstanding_work, stopped, shutdown, cqVars, arg, loopVars,
                   userVars>>

Reset(t) ==
    /\ CanCall(t, "reset")
    /\ stopped' = FALSE
    /\ UNCHANGED <<queueVars, outstanding_work, shutdown, cqVars, call, arg,
                   loopVars, userVars>>

(* A call of work_started() by the user or by an executor that tracks work. *)
WorkStarted(t) ==
    /\ CanCall(t, "guard")
    /\ guards < MaxGuards
    /\ guards' = guards + 1
    /\ outstanding_work' = outstanding_work + 1
    /\ UNCHANGED <<queueVars, stopped, shutdown, cqVars, call, arg, loopVars,
                   leaked>>

(* Mutant: a copy of a guard releases it a second time.                     *)
ReleaseGuardTwice(t) ==
    /\ CanCall(t, "release")
    /\ guards' = guards - 1
    /\ Goto(t, "finish")
    /\ UNCHANGED <<queueVars, outstanding_work, stopped, shutdown, cqVars,
                   arg, loopVars, leaked>>

(* The matching call of work_finished(); with "main_release" in UserCalls   *)
(* the thread of the event loop makes it.  A handler that the destructor    *)
(* discards may own the guard.                                              *)
ReleaseGuard(t) ==
    /\ \/ CanCall(t, "release")
       \/ t = Main /\ CanCall(t, "main_release")
       \/ t = Main /\ mode = "drain" /\ InCompletion /\ call[t] = "user"
    /\ guards > 0
    /\ guards' = guards - 1
    /\ Goto(t, "finish")
    /\ UNCHANGED <<queueVars, outstanding_work, stopped, shutdown, cqVars,
                   arg, loopVars, leaked>>

(* work_finished: whoever takes the counter to zero calls stop().           *)
WorkFinished(t) ==
    /\ call[t] = "finish"
    /\ outstanding_work' = outstanding_work - 1
    /\ Goto(t, IF outstanding_work = 1 THEN "stop" ELSE "user")
    /\ UNCHANGED <<queueVars, stopped, shutdown, cqVars, arg, loopVars,
                   userVars>>
-----------------------------------------------------------------------------
(* The event loop                                                           *)

(* Main performs a step of the event loop from one step to the next.        *)
LoopFrom(step) == loop = step /\ call[Main] = "user"

(* Steps that touch nothing but the position in the loop.                   *)
OnlyLoop == UNCHANGED <<queueVars, outstanding_work, stopped, shutdown, cqVars,
                        call, arg, check_remote_work, userVars>>

Run ==
    /\ CanCall(Main, "run") /\ LoopFrom("idle")
    /\ loop' = "enter" /\ mode' = "run"
    /\ OnlyLoop

Poll ==
    /\ CanCall(Main, "poll") /\ LoopFrom("idle")
    /\ loop' = "enter" /\ mode' = "poll"
    /\ OnlyLoop

(* Mutant: run() and poll() do not look for work first.                     *)
LoadOutstandingWorkNever ==
    /\ LoopFrom("enter")
    /\ loop' = "reset"
    /\ UNCHANGED mode
    /\ OnlyLoop

(* process_work(deadline): the load of outstanding_work ...                 *)
LoadOutstandingWork ==
    /\ LoopFrom("enter")
    /\ loop' = IF outstanding_work = 0 THEN "mark_stopped" ELSE "reset"
    /\ UNCHANGED mode
    /\ OnlyLoop

(* ... and what depends on it, a separate access to stopped.                *)
MarkStopped ==
    /\ LoopFrom("mark_stopped")
    /\ stopped' = TRUE
    /\ loop' = "idle"
    /\ UNCHANGED <<queueVars, outstanding_work, shutdown, cqVars, call, arg,
                   mode, check_remote_work, userVars>>

EnterLoop ==
    /\ LoopFrom("reset")
    /\ stopped' = FALSE
    /\ loop' = "move"
    /\ UNCHANGED <<queueVars, outstanding_work, shutdown, cqVars, call, arg,
                   mode, check_remote_work, userVars>>

(* Mutant: check_remote_work is cleared although operations were moved.     *)
MoveRemoteWorkForgets ==
    /\ MarkInactive \/ DequeueAll
    /\ check_remote_work' = FALSE

(* The result says whether operations were moved.                           *)
MoveRemoteWorkToLocalQueue ==
    \/ MarkInactive /\ check_remote_work' = FALSE
    \/ DequeueAll /\ check_remote_work' = TRUE

MoveRemoteWork ==
    /\ LoopFrom("move")
    /\ loop' = "take"
    /\ IF check_remote_work THEN MoveRemoteWorkToLocalQueue
                            ELSE UNCHANGED <<queueVars, check_remote_work>>
    /\ UNCHANGED <<outstanding_work, stopped, shutdown, cqVars, call, arg,
                   mode, userVars>>

(* process_local_queue takes the operations that are there now: what its    *)
(* handlers post is left for the next iteration.                            *)
TakeLocalQueue ==
    /\ LoopFrom("take")
    /\ TakeLocal
    /\ loop' = "batch"
    /\ UNCHANGED <<outstanding_work, stopped, shutdown, cqVars, call, arg,
                   mode, check_remote_work, userVars>>

(* Mutant: operations are popped from local_work_queue itself.              *)
CompleteOperationInPlace ==
    /\ LoopFrom("batch")
    /\ \/ PopFront
       \/ /\ queue = <<>> /\ local_work_queue # <<>>
          /\ local_work_queue' = Tail(local_work_queue)
          /\ UNCHANGED <<active, remote_work_queue, queue>>
    /\ loop' = "op"
    /\ UNCHANGED <<outstanding_work, stopped, shutdown, cqVars, call, arg,
                   mode, check_remote_work, userVars>>

(* pop_front() and the call of complete(), which frees the operation before *)
(* it invokes the handler, or instead of it.                                *)
CompleteOperation ==
    /\ LoopFrom("batch")
    /\ PopFront
    /\ loop' = "op"
    /\ UNCHANGED <<outstanding_work, stopped, shutdown, cqVars, call, arg,
                   mode, check_remote_work, userVars>>

LocalQueueProcessed ==
    /\ LoopFrom("batch")
    /\ queue = <<>>
    /\ loop' = "stop_condition"
    /\ UNCHANGED mode
    /\ OnlyLoop

(* complete() returns, WorkFinishedOnExit follows.                          *)
CompletionReturns ==
    /\ InCompletion /\ LoopFrom(loop)
    /\ Goto(Main, "finish")
    /\ loop' = IF loop = "op" THEN "batch" ELSE "move"
    /\ UNCHANGED <<queueVars, outstanding_work, stopped, shutdown, cqVars,
                   arg, mode, check_remote_work, userVars>>

(* The handler throws: WorkFinishedOnExit runs during unwinding, with the   *)
(* thread_local pointer still set, and the batch is destroyed.              *)
HandlerThrows ==
    /\ "throwing_handler" \in UserCalls
    /\ mode # "drain"
    /\ InCompletion /\ LoopFrom(loop)
    /\ Goto(Main, "finish")
    /\ loop' = "unwind"
    /\ leaked' = leaked \cup ToSet(queue)
    /\ DropQueue
    /\ UNCHANGED <<outstanding_work, stopped, shutdown, cqVars, arg, mode,
                   check_remote_work, guards>>

(* run() or poll() rethrows to its caller.                                  *)
Unwind ==
    /\ LoopFrom("unwind")
    /\ loop' = "idle"
    /\ UNCHANGED mode
    /\ OnlyLoop

(* Mutant: draining obeys stopped.                                          *)
StopConditionInDrain ==
    /\ LoopFrom("stop_condition")
    /\ loop' = IF stopped THEN "idle" ELSE "next"
    /\ UNCHANGED mode
    /\ OnlyLoop

(* IsGrpcContextStoppedCondition; AlwaysFalseCondition while draining.      *)
StopCondition ==
    /\ LoopFrom("stop_condition")
    /\ loop' = IF stopped /\ mode # "drain" THEN "idle" ELSE "next"
    /\ UNCHANGED mode
    /\ OnlyLoop

IsMoreCompletedWorkPending == check_remote_work \/ local_work_queue # <<>>

(* Mutant: the event of work_alarm is only used to wake up.                 *)
GotEventIgnored(tag) ==
    /\ LoopFrom("next")
    /\ tag \in cq
    /\ cq' = cq \ {tag}
    /\ loop' = IF tag = HAS_REMOTE_WORK_TAG THEN "move" ELSE "tag"
    /\ UNCHANGED <<queueVars, outstanding_work, stopped, shutdown, work_alarm,
                   inflight, call, arg, mode, check_remote_work, userVars>>

(* AsyncNext returns GOT_EVENT.                                             *)
GotEvent(tag) ==
    /\ LoopFrom("next")
    /\ tag \in cq
    /\ cq' = cq \ {tag}
    /\ IF tag = HAS_REMOTE_WORK_TAG
       THEN loop' = "move" /\ check_remote_work' = TRUE
       ELSE loop' = "tag" /\ UNCHANGED check_remote_work
    /\ UNCHANGED <<queueVars, outstanding_work, stopped, shutdown, work_alarm,
                   inflight, call, arg, mode, userVars>>

(* AsyncNext returns TIMEOUT: the deadline is TIME_ZERO and nothing is      *)
(* ready.                                                                   *)
NoEvent ==
    /\ LoopFrom("next")
    /\ cq = {}
    /\ \/ IsMoreCompletedWorkPending /\ loop' = "move"
       \/ mode = "poll" /\ ~IsMoreCompletedWorkPending /\ loop' = "idle"
    /\ UNCHANGED mode
    /\ OnlyLoop

(* AsyncNext returns SHUTDOWN: the queue is shut down and fully drained.    *)
QueueShutdown ==
    /\ LoopFrom("next")
    /\ shutdown /\ cq = {} /\ inflight = {} /\ work_alarm = "unset"
    /\ ~IsMoreCompletedWorkPending
    /\ loop' = "destroyed"
    /\ UNCHANGED mode
    /\ OnlyLoop

(* Mutant: the destructor does not call stop().                             *)
DestroyWithoutStop ==
    /\ CanCall(Main, "destroy") /\ LoopFrom("idle")
    /\ \A t \in Threads : call[t] = "user"
    /\ loop' = "shutdown" /\ mode' = "drain"
    /\ OnlyLoop

(* ~GrpcContext(): no other thread is using the context any more.           *)
Destroy ==
    /\ CanCall(Main, "destroy") /\ LoopFrom("idle")
    /\ \A t \in Threads : call[t] = "user"
    /\ Goto(Main, "stop")
    /\ loop' = "shutdown" /\ mode' = "drain"
    /\ UNCHANGED <<queueVars, outstanding_work, stopped, shutdown, cqVars,
                   arg, check_remote_work, userVars>>

(* shutdown.store(true); completion_queue->Shutdown(); then drain.          *)
Shutdown ==
    /\ LoopFrom("shutdown")
    /\ shutdown' = TRUE
    /\ loop' = "move"
    /\ UNCHANGED <<queueVars, outstanding_work, stopped, cqVars, call, arg,
                   mode, check_remote_work, userVars>>
-----------------------------------------------------------------------------
(* gRPC                                                                     *)

(* The deadline of work_alarm, TIME_ZERO, has passed.                       *)
AlarmFires ==
    /\ work_alarm = "set"
    /\ work_alarm' = "unset"
    /\ cq' = cq \cup {HAS_REMOTE_WORK_TAG}
    /\ UNCHANGED <<queueVars, outstanding_work, stopped, shutdown, inflight,
                   call, arg, loopVars, userVars>>

TagCompletes(tag) ==
    /\ tag \in inflight
    /\ inflight' = inflight \ {tag}
    /\ cq' = cq \cup {tag}
    /\ UNCHANGED <<queueVars, outstanding_work, stopped, shutdown, work_alarm,
                   call, arg, loopVars, userVars>>
-----------------------------------------------------------------------------
(* The rest of a call that has begun.                                       *)
CallStep(t) ==
    \/ AllocationFails(t)
    \/ AddLocalOperation(t)
    \/ AddRemoteOperation(t)
    \/ StartTag(t)
    \/ TriggerWorkAlarm(t)
    \/ ExchangeStopped(t)
    \/ TryMarkActive(t)
    \/ WorkFinished(t)

UserStep(t) ==
    \/ \E op \in Ops : Post(t, op)
    \/ \E tag \in Tags : Initiate(t, tag)
    \/ Stop(t)
    \/ Reset(t)
    \/ WorkStarted(t)
    \/ ReleaseGuard(t)

LoopStep ==
    \/ LoadOutstandingWork
    \/ MarkStopped
    \/ EnterLoop
    \/ MoveRemoteWork
    \/ TakeLocalQueue
    \/ CompleteOperation
    \/ LocalQueueProcessed
    \/ Unwind
    \/ StopCondition
    \/ \E tag \in Tags \cup {HAS_REMOTE_WORK_TAG} : GotEvent(tag)
    \/ NoEvent
    \/ QueueShutdown
    \/ Shutdown

Next ==
    \/ \E t \in Threads : UserStep(t) \/ CallStep(t)
    \/ Run
    \/ Poll
    \/ Destroy
    \/ LoopStep
    \/ CompletionReturns
    \/ HandlerThrows
    \/ AlarmFires
    \/ \E tag \in Tags : TagCompletes(tag)

Spec == Init /\ [][Next]_vars

(* Every thread is scheduled and finishes the call it is in; a handler      *)
(* returns even if it makes calls before; gRPC fires an alarm whose         *)
(* deadline has passed and completes every operation; the completion queue  *)
(* is a queue, so an event in it is not passed over for ever.  Nothing      *)
(* forces user code to begin a call.                                        *)
Fairness ==
    /\ \A t \in Threads : WF_vars(CallStep(t))
    /\ WF_vars(LoopStep)
    /\ SF_vars(CompletionReturns)
    /\ WF_vars(AlarmFires)
    /\ \A tag \in Tags : WF_vars(TagCompletes(tag))
    /\ \A tag \in Tags \cup {HAS_REMOTE_WORK_TAG} : SF_vars(GotEvent(tag))

FairSpec == Spec /\ Fairness
-----------------------------------------------------------------------------
(* Safety                                                                   *)

AlarmCallers == {t \in Threads : call[t] = "alarm"}

(* The wakeup protocol of remote_work_queue and work_alarm.  The queue is   *)
(* active exactly while one token is under way to the event loop: a thread  *)
(* that is about to trigger the alarm (between the CAS of enqueue or        *)
(* try_mark_active and work_alarm.Set), the alarm that is set, its event in *)
(* the completion queue, or check_remote_work.  Hence the alarm is never    *)
(* set a second time while it is pending, remote operations are never left  *)
(* without a wakeup, and try_mark_inactive_or_dequeue_all is only called on *)
(* an active queue, as its comment demands.                                 *)
WakeupToken ==
    /\ active <=> \/ AlarmCallers # {}
                  \/ work_alarm = "set"
                  \/ HAS_REMOTE_WORK_TAG \in cq
                  \/ check_remote_work
    /\ \A t, u \in AlarmCallers : t = u
    /\ AlarmCallers # {} => /\ work_alarm = "unset"
                            /\ HAS_REMOTE_WORK_TAG \notin cq
                            /\ ~check_remote_work
    /\ work_alarm = "set" => /\ HAS_REMOTE_WORK_TAG \notin cq
                             /\ ~check_remote_work
    /\ HAS_REMOTE_WORK_TAG \in cq => ~check_remote_work

(* outstanding_work counts, at every moment, the operations in the queues,  *)
(* the tags that gRPC owns or has completed, the one being completed, those *)
(* that a call is about to add or has failed to add, and the work counted   *)
(* by hand: no path through allocation, completion or the destructor loses  *)
(* or repeats a work_finished().  Leaked operations stay counted for ever.  *)
WorkAccounting ==
    outstanding_work = Len(Pipeline) + Cardinality(leaked)
        + Cardinality(inflight) + Cardinality(cq \cap Tags) + guards
        + Cardinality({t \in Threads :
                          call[t] \in {"submit", "initiate", "finish"}})
        + (IF InCompletion THEN 1 ELSE 0)

(* An operation is in at most one place, and every address that a thread    *)
(* has allocated is in none: an operation freed by complete() cannot be     *)
(* reached through a queue, whichever thread gets its memory next.          *)
OwnedOnce ==
    /\ QueuedOnce
    /\ (Queued \cup inflight \cup cq) \cap (leaked \cup Carried) = {}
    /\ Queued \cap leaked = {}
    /\ inflight \cap cq = {}
    /\ \A t, u \in Threads :
          /\ call[t] \in {"submit", "initiate"}
          /\ call[u] \in {"submit", "initiate"}
          /\ arg[t] = arg[u]
          => t = u

(* grpc::CompletionQueue::Shutdown forbids to begin operations on the queue *)
(* afterwards.  Draining finishes the last work, which calls stop(): that   *)
(* must not trigger work_alarm any more.                                    *)
NoAlarmAfterShutdown ==
    shutdown => \A t \in Threads : call[t] \notin {"alarm", "mark_active"}

(* The destructor frees everything: whatever the context held when it was   *)
(* destroyed, no operation and no tag is left, only work counted by hand    *)
(* is outstanding (and what handlers that threw have leaked).               *)
DrainedAtDestruction ==
    loop = "destroyed" =>
        /\ Pipeline = <<>> /\ cq = {} /\ inflight = {}
        /\ outstanding_work = guards + Cardinality(leaked)
-----------------------------------------------------------------------------
(* Action properties                                                        *)

Before(a, b) ==
    \E i, j \in DOMAIN Pipeline : i < j /\ Pipeline[i] = a /\ Pipeline[j] = b

(* Whatever moves from queue to queue, two operations never change their    *)
(* relative order while both are queued.                                    *)
OrderPreserved ==
    [][\A a, b \in Queued \cap Queued' :
          Before(a, b) => Before(a, b)']_queueVars
-----------------------------------------------------------------------------
(* Liveness                                                                 *)

(* An operation that is posted while the event loop runs, or before, is     *)
(* completed unless the loop is left: no wakeup is lost, and handlers that  *)
(* keep posting cannot starve it.                                           *)
PostedIsCompleted ==
    \A op \in Ops : (op \in Queued /\ InLoop) ~> (op \notin Queued \/ ~InLoop)

(* A completed gRPC tag is delivered unless the loop is left: a local queue *)
(* that never gets empty does not starve the completion queue.              *)
TagIsDelivered ==
    \A tag \in Tags : (tag \in cq /\ InLoop) ~> (tag \notin cq \/ ~InLoop)

(* stop() "causes a call to run() to return as soon as possible", from      *)
(* whichever thread and wherever the loop is, blocked in AsyncNext included. *)
StopReturns ==
    (stopped /\ InLoop /\ mode # "drain") ~> (~stopped \/ ~InLoop)

(* "Runs the main event loop logic until the GrpcContext runs out of work   *)
(* or is stopped": run() does not stay in the loop without work.            *)
RunReturnsWithoutWork ==
    (InLoop /\ mode = "run" /\ outstanding_work = 0)
        ~> (~InLoop \/ outstanding_work # 0)

(* Something is left that a call of run() would wait for.                   *)
WorkRemains ==
    \/ Pipeline # <<>> \/ inflight # {} \/ cq \cap Tags # {} \/ guards > 0
    \/ InCompletion
    \/ \E t \in Threads : call[t] \in {"submit", "initiate", "finish"}

(* The same promise of run(), counted by what is really left to do rather   *)
(* than by outstanding_work; also in a run() that follows one out of which  *)
(* a handler has thrown.  Unless that one left operations behind: they stay *)
(* counted for ever, and a later run() does not return by itself.           *)
RunReturnsWhenAllIsDone ==
    (InLoop /\ mode = "run" /\ leaked = {} /\ ~WorkRemains)
        ~> (~InLoop \/ WorkRemains)

(* ~GrpcContext() "calls Shutdown() on the completion queue and drains it": *)
(* it comes to an end, whatever was pending.                                *)
DestructorReturns == (mode = "drain") ~> (loop = "destroyed")
=============================================================================
