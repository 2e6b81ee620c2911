------------------------- MODULE GrpcContextProofs -------------------------
(***************************************************************************)
(* Theorems about GrpcContext, for any number of threads, operations, tags  *)
(* and units of work and any choice of what the user code does.             *)
(***************************************************************************)
EXTENDS GrpcContext, TLAPS

(* What a step of Next is, one disjunct per action.                         *)
LEMMA NextCases ==
    ASSUME Next
    PROVE  \/ \E t \in Threads :
                 \/ \E op \in Ops : Post(t, op)
                 \/ \E tag \in Tags : Initiate(t, tag)
                 \/ Stop(t) \/ Reset(t) \/ WorkStarted(t) \/ ReleaseGuard(t)
                 \/ AllocationFails(t) \/ AddLocalOperation(t)
                 \/ AddRemoteOperation(t) \/ StartTag(t)
                 \/ TriggerWorkAlarm(t) \/ ExchangeStopped(t)
                 \/ TryMarkActive(t) \/ WorkFinished(t)
           \/ Run \/ Poll \/ Destroy \/ LoadOutstandingWork \/ MarkStopped
           \/ EnterLoop \/ MoveRemoteWork \/ TakeLocalQueue
           \/ CompleteOperation \/ LocalQueueProcessed \/ Unwind
           \/ StopCondition \/ NoEvent \/ QueueShutdown \/ Shutdown
           \/ \E tag \in Tags \cup {HAS_REMOTE_WORK_TAG} : GotEvent(tag)
           \/ CompletionReturns \/ HandlerThrows \/ AlarmFires
           \/ \E tag \in Tags : TagCompletes(tag)
  BY DEF Next, UserStep, CallStep, LoopStep

(* The abstract queues hold operations, whatever is done with them.         *)
LEMMA QueueTypes ==
    ASSUME QueueTypeOK,
           \/ \E op \in Ops : Enqueue(op) \/ PushBack(op)
           \/ MarkActive \/ MarkInactive \/ DequeueAll \/ TakeLocal
           \/ PopFront \/ DropQueue \/ UNCHANGED queueVars
    PROVE  QueueTypeOK'
<1> USE DEF QueueTypeOK
<1>1. ASSUME NEW op \in Ops, Enqueue(op) PROVE QueueTypeOK'
  BY <1>1 DEF Enqueue
<1>1a. ASSUME NEW op \in Ops, PushBack(op) PROVE QueueTypeOK'
  BY <1>1a DEF PushBack
<1>2. CASE MarkActive \/ MarkInactive
  BY <1>2 DEF MarkActive, MarkInactive
<1>3. CASE DequeueAll
  BY <1>3 DEF DequeueAll
<1>4. CASE TakeLocal
  BY <1>4 DEF TakeLocal
<1>5. CASE PopFront
  BY <1>5 DEF PopFront
<1>6. CASE DropQueue
  BY <1>6 DEF DropQueue
<1>7. CASE UNCHANGED queueVars
  BY <1>7 DEF queueVars
<1>8. QED
  BY <1>1, <1>1a, <1>2, <1>3, <1>4, <1>5, <1>6, <1>7

(* The members of the context other than the queues.                        *)
MembersTypeOK ==
    /\ outstanding_work \in Int
    /\ stopped \in BOOLEAN
    /\ shutdown \in BOOLEAN
    /\ check_remote_work \in BOOLEAN
    /\ work_alarm \in {"unset", "set"}
    /\ cq \subseteq Tags \cup {HAS_REMOTE_WORK_TAG}
    /\ inflight \subseteq Tags
    /\ call \in [Threads -> CallSteps]
    /\ arg \in [Threads -> Ops \cup Tags \cup {None}]
    /\ \A t \in Threads : /\ call[t] = "submit" => arg[t] \in Ops
                          /\ call[t] = "initiate" => arg[t] \in Tags
    /\ loop \in LoopSteps
    /\ mode \in {"run", "poll", "drain"}
    /\ guards \in 0..MaxGuards
    /\ leaked \subseteq Ops

(* The types of the queues, and of everything else.                         *)
LEMMA TypeSplit == TypeOK <=> QueueTypeOK /\ MembersTypeOK
  BY DEF TypeOK, MembersTypeOK

(* Every step preserves the types.                                          *)
LEMMA TypeStep ==
    ASSUME TypeOK, [Next]_vars
    PROVE  TypeOK'
<1> SUFFICES QueueTypeOK' /\ MembersTypeOK'
  BY DEF TypeOK, MembersTypeOK
<1> USE GrpcContextAssumption
<1> USE DEF MembersTypeOK, CallSteps, LoopSteps, Goto, LoopFrom, OnlyLoop,
            cqVars, loopVars, userVars
<1>0. QueueTypeOK /\ MembersTypeOK
  BY TypeSplit
<1>1. CASE UNCHANGED vars
  BY <1>0, <1>1, QueueTypes DEF vars
<1>2. ASSUME NEW t \in Threads, NEW op \in Ops, Post(t, op)
      PROVE  QueueTypeOK' /\ MembersTypeOK'
  <2>1. QueueTypeOK'
    BY <1>0, <1>2, QueueTypes DEF Post
  <2>2. QED
    BY <1>0, <1>2, <2>1 DEF Post
<1>3. ASSUME NEW t \in Threads, NEW tag \in Tags, Initiate(t, tag)
      PROVE  QueueTypeOK' /\ MembersTypeOK'
  <2>1. QueueTypeOK'
    BY <1>0, <1>3, QueueTypes DEF Initiate
  <2>2. QED
    BY <1>0, <1>3, <2>1 DEF Initiate
<1>4. ASSUME NEW t \in Threads,
             Stop(t) \/ Reset(t) \/ WorkStarted(t) \/ ReleaseGuard(t)
      PROVE  QueueTypeOK' /\ MembersTypeOK'
  <2>1. QueueTypeOK'
    BY <1>0, <1>4, QueueTypes DEF Stop, Reset, WorkStarted, ReleaseGuard
  <2>2. CASE Stop(t)
    BY <1>0, <2>1, <2>2 DEF Stop
  <2>3. CASE Reset(t)
    BY <1>0, <2>1, <2>3 DEF Reset
  <2>4. CASE WorkStarted(t)
    BY <1>0, <2>1, <2>4 DEF WorkStarted
  <2>5. CASE ReleaseGuard(t)
    BY <1>0, <2>1, <2>5 DEF ReleaseGuard
  <2>6. QED
    BY <1>4, <2>2, <2>3, <2>4, <2>5
<1>5. ASSUME NEW t \in Threads, AllocationFails(t) \/ TriggerWorkAlarm(t)
                                \/ ExchangeStopped(t) \/ WorkFinished(t)
      PROVE  QueueTypeOK' /\ MembersTypeOK'
  <2>1. QueueTypeOK'
    BY <1>0, <1>5, QueueTypes
       DEF AllocationFails, TriggerWorkAlarm, ExchangeStopped, WorkFinished
  <2>2. CASE AllocationFails(t)
    BY <1>0, <2>1, <2>2 DEF AllocationFails
  <2>3. CASE TriggerWorkAlarm(t)
    BY <1>0, <2>1, <2>3 DEF TriggerWorkAlarm
  <2>4. CASE ExchangeStopped(t)
    BY <1>0, <2>1, <2>4 DEF ExchangeStopped
  <2>5. CASE WorkFinished(t)
    BY <1>0, <2>1, <2>5 DEF WorkFinished
  <2>6. QED
    BY <1>5, <2>2, <2>3, <2>4, <2>5
<1>6. ASSUME NEW t \in Threads, AddLocalOperation(t) \/ AddRemoteOperation(t)
      PROVE  QueueTypeOK' /\ MembersTypeOK'
  <2>1. QueueTypeOK'
    BY <1>0, <1>6, QueueTypes DEF AddLocalOperation, AddRemoteOperation
  <2>2. QED
    BY <1>0, <1>6, <2>1 DEF AddLocalOperation, AddRemoteOperation
<1>7. ASSUME NEW t \in Threads, StartTag(t) \/ TryMarkActive(t)
      PROVE  QueueTypeOK' /\ MembersTypeOK'
  <2>1. QueueTypeOK'
    BY <1>0, <1>7, QueueTypes DEF StartTag, TryMarkActive
  <2>2. QED
    BY <1>0, <1>7, <2>1 DEF StartTag, TryMarkActive
<1>8. CASE \/ Run \/ Poll \/ Destroy \/ LoadOutstandingWork \/ MarkStopped
           \/ EnterLoop \/ LocalQueueProcessed \/ Unwind \/ StopCondition
           \/ NoEvent \/ QueueShutdown \/ Shutdown \/ CompletionReturns
  <2>1. QueueTypeOK'
    BY <1>0, <1>8, QueueTypes
       DEF Run, Poll, Destroy, LoadOutstandingWork, MarkStopped, EnterLoop,
           LocalQueueProcessed, Unwind, StopCondition, NoEvent, QueueShutdown,
           Shutdown, CompletionReturns
  <2>2. QED
    BY <1>0, <1>8, <2>1
       DEF Run, Poll, Destroy, LoadOutstandingWork, MarkStopped, EnterLoop,
           LocalQueueProcessed, Unwind, StopCondition, NoEvent, QueueShutdown,
           Shutdown, CompletionReturns
<1>9. CASE MoveRemoteWork \/ TakeLocalQueue \/ CompleteOperation
  <2>1. QueueTypeOK'
    BY <1>0, <1>9, QueueTypes
       DEF MoveRemoteWork, MoveRemoteWorkToLocalQueue, TakeLocalQueue,
           CompleteOperation
  <2>2. QED
    BY <1>0, <1>9, <2>1
       DEF MoveRemoteWork, MoveRemoteWorkToLocalQueue, TakeLocalQueue,
           CompleteOperation
<1>10. CASE HandlerThrows
  <2>1. QueueTypeOK'
    BY <1>0, <1>10, QueueTypes DEF HandlerThrows
  <2>2. ToSet(queue) \subseteq Ops
    BY <1>0 DEF QueueTypeOK, ToSet
  <2>3. QED
    BY <1>0, <1>10, <2>1, <2>2 DEF HandlerThrows
<1>11. ASSUME NEW tag \in Tags \cup {HAS_REMOTE_WORK_TAG}, GotEvent(tag)
       PROVE  QueueTypeOK' /\ MembersTypeOK'
  <2>1. QueueTypeOK'
    BY <1>0, <1>11, QueueTypes DEF GotEvent
  <2>2. QED
    BY <1>0, <1>11, <2>1 DEF GotEvent
<1>12. ASSUME NEW tag \in Tags, TagCompletes(tag)
       PROVE  QueueTypeOK' /\ MembersTypeOK'
  <2>1. QueueTypeOK'
    BY <1>0, <1>12, QueueTypes DEF TagCompletes
  <2>2. QED
    BY <1>0, <1>12, <2>1 DEF TagCompletes
<1>13. CASE AlarmFires
  <2>1. QueueTypeOK'
    BY <1>0, <1>13, QueueTypes DEF AlarmFires
  <2>2. QED
    BY <1>0, <1>13, <2>1 DEF AlarmFires
<1>14. QED
  BY <1>1, <1>2, <1>3, <1>4, <1>5, <1>6, <1>7, <1>8, <1>9, <1>10, <1>11,
     <1>12, <1>13, NextCases

(* Every member keeps its type; in particular a thread that submits holds   *)
(* an operation and the work counted by hand stays within its bound.        *)
THEOREM TypeCorrect == Spec => []TypeOK
<1>1. Init => TypeOK
  <2> SUFFICES ASSUME Init PROVE QueueTypeOK /\ MembersTypeOK
    BY TypeSplit
  <2>1. {active, stopped, shutdown, check_remote_work} \subseteq BOOLEAN
    BY Zenon DEF Init, QueueInit
  <2>2. QueueTypeOK
    BY <2>1 DEF Init, QueueInit, QueueTypeOK
  <2>3. MembersTypeOK
    BY <2>1, GrpcContextAssumption
       DEF Init, MembersTypeOK, CallSteps, LoopSteps
  <2>4. QED
    BY <2>2, <2>3
<1>2. TypeOK /\ [Next]_vars => TypeOK'
  BY TypeStep
<1>3. QED
  BY <1>1, <1>2, PTL DEF Spec
-----------------------------------------------------------------------------
(* The wakeup protocol                                                      *)

(* A step that leaves the queue's flag and all places of the token alone.   *)
LEMMA TokenFrame ==
    ASSUME WakeupToken, active' = active, work_alarm' = work_alarm,
           HAS_REMOTE_WORK_TAG \in cq' <=> HAS_REMOTE_WORK_TAG \in cq,
           check_remote_work' = check_remote_work, AlarmCallers' = AlarmCallers
    PROVE  WakeupToken'
  BY Zenon DEF WakeupToken

(* A thread that goes from one step to another, neither of them the alarm.  *)
LEMMA GotoKeepsAlarmCallers ==
    ASSUME call \in [Threads -> CallSteps], NEW t \in Threads, NEW step,
           Goto(t, step), call[t] # "alarm", step # "alarm"
    PROVE  AlarmCallers' = AlarmCallers
  BY DEF AlarmCallers, Goto

(* A thread that takes on the duty to trigger the alarm.                    *)
LEMMA GotoAlarm ==
    ASSUME call \in [Threads -> CallSteps], NEW t \in Threads, Goto(t, "alarm")
    PROVE  AlarmCallers' = AlarmCallers \cup {t}
  BY DEF AlarmCallers, Goto

(* Making an inactive queue active is safe if the thread that does it takes *)
(* on the duty to trigger the alarm.                                        *)
LEMMA TokenCreated ==
    ASSUME WakeupToken, ~active, active' = TRUE, NEW t \in Threads,
           AlarmCallers' = AlarmCallers \cup {t}, work_alarm' = work_alarm,
           cq' = cq, check_remote_work' = check_remote_work, TypeOK
    PROVE  WakeupToken'
  BY DEF WakeupToken, TypeOK

(* Every step passes the token on, or leaves it where it is.                *)
LEMMA WakeupStep ==
    ASSUME TypeOK, WakeupToken, [Next]_vars
    PROVE  WakeupToken'
<1> USE GrpcContextAssumption
<1>0. /\ call \in [Threads -> CallSteps]
      /\ work_alarm \in {"unset", "set"}
      /\ {active, check_remote_work} \subseteq BOOLEAN
  BY DEF TypeOK, QueueTypeOK
<1>1. CASE UNCHANGED vars
  BY <1>1, TokenFrame DEF vars, queueVars, AlarmCallers
<1>2. ASSUME NEW t \in Threads, NEW op \in Ops, Post(t, op)
      PROVE  WakeupToken'
  BY <1>0, <1>2, TokenFrame, GotoKeepsAlarmCallers
     DEF Post, CanCall, queueVars, cqVars, loopVars
<1>3. ASSUME NEW t \in Threads, NEW tag \in Tags, Initiate(t, tag)
      PROVE  WakeupToken'
  BY <1>0, <1>3, TokenFrame, GotoKeepsAlarmCallers
     DEF Initiate, CanCall, queueVars, cqVars, loopVars
<1>4. ASSUME NEW t \in Threads, Reset(t) \/ WorkStarted(t)
      PROVE  WakeupToken'
  BY <1>4, TokenFrame
     DEF Reset, WorkStarted, queueVars, cqVars, loopVars, AlarmCallers
<1>5. ASSUME NEW t \in Threads, Stop(t) \/ ReleaseGuard(t)
      PROVE  WakeupToken'
  BY <1>0, <1>5, TokenFrame, GotoKeepsAlarmCallers
     DEF Stop, ReleaseGuard, CanCall, queueVars, cqVars, loopVars
<1>6. ASSUME NEW t \in Threads,
             AllocationFails(t) \/ ExchangeStopped(t) \/ WorkFinished(t)
      PROVE  WakeupToken'
  BY <1>0, <1>6, TokenFrame, GotoKeepsAlarmCallers
     DEF AllocationFails, ExchangeStopped, WorkFinished, queueVars, cqVars,
         loopVars
<1>7. ASSUME NEW t \in Threads, AddLocalOperation(t) \/ StartTag(t)
      PROVE  WakeupToken'
  BY <1>0, <1>7, TokenFrame, GotoKeepsAlarmCallers
     DEF AddLocalOperation, PushBack, StartTag, queueVars, cqVars, loopVars
<1>8. ASSUME NEW t \in Threads, AddRemoteOperation(t)
      PROVE  WakeupToken'
  <2>1. CASE active
    BY <1>0, <1>8, <2>1, TokenFrame, GotoKeepsAlarmCallers
       DEF AddRemoteOperation, Enqueue, cqVars, loopVars
  <2>2. CASE ~active
    BY <1>0, <1>8, <2>2, TokenCreated, GotoAlarm
       DEF AddRemoteOperation, Enqueue, cqVars, loopVars
  <2>3. QED
    BY <2>1, <2>2
<1>9. ASSUME NEW t \in Threads, TryMarkActive(t)
      PROVE  WakeupToken'
  <2>1. CASE active
    BY <1>0, <1>9, <2>1, TokenFrame, GotoKeepsAlarmCallers
       DEF TryMarkActive, MarkActive, queueVars, cqVars, loopVars
  <2>2. CASE ~active
    BY <1>0, <1>9, <2>2, TokenCreated, GotoAlarm
       DEF TryMarkActive, MarkActive, cqVars, loopVars
  <2>3. QED
    BY <2>1, <2>2
<1>10. ASSUME NEW t \in Threads, TriggerWorkAlarm(t)
       PROVE  WakeupToken'
  <2>1. AlarmCallers = {t} /\ AlarmCallers' = {}
    BY <1>0, <1>10 DEF TriggerWorkAlarm, WakeupToken, AlarmCallers, Goto
  <2>2. /\ active' = active /\ work_alarm' = "set" /\ cq' = cq
        /\ check_remote_work' = check_remote_work
    BY <1>10 DEF TriggerWorkAlarm, queueVars, loopVars
  <2>3. QED
    BY <2>1, <2>2 DEF WakeupToken
<1>11. CASE AlarmFires
  BY <1>0, <1>11 DEF AlarmFires, WakeupToken, AlarmCallers, queueVars, loopVars
<1>12. ASSUME NEW tag \in Tags, TagCompletes(tag)
       PROVE  WakeupToken'
  BY <1>12, TokenFrame
     DEF TagCompletes, queueVars, loopVars, AlarmCallers
<1>13. ASSUME NEW tag \in Tags \cup {HAS_REMOTE_WORK_TAG}, GotEvent(tag)
       PROVE  WakeupToken'
  <2>1. /\ active' = active /\ work_alarm' = work_alarm /\ cq' = cq \ {tag}
        /\ AlarmCallers' = AlarmCallers
    BY <1>13 DEF GotEvent, queueVars, AlarmCallers
  <2>2. CASE tag = HAS_REMOTE_WORK_TAG
    BY <1>0, <1>13, <2>1, <2>2 DEF GotEvent, WakeupToken
  <2>3. CASE tag # HAS_REMOTE_WORK_TAG
    BY <1>13, <2>1, <2>3, TokenFrame DEF GotEvent
  <2>4. QED
    BY <2>2, <2>3
<1>14. CASE MoveRemoteWork
  <2>1. /\ work_alarm' = work_alarm /\ cq' = cq /\ AlarmCallers' = AlarmCallers
    BY <1>14 DEF MoveRemoteWork, cqVars, AlarmCallers
  <2>2. CASE ~check_remote_work
    BY <1>14, <2>1, <2>2, TokenFrame DEF MoveRemoteWork, queueVars
  <2>3. CASE check_remote_work /\ DequeueAll /\ check_remote_work' = TRUE
    BY <1>0, <2>1, <2>3, TokenFrame DEF DequeueAll
  <2>4. CASE check_remote_work /\ MarkInactive /\ check_remote_work' = FALSE
    BY <1>0, <2>1, <2>4 DEF MarkInactive, WakeupToken
  <2>5. QED
    BY <1>14, <2>2, <2>3, <2>4 DEF MoveRemoteWork, MoveRemoteWorkToLocalQueue
<1>15. CASE TakeLocalQueue \/ CompleteOperation
  BY <1>15, TokenFrame
     DEF TakeLocalQueue, TakeLocal, CompleteOperation, PopFront, cqVars,
         AlarmCallers
<1>16. CASE \/ Run \/ Poll \/ LoadOutstandingWork \/ MarkStopped
            \/ EnterLoop \/ LocalQueueProcessed \/ Unwind \/ StopCondition
            \/ NoEvent \/ QueueShutdown \/ Shutdown
  BY <1>16, TokenFrame
     DEF Run, Poll, LoadOutstandingWork, MarkStopped, EnterLoop,
         LocalQueueProcessed, Unwind, StopCondition, NoEvent, QueueShutdown,
         Shutdown, OnlyLoop, queueVars, cqVars, AlarmCallers
<1>17. CASE Destroy \/ CompletionReturns
  BY <1>0, <1>17, TokenFrame, GotoKeepsAlarmCallers
     DEF Destroy, CompletionReturns, LoopFrom, queueVars, cqVars
<1>18. CASE HandlerThrows
  BY <1>0, <1>18, TokenFrame, GotoKeepsAlarmCallers
     DEF HandlerThrows, DropQueue, LoopFrom, cqVars
<1>19. QED
  BY <1>1, <1>2, <1>3, <1>4, <1>5, <1>6, <1>7, <1>8, <1>9, <1>10, <1>11,
     <1>12, <1>13, <1>14, <1>15, <1>16, <1>17, <1>18, NextCases

(* The wakeup protocol is right for any number of threads: the alarm is     *)
(* never set twice, an active queue always has a wakeup under way, and the  *)
(* event loop only dequeues from an active queue.                           *)
THEOREM WakeupTokenAlways == Spec => []WakeupToken
<1>1. Init => WakeupToken
  BY Zenon DEF Init, QueueInit, WakeupToken, AlarmCallers
<1>2. TypeOK /\ WakeupToken /\ [Next]_vars => WakeupToken'
  BY WakeupStep
<1>3. QED
  BY <1>1, <1>2, TypeCorrect, PTL DEF Spec
-----------------------------------------------------------------------------
(* The destructor                                                           *)

(* While the destructor runs, the other threads make no calls; stopped is   *)
(* set once stop() has exchanged it and nothing resets it; the queue is     *)
(* shut down only after stop() has returned.                                *)
DrainInvariant ==
    /\ mode = "drain" =>
          /\ \A t \in Threads : t # Main => call[t] = "user"
          /\ stopped \/ (loop = "shutdown" /\ call[Main] = "stop")
          /\ loop \notin {"idle", "enter", "mark_stopped", "reset", "unwind"}
          /\ loop # "shutdown" => call[Main] \in {"user", "finish", "stop"}
          /\ loop = "shutdown" =>
                call[Main] \in {"user", "stop", "mark_active", "alarm"}
    /\ mode # "drain" => loop # "shutdown"
    /\ shutdown => mode = "drain" /\ loop # "shutdown"

(* Every step preserves what is known while the destructor drains.          *)
LEMMA DrainStep ==
    ASSUME TypeOK, DrainInvariant, [Next]_vars
    PROVE  DrainInvariant'
<1> USE GrpcContextAssumption
<1>0. /\ call \in [Threads -> CallSteps]
      /\ {stopped, shutdown} \subseteq BOOLEAN
      /\ Main \in Threads
  BY DEF TypeOK
<1> USE DEF DrainInvariant, Goto, LoopFrom, CanCall
<1>1. CASE UNCHANGED vars
  BY <1>1 DEF vars
<1>2. ASSUME NEW t \in Threads, NEW op \in Ops, Post(t, op)
      PROVE  DrainInvariant'
  BY <1>0, <1>2 DEF Post, loopVars
<1>3. ASSUME NEW t \in Threads, NEW tag \in Tags, Initiate(t, tag)
      PROVE  DrainInvariant'
  BY <1>0, <1>3 DEF Initiate, loopVars
<1>4. ASSUME NEW t \in Threads, Reset(t) \/ WorkStarted(t) \/ Stop(t)
      PROVE  DrainInvariant'
  BY <1>0, <1>4 DEF Reset, WorkStarted, Stop, loopVars
<1>5. ASSUME NEW t \in Threads, ReleaseGuard(t)
      PROVE  DrainInvariant'
  BY <1>0, <1>5 DEF ReleaseGuard, InCompletion, loopVars
<1>6. ASSUME NEW t \in Threads,
             AllocationFails(t) \/ AddLocalOperation(t) \/ StartTag(t)
      PROVE  DrainInvariant'
  BY <1>0, <1>6 DEF AllocationFails, AddLocalOperation, StartTag, loopVars
<1>7. ASSUME NEW t \in Threads, AddRemoteOperation(t) \/ TryMarkActive(t)
      PROVE  DrainInvariant'
  BY <1>0, <1>7 DEF AddRemoteOperation, TryMarkActive, loopVars
<1>8. ASSUME NEW t \in Threads, TriggerWorkAlarm(t) \/ WorkFinished(t)
      PROVE  DrainInvariant'
  BY <1>0, <1>8 DEF TriggerWorkAlarm, WorkFinished, loopVars
<1>9. ASSUME NEW t \in Threads, ExchangeStopped(t)
      PROVE  DrainInvariant'
  BY <1>0, <1>9 DEF ExchangeStopped, loopVars
<1>10. CASE \/ Run \/ Poll \/ LoadOutstandingWork \/ LocalQueueProcessed
            \/ Unwind \/ StopCondition \/ NoEvent \/ QueueShutdown
  BY <1>0, <1>10
     DEF Run, Poll, LoadOutstandingWork, LocalQueueProcessed, Unwind,
         StopCondition, NoEvent, QueueShutdown, OnlyLoop
<1>11. CASE MarkStopped \/ EnterLoop \/ MoveRemoteWork \/ TakeLocalQueue
            \/ CompleteOperation
  BY <1>0, <1>11
     DEF MarkStopped, EnterLoop, MoveRemoteWork, TakeLocalQueue,
         CompleteOperation
<1>12. CASE Destroy
  BY <1>0, <1>12 DEF Destroy
<1>13. CASE Shutdown
  BY <1>0, <1>13 DEF Shutdown
<1>14. CASE CompletionReturns \/ HandlerThrows
  BY <1>0, <1>14 DEF CompletionReturns, HandlerThrows, InCompletion
<1>15. ASSUME NEW tag \in Tags \cup {HAS_REMOTE_WORK_TAG}, GotEvent(tag)
       PROVE  DrainInvariant'
  BY <1>0, <1>15 DEF GotEvent
<1>16. ASSUME NEW tag \in Tags, TagCompletes(tag)
       PROVE  DrainInvariant'
  BY <1>16 DEF TagCompletes, loopVars
<1>17. CASE AlarmFires
  BY <1>17 DEF AlarmFires, loopVars
<1>18. QED
  BY <1>1, <1>2, <1>3, <1>4, <1>5, <1>6, <1>7, <1>8, <1>9, <1>10, <1>11,
     <1>12, <1>13, <1>14, <1>15, <1>16, <1>17, NextCases

(* Nothing is begun on the completion queue after Shutdown(): the stop()    *)
(* that finishing the last work of the drain calls finds stopped set by the *)
(* destructor's own stop().                                                 *)
THEOREM NoAlarmAfterShutdownAlways == Spec => []NoAlarmAfterShutdown
<1>1. Init => DrainInvariant
  <2> SUFFICES ASSUME Init PROVE DrainInvariant
    OBVIOUS
  <2>1. ~shutdown
    BY Zenon DEF Init
  <2>2. QED
    BY <2>1 DEF Init, DrainInvariant
<1>2. TypeOK /\ DrainInvariant /\ [Next]_vars => DrainInvariant'
  BY DrainStep
<1>3. DrainInvariant => NoAlarmAfterShutdown
  BY DEF DrainInvariant, NoAlarmAfterShutdown
<1>4. QED
  BY <1>1, <1>2, <1>3, TypeCorrect, PTL DEF Spec
=============================================================================
