----------------------- MODULE GrpcContextQueueProofs -----------------------
(***************************************************************************)
(* Theorems about the operations that a GrpcContext holds: where they are,  *)
(* in which order they are completed, how they are counted, and that the    *)
(* destructor leaves none behind.                                           *)
(*                                                                          *)
(* A step changes Pipeline in one of three ways: it leaves it alone, even   *)
(* if operations move from queue to queue, it inserts the operation that    *)
(* the thread carries, or it takes a prefix away.  Everything else follows  *)
(* from that and from SequenceLemmas.                                       *)
(***************************************************************************)
EXTENDS GrpcContextProofs, SequenceLemmas

(* process_local_queue has completed its batch, or forgotten it, whenever   *)
(* the event loop is somewhere else: the next batch overwrites nothing.     *)
BatchTaken == loop \notin {"batch", "op"} => queue = <<>>

Inserts(op) ==
    \E s, t \in Seq(Ops) : Pipeline = s \o t /\ Pipeline' = Append(s, op) \o t

Removes(s) == s \in Seq(Ops) /\ Pipeline = s \o Pipeline'

(* The pipeline is a sequence of operations.                                *)
LEMMA PipelineType ==
    ASSUME QueueTypeOK
    PROVE  /\ Pipeline \in Seq(Ops) /\ queue \o local_work_queue \in Seq(Ops)
           /\ Len(Pipeline) \in Nat
           /\ Pipeline = queue \o (local_work_queue \o remote_work_queue)
<1>1. /\ queue \in Seq(Ops) /\ local_work_queue \in Seq(Ops)
      /\ remote_work_queue \in Seq(Ops)
  BY DEF QueueTypeOK
<1>2. queue \o local_work_queue \in Seq(Ops)
  BY <1>1, ConcatProperties
<1>3. Pipeline \in Seq(Ops)
  BY <1>1, <1>2, ConcatProperties DEF Pipeline
<1>4. Pipeline = queue \o (local_work_queue \o remote_work_queue)
  BY <1>1, ConcatAssociative DEF Pipeline
<1>5. QED
  BY <1>2, <1>3, <1>4

(* push_back() inserts after the local operations, before the remote ones.  *)
LEMMA PushBackInserts ==
    ASSUME QueueTypeOK, NEW op \in Ops, PushBack(op)
    PROVE  Inserts(op)
<1>1. /\ queue \in Seq(Ops) /\ local_work_queue \in Seq(Ops)
      /\ remote_work_queue \in Seq(Ops)
  BY DEF QueueTypeOK
<1>2. queue \o Append(local_work_queue, op)
          = Append(queue \o local_work_queue, op)
  BY <1>1, ConcatAppend
<1>3. Pipeline' = Append(queue \o local_work_queue, op) \o remote_work_queue
  BY <1>2 DEF PushBack, Pipeline
<1>4. QED
  BY <1>1, <1>3, PipelineType DEF Inserts, Pipeline

(* enqueue() inserts at the end.                                            *)
LEMMA EnqueueInserts ==
    ASSUME QueueTypeOK, NEW op \in Ops, Enqueue(op)
    PROVE  Inserts(op)
<1>1. /\ queue \o local_work_queue \in Seq(Ops)
      /\ remote_work_queue \in Seq(Ops) /\ Pipeline \in Seq(Ops)
  BY PipelineType DEF QueueTypeOK
<1>2. Pipeline' = (queue \o local_work_queue) \o Append(remote_work_queue, op)
  BY DEF Enqueue, Pipeline
<1>3. Pipeline' = Append(Pipeline, op)
  BY <1>1, <1>2, ConcatAppend DEF Pipeline
<1>4. Append(Pipeline, op) \in Seq(Ops)
  BY <1>1, AppendProperties
<1>5. Pipeline = Pipeline \o <<>> /\ Pipeline' = Append(Pipeline, op) \o <<>>
  BY <1>1, <1>3, <1>4, ConcatEmptySeq
<1>6. <<>> \in Seq(Ops)
  OBVIOUS
<1>7. QED
  BY <1>1, <1>5, <1>6 DEF Inserts

(* Moving the remote operations behind the local ones, or starting a batch  *)
(* when the previous one is finished, changes no operation's place.         *)
LEMMA MovingKeepsPipeline ==
    ASSUME QueueTypeOK, DequeueAll \/ (queue = <<>> /\ TakeLocal)
    PROVE  Pipeline' = Pipeline
<1>1. /\ queue \in Seq(Ops) /\ local_work_queue \in Seq(Ops)
      /\ remote_work_queue \in Seq(Ops)
  BY DEF QueueTypeOK
<1>2. CASE DequeueAll
  <2>1. Pipeline' = (queue \o (local_work_queue \o remote_work_queue)) \o <<>>
    BY <1>2 DEF DequeueAll, Pipeline
  <2>2. Pipeline' = Pipeline \o <<>>
    BY <2>1, PipelineType
  <2>3. QED
    BY <2>2, PipelineType, ConcatEmptySeq
<1>3. CASE queue = <<>> /\ TakeLocal
  <2>1. local_work_queue \o <<>> = <<>> \o local_work_queue
    BY <1>1, ConcatEmptySeq
  <2>2. QED
    BY <1>3, <2>1 DEF TakeLocal, Pipeline
<1>4. QED
  BY <1>2, <1>3

(* Completing an operation takes the first one away, an exception takes the *)
(* rest of the batch away.                                                  *)
LEMMA TakingRemoves ==
    ASSUME QueueTypeOK
    PROVE  /\ PopFront => Removes(<<Head(queue)>>)
           /\ DropQueue => Removes(queue)
<1> DEFINE rest == local_work_queue \o remote_work_queue
<1>1. /\ queue \in Seq(Ops) /\ local_work_queue \in Seq(Ops)
      /\ remote_work_queue \in Seq(Ops) /\ rest \in Seq(Ops)
  BY ConcatProperties DEF QueueTypeOK
<1>2. ASSUME PopFront PROVE Removes(<<Head(queue)>>)
  <2>1. queue # <<>> /\ Tail(queue) \in Seq(Ops) /\ Head(queue) \in Ops
    BY <1>1, <1>2, HeadTailProperties DEF PopFront
  <2>2. queue = <<Head(queue)>> \o Tail(queue)
    BY <1>1, <2>1, SMTT(30)
  <2>3. <<Head(queue)>> \in Seq(Ops)
    BY <2>1
  <2>4. Pipeline' = Tail(queue) \o rest
    <3>1. Pipeline' = (Tail(queue) \o local_work_queue) \o remote_work_queue
      BY <1>2 DEF PopFront, Pipeline
    <3>2. (Tail(queue) \o local_work_queue) \o remote_work_queue
              = Tail(queue) \o (local_work_queue \o remote_work_queue)
      BY <1>1, <2>1, ConcatAssociative, SMTT(60)
    <3>3. QED
      BY <3>1, <3>2
  <2>5. Pipeline = queue \o rest
    BY PipelineType
  <2>6. (<<Head(queue)>> \o Tail(queue)) \o rest
            = <<Head(queue)>> \o (Tail(queue) \o rest)
    BY <1>1, <2>1, <2>3, ConcatAssociative
  <2>7. QED
    BY ONLY <2>2, <2>3, <2>4, <2>5, <2>6 DEF Removes
<1>3. ASSUME DropQueue PROVE Removes(queue)
  <2>1. Pipeline' = (<<>> \o local_work_queue) \o remote_work_queue
    BY <1>3 DEF DropQueue, Pipeline
  <2>2. Pipeline' = rest
    BY <1>1, <2>1, ConcatEmptySeq
  <2>3. QED
    BY <1>1, <2>2, PipelineType DEF Removes
<1>4. QED
  BY <1>2, <1>3
-----------------------------------------------------------------------------
(* What a step does to the queues                                           *)

(* The batch is empty wherever the event loop may take a new one.           *)
LEMMA BatchStep ==
    ASSUME TypeOK, BatchTaken, [Next]_vars
    PROVE  BatchTaken'
<1> USE DEF BatchTaken
<1>1. CASE UNCHANGED vars
  BY <1>1 DEF vars, queueVars
<1>2. ASSUME NEW t \in Threads, NEW op \in Ops, Post(t, op) PROVE BatchTaken'
  BY <1>2 DEF Post, queueVars, loopVars
<1>3. ASSUME NEW t \in Threads, NEW tag \in Tags, Initiate(t, tag)
      PROVE  BatchTaken'
  BY <1>3 DEF Initiate, queueVars, loopVars
<1>4. ASSUME NEW t \in Threads,
             \/ Stop(t) \/ Reset(t) \/ WorkStarted(t) \/ ReleaseGuard(t)
             \/ AllocationFails(t) \/ StartTag(t) \/ TriggerWorkAlarm(t)
             \/ ExchangeStopped(t) \/ WorkFinished(t)
      PROVE  BatchTaken'
  BY <1>4 DEF Stop, Reset, WorkStarted, ReleaseGuard, AllocationFails,
              StartTag, TriggerWorkAlarm, ExchangeStopped, WorkFinished,
              queueVars, loopVars
<1>5. ASSUME NEW t \in Threads, \/ AddLocalOperation(t)
                                \/ AddRemoteOperation(t) \/ TryMarkActive(t)
      PROVE  BatchTaken'
  BY <1>5 DEF AddLocalOperation, AddRemoteOperation, TryMarkActive, PushBack,
              Enqueue, MarkActive, queueVars, loopVars
<1>6. CASE \/ Run \/ Poll \/ Destroy \/ LoadOutstandingWork \/ MarkStopped
           \/ EnterLoop \/ LocalQueueProcessed \/ Unwind \/ StopCondition
           \/ NoEvent \/ QueueShutdown \/ Shutdown
  BY <1>6 DEF Run, Poll, Destroy, LoadOutstandingWork, MarkStopped, EnterLoop,
              LocalQueueProcessed, Unwind, StopCondition, NoEvent,
              QueueShutdown, Shutdown, OnlyLoop, LoopFrom, queueVars
<1>7. CASE MoveRemoteWork
  BY <1>7 DEF MoveRemoteWork, MoveRemoteWorkToLocalQueue, MarkInactive,
              DequeueAll, LoopFrom, queueVars
<1>8. CASE TakeLocalQueue \/ CompleteOperation
  BY <1>8 DEF TakeLocalQueue, CompleteOperation
<1>9. CASE CompletionReturns \/ HandlerThrows
  BY <1>9 DEF CompletionReturns, HandlerThrows, InCompletion, DropQueue,
              queueVars
<1>10. ASSUME NEW tag \in Tags \cup {HAS_REMOTE_WORK_TAG}, GotEvent(tag)
       PROVE  BatchTaken'
  BY <1>10 DEF GotEvent, LoopFrom, queueVars
<1>11. ASSUME NEW tag \in Tags, TagCompletes(tag) PROVE BatchTaken'
  BY <1>11 DEF TagCompletes, queueVars, loopVars
<1>12. CASE AlarmFires
  BY <1>12 DEF AlarmFires, queueVars, loopVars
<1>13. QED
  BY <1>1, <1>2, <1>3, <1>4, <1>5, <1>6, <1>7, <1>8, <1>9, <1>10, <1>11,
     <1>12, NextCases

(* The four ways in which a step may treat the queues.                      *)
LEMMA PipelineStep ==
    ASSUME TypeOK, BatchTaken, [Next]_vars
    PROVE  \/ Pipeline' = Pipeline
           \/ \E t \in Threads : /\ AddLocalOperation(t) \/ AddRemoteOperation(t)
                                 /\ arg[t] \in Ops /\ Inserts(arg[t])
           \/ CompleteOperation /\ Removes(<<Head(queue)>>)
           \/ HandlerThrows /\ Removes(queue)
<1> DEFINE Goal ==
       \/ Pipeline' = Pipeline
       \/ \E t \in Threads : /\ AddLocalOperation(t) \/ AddRemoteOperation(t)
                             /\ arg[t] \in Ops /\ Inserts(arg[t])
       \/ CompleteOperation /\ Removes(<<Head(queue)>>)
       \/ HandlerThrows /\ Removes(queue)
<1> SUFFICES Goal
  OBVIOUS
<1>0. QueueTypeOK /\ \A t \in Threads : call[t] = "submit" => arg[t] \in Ops
  BY DEF TypeOK
<1>u. UNCHANGED queueVars => Goal
  BY DEF queueVars, Pipeline
<1>f. /\ UNCHANGED <<remote_work_queue, local_work_queue, queue>> => Goal
  BY DEF Pipeline
<1>1. CASE UNCHANGED vars
  BY <1>1, <1>u DEF vars
<1>2. ASSUME NEW t \in Threads, NEW op \in Ops, Post(t, op) PROVE Goal
  BY <1>2, <1>u DEF Post
<1>3. ASSUME NEW t \in Threads, NEW tag \in Tags, Initiate(t, tag) PROVE Goal
  BY <1>3, <1>u DEF Initiate
<1>4. ASSUME NEW t \in Threads,
             \/ Stop(t) \/ Reset(t) \/ WorkStarted(t) \/ ReleaseGuard(t)
             \/ AllocationFails(t) \/ StartTag(t) \/ TriggerWorkAlarm(t)
             \/ ExchangeStopped(t) \/ WorkFinished(t)
      PROVE  Goal
  BY <1>4, <1>u
     DEF Stop, Reset, WorkStarted, ReleaseGuard, AllocationFails,
         StartTag, TriggerWorkAlarm, ExchangeStopped, WorkFinished
<1>5. ASSUME NEW t \in Threads, AddLocalOperation(t) PROVE Goal
  <2>1. arg[t] \in Ops /\ PushBack(arg[t])
    BY <1>0, <1>5 DEF AddLocalOperation
  <2>2. Inserts(arg[t])
    BY <1>0, <2>1, PushBackInserts
  <2>3. QED
    BY <1>5, <2>1, <2>2
<1>6. ASSUME NEW t \in Threads, AddRemoteOperation(t) PROVE Goal
  <2>1. arg[t] \in Ops /\ Enqueue(arg[t])
    BY <1>0, <1>6 DEF AddRemoteOperation
  <2>2. Inserts(arg[t])
    BY <1>0, <2>1, EnqueueInserts
  <2>3. QED
    BY <1>6, <2>1, <2>2
<1>7. ASSUME NEW t \in Threads, TryMarkActive(t) PROVE Goal
  BY <1>7, <1>u, <1>f DEF TryMarkActive, MarkActive
<1>8. CASE \/ Run \/ Poll \/ Destroy \/ LoadOutstandingWork \/ MarkStopped
           \/ EnterLoop \/ LocalQueueProcessed \/ Unwind \/ StopCondition
           \/ NoEvent \/ QueueShutdown \/ Shutdown \/ CompletionReturns
  BY <1>8, <1>u
     DEF Run, Poll, Destroy, LoadOutstandingWork, MarkStopped, EnterLoop,
         LocalQueueProcessed, Unwind, StopCondition, NoEvent, QueueShutdown,
         Shutdown, CompletionReturns, OnlyLoop
<1>9. CASE MoveRemoteWork
  <2>1. UNCHANGED queueVars \/ MarkInactive \/ DequeueAll
    BY <1>9 DEF MoveRemoteWork, MoveRemoteWorkToLocalQueue
  <2>2. QED
    BY <1>0, <1>u, <1>f, <2>1, MovingKeepsPipeline DEF MarkInactive
<1>10. CASE TakeLocalQueue
  BY <1>0, <1>10, MovingKeepsPipeline DEF TakeLocalQueue, BatchTaken, LoopFrom
<1>11. CASE CompleteOperation
  BY <1>0, <1>11, TakingRemoves DEF CompleteOperation
<1>12. CASE HandlerThrows
  BY <1>0, <1>12, TakingRemoves DEF HandlerThrows
<1>13. ASSUME NEW tag \in Tags \cup {HAS_REMOTE_WORK_TAG}, GotEvent(tag)
       PROVE  Goal
  BY <1>13, <1>u DEF GotEvent
<1>14. ASSUME NEW tag \in Tags, TagCompletes(tag) PROVE Goal
  BY <1>14, <1>u DEF TagCompletes
<1>15. CASE AlarmFires
  BY <1>15, <1>u DEF AlarmFires
<1> HIDE DEF Goal
<1>16. QED
  BY <1>1, <1>2, <1>3, <1>4, <1>5, <1>6, <1>7, <1>8, <1>9, <1>10, <1>11,
     <1>12, <1>13, <1>14, <1>15, NextCases

(* What inserting an operation that is not queued does to the elements.     *)
LEMMA InsertsEffect ==
    ASSUME QueuedOnce, NEW op \in Ops, Inserts(op), op \notin Queued
    PROVE  /\ QueuedOnce' /\ Queued' = Queued \cup {op}
           /\ Len(Pipeline') = Len(Pipeline) + 1
<1>1. PICK s \in Seq(Ops), t \in Seq(Ops) :
          Pipeline = s \o t /\ Pipeline' = Append(s, op) \o t
  BY DEF Inserts
<1>2. IsInjective(Append(s, op) \o t)
  BY <1>1, InsertInjective DEF QueuedOnce, Queued
<1>3. ToSet(Append(s, op) \o t) = ToSet(s \o t) \cup {op}
  BY InsertSet
<1>4. Len(Append(s, op) \o t) = Len(s \o t) + 1
  BY InsertElements
<1>5. QED
  BY <1>1, <1>2, <1>3, <1>4 DEF QueuedOnce, Queued

(* What taking operations from the front does to the elements.              *)
LEMMA RemovesEffect ==
    ASSUME QueuedOnce, QueueTypeOK', NEW s, Removes(s)
    PROVE  /\ QueuedOnce' /\ Queued = ToSet(s) \cup Queued'
           /\ ToSet(s) \cap Queued' = {}
           /\ Len(Pipeline) = Len(s) + Len(Pipeline')
           /\ IsFiniteSet(ToSet(s)) /\ Cardinality(ToSet(s)) = Len(s)
<1> DEFINE p == Pipeline'
<1>1. s \in Seq(Ops) /\ p \in Seq(Ops) /\ Pipeline = s \o p
  <2>1. p \in Seq(Ops)
    BY ConcatProperties DEF QueueTypeOK, Pipeline
  <2>2. QED
    BY <2>1 DEF Removes
<1> HIDE DEF p
<1>2. IsInjective(s \o p)
  BY <1>1 DEF QueuedOnce
<1>3. /\ ToSet(s \o p) = ToSet(s) \cup ToSet(p)
      /\ IsInjective(s) /\ IsInjective(p) /\ ToSet(s) \cap ToSet(p) = {}
  BY <1>1, <1>2, ConcatSet
<1>4. IsFiniteSet(ToSet(s)) /\ Cardinality(ToSet(s)) = Len(s)
  BY <1>1, <1>3, InjectiveCardinality
<1>5. Len(s \o p) = Len(s) + Len(p)
  BY <1>1, ConcatElements
<1>6. QED
  BY <1>1, <1>3, <1>4, <1>5 DEF p, QueuedOnce, Queued
-----------------------------------------------------------------------------
(* Ownership                                                                *)

(* The threads that hold an operation or a tag that they have allocated.    *)
Carriers == {t \in Threads : call[t] \in {"submit", "initiate"}}

CarriedOnce == \A t, u \in Carriers : arg[t] = arg[u] => t = u

(* OwnedOnce is not inductive by itself: a leaked operation must not be the *)
(* one that a thread is about to queue.                                     *)
OwnedInvariant == OwnedOnce /\ leaked \cap Carried = {}

(* The parts of OwnedInvariant ...                                          *)
LEMMA OwnedParts ==
    OwnedInvariant <=>
       /\ QueuedOnce /\ CarriedOnce /\ leaked \cap Carried = {}
       /\ (Queued \cup inflight \cup cq) \cap (leaked \cup Carried) = {}
       /\ inflight \cap cq = {}
  BY DEF OwnedInvariant, OwnedOnce, CarriedOnce, Carriers

(* ... and the same in the next state.                                      *)
LEMMA OwnedPartsNext ==
    OwnedInvariant' <=>
       /\ QueuedOnce' /\ CarriedOnce' /\ leaked' \cap Carried' = {}
       /\ (Queued' \cup inflight' \cup cq') \cap (leaked' \cup Carried') = {}
       /\ inflight' \cap cq' = {}
  BY DEF OwnedInvariant, OwnedOnce, CarriedOnce, Carriers

(* Nothing that a thread carries changes.                                   *)
LEMMA CarriedSame ==
    ASSUME CarriedOnce, Carriers' = Carriers,
           \A t \in Carriers : arg'[t] = arg[t]
    PROVE  CarriedOnce' /\ Carried' = Carried
<1>1. Carried = {arg[t] : t \in Carriers}
  BY DEF Carried, Carriers
<1>2. Carried' = {arg'[t] : t \in Carriers'}
  BY DEF Carried, Carriers
<1>3. QED
  BY <1>1, <1>2 DEF CarriedOnce

(* A thread that is not carrying anything takes another such step.          *)
LEMMA GotoKeepsCarriers ==
    ASSUME call \in [Threads -> CallSteps], NEW t \in Threads, NEW step,
           Goto(t, step), call[t] \notin {"submit", "initiate"},
           step \notin {"submit", "initiate"}
    PROVE  Carriers' = Carriers
  BY DEF Carriers, Goto

(* A thread allocates something that no other thread has.                   *)
LEMMA CarriedAdded ==
    ASSUME TypeOK, CarriedOnce, NEW t \in Threads, NEW x,
           call[t] \notin {"submit", "initiate"}, x \notin Carried,
           NEW step \in {"submit", "initiate"}, Goto(t, step),
           arg' = [arg EXCEPT ![t] = x]
    PROVE  CarriedOnce' /\ Carried' = Carried \cup {x}
<1>1. Carried = {arg[u] : u \in Carriers}
  BY DEF Carried, Carriers
<1>2. Carried' = {arg'[u] : u \in Carriers'}
  BY DEF Carried, Carriers
<1>3. Carriers' = Carriers \cup {t} /\ t \notin Carriers
  BY DEF TypeOK, Carriers, Goto
<1>4. arg'[t] = x /\ \A u \in Carriers : arg'[u] = arg[u]
  BY <1>3 DEF TypeOK, Carriers
<1>5. QED
  BY <1>1, <1>2, <1>3, <1>4 DEF CarriedOnce

(* A thread hands over, or frees, what it has allocated.                    *)
LEMMA CarriedGiven ==
    ASSUME TypeOK, CarriedOnce, NEW t \in Threads,
           call[t] \in {"submit", "initiate"},
           NEW step, step \notin {"submit", "initiate"}, Goto(t, step),
           arg' = [arg EXCEPT ![t] = None]
    PROVE  /\ CarriedOnce' /\ Carried' = Carried \ {arg[t]}
           /\ arg[t] \in Carried
<1>1. Carried = {arg[u] : u \in Carriers}
  BY DEF Carried, Carriers
<1>2. Carried' = {arg'[u] : u \in Carriers'}
  BY DEF Carried, Carriers
<1>3. Carriers' = Carriers \ {t} /\ t \in Carriers
  BY DEF TypeOK, Carriers, Goto
<1>4. \A u \in Carriers' : arg'[u] = arg[u]
  BY <1>3 DEF TypeOK, Carriers
<1>5. QED
  BY <1>1, <1>2, <1>3, <1>4 DEF CarriedOnce

(* A step that leaves all of that alone.                                    *)
LEMMA OwnedFrame ==
    ASSUME OwnedInvariant, Pipeline' = Pipeline, Carriers' = Carriers,
           \A t \in Carriers : arg'[t] = arg[t],
           inflight' = inflight, cq' = cq, leaked' = leaked
    PROVE  OwnedInvariant'
<1>1. CarriedOnce' /\ Carried' = Carried
  BY OwnedParts, CarriedSame
<1>2. Queued' = Queued /\ (QueuedOnce <=> QueuedOnce')
  BY DEF Queued, QueuedOnce
<1>3. QED
  BY <1>1, <1>2, OwnedParts, OwnedPartsNext

(* Who owns an operation or a tag.                                          *)
LEMMA OwnedStep ==
    ASSUME TypeOK, TypeOK', BatchTaken, OwnedInvariant, [Next]_vars
    PROVE  OwnedInvariant'
<1> USE GrpcContextAssumption
<1>0. /\ call \in [Threads -> CallSteps]
      /\ inflight \subseteq Tags /\ leaked \subseteq Ops
      /\ cq \subseteq Tags \cup {HAS_REMOTE_WORK_TAG}
      /\ QueueTypeOK /\ QueueTypeOK'
  BY DEF TypeOK
<1>q. /\ QueuedOnce /\ CarriedOnce
      /\ (Queued \cup inflight \cup cq) \cap (leaked \cup Carried) = {}
      /\ inflight \cap cq = {} /\ leaked \cap Carried = {}
  BY OwnedParts
<1>o. Queued \subseteq Ops /\ Carried \subseteq Ops \cup Tags
  <2>1. Queued \subseteq Ops
    <3>1. Pipeline \in Seq(Ops)
      BY <1>0, PipelineType
    <3>2. QED
      BY <3>1 DEF Queued, ToSet
  <2>2. Carried \subseteq Ops \cup Tags
    BY DEF Carried, TypeOK
  <2>3. QED
    BY <2>1, <2>2
<1>k. UNCHANGED queueVars => /\ Pipeline' = Pipeline /\ Queued' = Queued
                             /\ QueuedOnce'
  BY <1>q DEF queueVars, Pipeline, Queued, QueuedOnce
<1>a. UNCHANGED <<call, arg>> => /\ Carriers' = Carriers
                                 /\ \A t \in Carriers : arg'[t] = arg[t]
  BY DEF Carriers
<1>1. CASE UNCHANGED vars
  BY <1>1, <1>k, <1>a, OwnedFrame DEF vars
<1>2. ASSUME NEW t \in Threads, NEW op \in Ops, Post(t, op) PROVE OwnedInvariant'
  <2>1. CarriedOnce' /\ Carried' = Carried \cup {op}
    BY <1>2, <1>q, CarriedAdded DEF Post, CanCall
  <2>2. /\ op \notin Queued \cup leaked \cup Carried
        /\ Queued' = Queued /\ QueuedOnce'
        /\ inflight' = inflight /\ cq' = cq /\ leaked' = leaked
    BY <1>2, <1>k DEF Post, cqVars, userVars
  <2>3. op \notin inflight \cup cq
    BY <1>0
  <2>4. QED
    BY <1>q, <2>1, <2>2, <2>3, OwnedPartsNext
<1>3. ASSUME NEW t \in Threads, NEW tag \in Tags, Initiate(t, tag)
      PROVE  OwnedInvariant'
  <2>1. CarriedOnce' /\ Carried' = Carried \cup {tag}
    BY <1>3, <1>q, CarriedAdded DEF Initiate, CanCall
  <2>2. /\ tag \notin inflight \cup cq \cup Carried
        /\ Queued' = Queued /\ QueuedOnce'
        /\ inflight' = inflight /\ cq' = cq /\ leaked' = leaked
    BY <1>3, <1>k DEF Initiate, cqVars, userVars
  <2>3. tag \notin Queued \cup leaked
    BY <1>0, <1>o
  <2>4. QED
    BY <1>q, <2>1, <2>2, <2>3, OwnedPartsNext
<1>4. ASSUME NEW t \in Threads, Reset(t) \/ WorkStarted(t) PROVE OwnedInvariant'
  BY <1>4, <1>k, <1>a, OwnedFrame DEF Reset, WorkStarted, cqVars, userVars
<1>5. ASSUME NEW t \in Threads,
             \/ Stop(t) \/ ReleaseGuard(t) \/ TriggerWorkAlarm(t)
             \/ ExchangeStopped(t) \/ TryMarkActive(t) \/ WorkFinished(t)
      PROVE  OwnedInvariant'
  <2>1. PICK step \in CallSteps : /\ Goto(t, step)
                                  /\ step \notin {"submit", "initiate"}
    BY <1>5 DEF Stop, ReleaseGuard, TriggerWorkAlarm, ExchangeStopped,
                TryMarkActive, WorkFinished, CallSteps
  <2>2. call[t] \notin {"submit", "initiate"}
    BY <1>5 DEF Stop, ReleaseGuard, TriggerWorkAlarm, ExchangeStopped,
                TryMarkActive, WorkFinished, CanCall
  <2>3. Carriers' = Carriers
    BY <1>0, <2>1, <2>2, GotoKeepsCarriers
  <2>4. /\ arg' = arg /\ inflight' = inflight /\ cq' = cq /\ leaked' = leaked
        /\ UNCHANGED queueVars \/ MarkActive
    BY <1>5 DEF Stop, ReleaseGuard, TriggerWorkAlarm, ExchangeStopped,
                TryMarkActive, WorkFinished, cqVars, userVars
  <2>5. Pipeline' = Pipeline
    BY <1>k, <2>4 DEF MarkActive, Pipeline
  <2>6. QED
    BY <2>3, <2>4, <2>5, OwnedFrame
<1>6. ASSUME NEW t \in Threads, AllocationFails(t) PROVE OwnedInvariant'
  <2>1. CarriedOnce' /\ Carried' = Carried \ {arg[t]}
    BY <1>6, <1>q, CarriedGiven DEF AllocationFails
  <2>2. /\ Queued' = Queued /\ QueuedOnce'
        /\ inflight' = inflight /\ cq' = cq /\ leaked' = leaked
    BY <1>6, <1>k DEF AllocationFails, cqVars, userVars
  <2>3. QED
    BY <1>q, <2>1, <2>2, OwnedPartsNext
<1>7. ASSUME NEW t \in Threads, AddLocalOperation(t) \/ AddRemoteOperation(t)
      PROVE  OwnedInvariant'
  <2>1. /\ call[t] = "submit" /\ arg' = [arg EXCEPT ![t] = None]
        /\ Goto(t, "user") \/ Goto(t, "alarm")
        /\ inflight' = inflight /\ cq' = cq /\ leaked' = leaked
    BY <1>7 DEF AddLocalOperation, AddRemoteOperation, cqVars, userVars
  <2>2. /\ CarriedOnce' /\ Carried' = Carried \ {arg[t]}
        /\ arg[t] \in Carried
    BY <1>q, <2>1, CarriedGiven
  <2>3. arg[t] \in Ops
    BY <2>1 DEF TypeOK
  <2>4. Inserts(arg[t])
    BY <1>0, <1>7, <2>3, PushBackInserts, EnqueueInserts
       DEF AddLocalOperation, AddRemoteOperation
  <2>5. QueuedOnce' /\ Queued' = Queued \cup {arg[t]}
    BY <1>q, <2>2, <2>3, <2>4, InsertsEffect
  <2>6. arg[t] \notin leaked
    BY <1>q, <2>2
  <2>7. QED
    BY <1>q, <2>1, <2>2, <2>5, <2>6, OwnedPartsNext
<1>8. ASSUME NEW t \in Threads, StartTag(t) PROVE OwnedInvariant'
  <2>1. /\ CarriedOnce' /\ Carried' = Carried \ {arg[t]}
        /\ arg[t] \in Carried
    BY <1>8, <1>q, CarriedGiven DEF StartTag
  <2>2. /\ Queued' = Queued /\ QueuedOnce'
        /\ inflight' = inflight \cup {arg[t]} /\ cq' = cq /\ leaked' = leaked
    BY <1>8, <1>k DEF StartTag, userVars
  <2>3. arg[t] \in Tags
    BY <1>8 DEF StartTag, TypeOK
  <2>4. arg[t] \notin leaked
    BY <1>0, <2>3
  <2>5. QED
    BY <1>q, <2>1, <2>2, <2>4, OwnedPartsNext
<1>9. CASE \/ Run \/ Poll \/ LoadOutstandingWork \/ MarkStopped
           \/ EnterLoop \/ LocalQueueProcessed \/ Unwind \/ StopCondition
           \/ NoEvent \/ QueueShutdown \/ Shutdown
  BY <1>9, <1>k, <1>a, OwnedFrame
     DEF Run, Poll, LoadOutstandingWork, MarkStopped, EnterLoop,
         LocalQueueProcessed, Unwind, StopCondition, NoEvent, QueueShutdown,
         Shutdown, OnlyLoop, cqVars, userVars
<1>10. CASE Destroy \/ CompletionReturns
  <2>1. Carriers' = Carriers
    BY <1>0, <1>10, GotoKeepsCarriers DEF Destroy, CompletionReturns, LoopFrom
  <2>2. QED
    BY <1>10, <1>k, <2>1, OwnedFrame
       DEF Destroy, CompletionReturns, cqVars, userVars
<1>11. CASE MoveRemoteWork \/ TakeLocalQueue
  <2>1. Pipeline' = Pipeline
    <3>1. \/ UNCHANGED queueVars \/ MarkInactive \/ DequeueAll
          \/ queue = <<>> /\ TakeLocal
      BY <1>11 DEF MoveRemoteWork, MoveRemoteWorkToLocalQueue, TakeLocalQueue,
                   BatchTaken, LoopFrom
    <3>2. QED
      BY <1>0, <1>k, <3>1, MovingKeepsPipeline DEF MarkInactive, Pipeline
  <2>2. QED
    BY <1>11, <1>a, <2>1, OwnedFrame
       DEF MoveRemoteWork, TakeLocalQueue, cqVars, userVars
<1>12. CASE CompleteOperation
  <2>1. Removes(<<Head(queue)>>)
    BY <1>0, <1>12, TakingRemoves DEF CompleteOperation
  <2>2. QueuedOnce' /\ Queued' \subseteq Queued
    BY <1>0, <1>q, <2>1, RemovesEffect
  <2>3. CarriedOnce' /\ Carried' = Carried
    BY <1>12, <1>a, <1>q, CarriedSame DEF CompleteOperation
  <2>4. inflight' = inflight /\ cq' = cq /\ leaked' = leaked
    BY <1>12 DEF CompleteOperation, cqVars, userVars
  <2>5. QED
    BY <1>q, <2>2, <2>3, <2>4, OwnedPartsNext
<1>13. CASE HandlerThrows
  <2>1. Removes(queue)
    BY <1>0, <1>13, TakingRemoves DEF HandlerThrows
  <2>2. /\ QueuedOnce' /\ Queued = ToSet(queue) \cup Queued'
        /\ ToSet(queue) \cap Queued' = {}
    BY <1>0, <1>q, <2>1, RemovesEffect
  <2>3. Carriers' = Carriers
    BY <1>0, <1>13, GotoKeepsCarriers DEF HandlerThrows, LoopFrom
  <2>4. CarriedOnce' /\ Carried' = Carried
    BY <1>13, <1>q, <2>3, CarriedSame DEF HandlerThrows
  <2>5. /\ inflight' = inflight /\ cq' = cq
        /\ leaked' = leaked \cup ToSet(queue)
    BY <1>13 DEF HandlerThrows, cqVars
  <2>6. ToSet(queue) \cap (inflight \cup cq) = {}
    BY <1>0, <1>o, <2>2
  <2>7. ToSet(queue) \cap Carried = {}
    BY <1>q, <2>2
  <2>8. QED
    BY <1>q, <2>2, <2>4, <2>5, <2>6, <2>7, OwnedPartsNext
<1>14. ASSUME NEW tag \in Tags \cup {HAS_REMOTE_WORK_TAG}, GotEvent(tag)
       PROVE  OwnedInvariant'
  <2>1. CarriedOnce' /\ Carried' = Carried
    BY <1>14, <1>a, <1>q, CarriedSame DEF GotEvent
  <2>2. /\ Queued' = Queued /\ QueuedOnce'
        /\ inflight' = inflight /\ cq' = cq \ {tag} /\ leaked' = leaked
    BY <1>14, <1>k DEF GotEvent, userVars
  <2>3. QED
    BY <1>q, <2>1, <2>2, OwnedPartsNext
<1>15. ASSUME NEW tag \in Tags, TagCompletes(tag) PROVE OwnedInvariant'
  <2>1. CarriedOnce' /\ Carried' = Carried
    BY <1>15, <1>a, <1>q, CarriedSame DEF TagCompletes
  <2>2. /\ Queued' = Queued /\ QueuedOnce' /\ tag \in inflight
        /\ inflight' = inflight \ {tag} /\ cq' = cq \cup {tag}
        /\ leaked' = leaked
    BY <1>15, <1>k DEF TagCompletes, userVars
  <2>3. QED
    BY <1>q, <2>1, <2>2, OwnedPartsNext
<1>16. CASE AlarmFires
  <2>1. CarriedOnce' /\ Carried' = Carried
    BY <1>16, <1>a, <1>q, CarriedSame DEF AlarmFires
  <2>2. /\ Queued' = Queued /\ QueuedOnce'
        /\ inflight' = inflight /\ cq' = cq \cup {HAS_REMOTE_WORK_TAG}
        /\ leaked' = leaked
    BY <1>16, <1>k DEF AlarmFires, userVars
  <2>3. HAS_REMOTE_WORK_TAG \notin inflight \cup leaked \cup Carried
    BY <1>0, <1>o
  <2>4. QED
    BY <1>q, <2>1, <2>2, <2>3, OwnedPartsNext
<1>17. QED
  BY <1>1, <1>2, <1>3, <1>4, <1>5, <1>6, <1>7, <1>8, <1>9, <1>10, <1>11,
     <1>12, <1>13, <1>14, <1>15, <1>16, NextCases

(* The bookkeeping that decides who may touch an operation is right in      *)
(* every reachable state ...                                                *)
THEOREM OwnedInvariantAlways == Spec => [](BatchTaken /\ OwnedInvariant)
<1>1. Init => BatchTaken /\ OwnedInvariant
  <2> SUFFICES ASSUME Init PROVE BatchTaken /\ OwnedInvariant
    OBVIOUS
  <2>1. /\ queue = <<>> /\ local_work_queue = <<>>
        /\ remote_work_queue = <<>> /\ inflight = {} /\ cq = {}
        /\ leaked = {} /\ \A t \in Threads : call[t] = "user"
    BY DEF Init, QueueInit
  <2>2. Pipeline = <<>>
    BY <2>1 DEF Pipeline
  <2>3. Queued = {} /\ QueuedOnce
    BY <2>2 DEF Queued, QueuedOnce, ToSet, IsInjective
  <2>4. CarriedOnce
    BY <2>1 DEF CarriedOnce, Carriers
  <2>5. QED
    BY <2>1, <2>3, <2>4, OwnedParts DEF BatchTaken
<1>2. TypeOK /\ TypeOK' /\ (BatchTaken /\ OwnedInvariant) /\ [Next]_vars
          => (BatchTaken /\ OwnedInvariant)'
  BY BatchStep, OwnedStep
<1>3. QED
  BY <1>1, <1>2, TypeCorrect, PTL DEF Spec

(* ... so no operation is ever in two places: complete() frees memory that  *)
(* nothing else refers to, and a thread allocates memory that no queue      *)
(* holds, whichever thread frees and whichever thread allocates.            *)
THEOREM OwnedOnceAlways == Spec => []OwnedOnce
<1>1. BatchTaken /\ OwnedInvariant => OwnedOnce
  BY DEF OwnedInvariant
<1>2. QED
  BY <1>1, OwnedInvariantAlways, PTL

(* What moves from queue to queue never changes its place in the order of   *)
(* completion: a step inserts an operation or takes a prefix away.          *)
LEMMA OrderStep ==
    ASSUME TypeOK, TypeOK', BatchTaken, OwnedInvariant, [Next]_vars,
           NEW a \in Queued \cap Queued', NEW b \in Queued \cap Queued',
           Before(a, b)
    PROVE  Before(a, b)'
<1>1. /\ Before(a, b) <=> Precedes(Pipeline, a, b)
      /\ Before(a, b)' <=> Precedes(Pipeline', a, b)
  BY DEF Before, Precedes
<1>2. /\ Pipeline \in Seq(Ops) /\ Pipeline' \in Seq(Ops)
      /\ IsInjective(Pipeline)
  <2>1. QueueTypeOK /\ QueueTypeOK'
    BY DEF TypeOK
  <2>2. Pipeline' \in Seq(Ops)
    BY <2>1, ConcatProperties DEF QueueTypeOK, Pipeline
  <2>3. QED
    BY <2>1, <2>2, PipelineType, OwnedParts DEF QueuedOnce
<1>3. CASE Pipeline' = Pipeline
  BY <1>1, <1>3
<1>4. ASSUME NEW op \in Ops, Inserts(op) PROVE Before(a, b)'
  <2>1. PICK s \in Seq(Ops), t \in Seq(Ops) :
            Pipeline = s \o t /\ Pipeline' = Append(s, op) \o t
    BY <1>4 DEF Inserts
  <2>2. Precedes(Append(s, op) \o t, a, b)
    BY <1>1, <2>1, InsertOrder
  <2>3. QED
    BY <1>1, <2>1, <2>2
<1>5. ASSUME NEW s, Removes(s) PROVE Before(a, b)'
  <2> DEFINE p == Pipeline'
  <2>1. /\ s \in Seq(Ops) /\ p \in Seq(Ops) /\ Pipeline = s \o p
        /\ a \in ToSet(p) /\ b \in ToSet(p)
    BY <1>2, <1>5 DEF Removes, Queued
  <2> HIDE DEF p
  <2>2. IsInjective(s \o p) /\ Precedes(s \o p, a, b)
    BY <1>1, <1>2, <2>1
  <2>3. Precedes(p, a, b)
    BY <2>1, <2>2, SuffixOrder
  <2>4. QED
    BY <1>1, <2>3 DEF p
<1>6. QED
  BY <1>3, <1>4, <1>5, PipelineStep

(* First come, first served: whatever threads post and however the event    *)
(* loop moves operations around, two operations that are waiting never      *)
(* change their order.                                                      *)
THEOREM OrderPreservedAlways == Spec => OrderPreserved
<1>1. TypeOK /\ TypeOK' /\ (BatchTaken /\ OwnedInvariant) /\ [Next]_vars
          => [\A a, b \in Queued \cap Queued' :
                 Before(a, b) => Before(a, b)']_queueVars
  BY OrderStep
<1>2. QED
  BY <1>1, TypeCorrect, OwnedInvariantAlways, PTL DEF Spec, OrderPreserved
-----------------------------------------------------------------------------
(* The contract of the queues                                               *)

(* What the context does with its queues is a step that WorkQueues allows.  *)
LEMMA QueueContractStep ==
    ASSUME TypeOK, BatchTaken, OwnedInvariant, [Next]_vars
    PROVE  [QueueNext]_queueVars
<1>0. \A t \in Threads : call[t] = "submit" => /\ arg[t] \in Ops
                                               /\ arg[t] \notin Queued
  <2> SUFFICES ASSUME NEW t \in Threads, call[t] = "submit"
               PROVE  arg[t] \in Ops /\ arg[t] \notin Queued
    OBVIOUS
  <2>1. arg[t] \in Carried
    BY DEF Carried
  <2>2. QED
    BY <2>1, OwnedParts DEF TypeOK
<1> USE DEF QueueNext
<1>1. CASE UNCHANGED vars
  BY <1>1 DEF vars
<1>2. ASSUME NEW t \in Threads, NEW op \in Ops, Post(t, op)
      PROVE  [QueueNext]_queueVars
  BY <1>2 DEF Post
<1>3. ASSUME NEW t \in Threads, NEW tag \in Tags, Initiate(t, tag)
      PROVE  [QueueNext]_queueVars
  BY <1>3 DEF Initiate
<1>4. ASSUME NEW t \in Threads,
             \/ Stop(t) \/ Reset(t) \/ WorkStarted(t) \/ ReleaseGuard(t)
             \/ AllocationFails(t) \/ StartTag(t) \/ TriggerWorkAlarm(t)
             \/ ExchangeStopped(t) \/ WorkFinished(t)
      PROVE  [QueueNext]_queueVars
  BY <1>4 DEF Stop, Reset, WorkStarted, ReleaseGuard, AllocationFails,
              StartTag, TriggerWorkAlarm, ExchangeStopped, WorkFinished
<1>5. ASSUME NEW t \in Threads, \/ AddLocalOperation(t)
                                \/ AddRemoteOperation(t)
      PROVE  [QueueNext]_queueVars
  <2>1. /\ arg[t] \in Ops \ Queued
        /\ Enqueue(arg[t]) \/ PushBack(arg[t])
    BY <1>0, <1>5 DEF AddLocalOperation, AddRemoteOperation
  <2>2. QED
    BY <2>1
<1>6. ASSUME NEW t \in Threads, TryMarkActive(t)
      PROVE  [QueueNext]_queueVars
  BY <1>6 DEF TryMarkActive
<1>7. CASE \/ Run \/ Poll \/ Destroy \/ LoadOutstandingWork \/ MarkStopped
           \/ EnterLoop \/ LocalQueueProcessed \/ Unwind \/ StopCondition
           \/ NoEvent \/ QueueShutdown \/ Shutdown \/ CompletionReturns
  BY <1>7 DEF Run, Poll, Destroy, LoadOutstandingWork, MarkStopped, EnterLoop,
              LocalQueueProcessed, Unwind, StopCondition, NoEvent,
              QueueShutdown, Shutdown, CompletionReturns, OnlyLoop
<1>8. CASE MoveRemoteWork
  BY <1>8 DEF MoveRemoteWork, MoveRemoteWorkToLocalQueue
<1>9. CASE TakeLocalQueue
  BY <1>9 DEF TakeLocalQueue, BatchTaken, LoopFrom
<1>10. CASE CompleteOperation \/ HandlerThrows
  BY <1>10 DEF CompleteOperation, HandlerThrows
<1>11. ASSUME NEW tag \in Tags \cup {HAS_REMOTE_WORK_TAG}, GotEvent(tag)
       PROVE  [QueueNext]_queueVars
  BY <1>11 DEF GotEvent
<1>12. ASSUME NEW tag \in Tags, TagCompletes(tag)
       PROVE  [QueueNext]_queueVars
  BY <1>12 DEF TagCompletes
<1>13. CASE AlarmFires
  BY <1>13 DEF AlarmFires
<1>14. QED
  BY <1>1, <1>2, <1>3, <1>4, <1>5, <1>6, <1>7, <1>8, <1>9, <1>10, <1>11,
     <1>12, <1>13, NextCases

(* The context keeps the contract under which IntrusiveQueues implements    *)
(* the queues: it never adds an operation that is linked into a queue       *)
(* already, and it takes a new batch only when the previous one is used up. *)
(* (That it dequeues from an active queue only is part of WakeupToken.)     *)
THEOREM QueueContract == Spec => QueueSpec
<1>1. Init => QueueInit
  BY DEF Init
<1>2. TypeOK /\ (BatchTaken /\ OwnedInvariant) /\ [Next]_vars
          => [QueueNext]_queueVars
  BY QueueContractStep
<1>3. QED
  BY <1>1, <1>2, TypeCorrect, OwnedInvariantAlways, PTL DEF Spec, QueueSpec
-----------------------------------------------------------------------------
(* Counting                                                                 *)

(* The threads whose call holds a unit of work.                             *)
Callers == {t \in Threads : call[t] \in {"submit", "initiate", "finish"}}

Delivered == cq \cap Tags

Completing == IF InCompletion THEN 1 ELSE 0

(* What outstanding_work counts is finite although the sets of threads,     *)
(* operations and tags need not be.                                         *)
FiniteWork ==
    /\ IsFiniteSet(leaked) /\ IsFiniteSet(inflight)
    /\ IsFiniteSet(Delivered) /\ IsFiniteSet(Callers)

CountInvariant == FiniteWork /\ WorkAccounting

(* The sum, by its parts.                                                   *)
LEMMA AccountingSum ==
    /\ WorkAccounting <=>
          outstanding_work = Len(Pipeline) + Cardinality(leaked)
              + Cardinality(inflight) + Cardinality(Delivered) + guards
              + Cardinality(Callers) + Completing
    /\ WorkAccounting' <=>
          outstanding_work' = Len(Pipeline') + Cardinality(leaked')
              + Cardinality(inflight') + Cardinality(Delivered') + guards'
              + Cardinality(Callers') + Completing'
  BY DEF WorkAccounting, Delivered, Callers, Completing

(* Every part is a number.                                                  *)
LEMMA CountTypes ==
    ASSUME TypeOK, FiniteWork
    PROVE  /\ outstanding_work \in Int /\ Len(Pipeline) \in Int
           /\ Cardinality(leaked) \in Int /\ Cardinality(inflight) \in Int
           /\ Cardinality(Delivered) \in Int /\ guards \in Int
           /\ Cardinality(Callers) \in Int /\ Completing \in Int
<1>1. Len(Pipeline) \in Int
  BY PipelineType DEF TypeOK
<1>2. /\ Cardinality(leaked) \in Int /\ Cardinality(inflight) \in Int
      /\ Cardinality(Delivered) \in Int /\ Cardinality(Callers) \in Int
  BY FS_CardinalityType DEF FiniteWork
<1>3. guards \in Int /\ outstanding_work \in Int
  BY GrpcContextAssumption DEF TypeOK
<1>4. QED
  BY <1>1, <1>2, <1>3 DEF Completing

(* A call that begins or ends, or neither, as far as counting goes.         *)
LEMMA CallersGoto ==
    ASSUME TypeOK, FiniteWork, NEW t \in Threads, NEW step, Goto(t, step)
    PROVE  /\ IsFiniteSet(Callers')
           /\ (t \in Callers <=> step \in {"submit", "initiate", "finish"})
                 => Cardinality(Callers') = Cardinality(Callers)
           /\ t \notin Callers /\ step \in {"submit", "initiate", "finish"}
                 => Cardinality(Callers') = Cardinality(Callers) + 1
           /\ t \in Callers /\ step \notin {"submit", "initiate", "finish"}
                 => Cardinality(Callers') = Cardinality(Callers) - 1
<1>0. IsFiniteSet(Callers)
  BY DEF FiniteWork
<1>1. CASE step \in {"submit", "initiate", "finish"}
  <2>1. Callers' = Callers \cup {t}
    BY <1>1 DEF TypeOK, Callers, Goto
  <2>2. QED
    BY <1>0, <1>1, <2>1, FS_AddElement
<1>2. CASE step \notin {"submit", "initiate", "finish"}
  <2>1. Callers' = Callers \ {t}
    BY <1>2 DEF TypeOK, Callers, Goto
  <2>2. QED
    BY <1>0, <1>2, <2>1, FS_RemoveElement
<1>3. QED
  BY <1>1, <1>2

(* A step is right if what it adds to the parts of the sum is what it adds  *)
(* to the counter.                                                          *)
LEMMA CountedStep ==
    ASSUME TypeOK, CountInvariant, FiniteWork',
           NEW p \in Int, Len(Pipeline') = Len(Pipeline) + p,
           NEW l \in Int, Cardinality(leaked') = Cardinality(leaked) + l,
           NEW i \in Int, Cardinality(inflight') = Cardinality(inflight) + i,
           NEW e \in Int, Cardinality(Delivered') = Cardinality(Delivered) + e,
           NEW g \in Int, guards' = guards + g,
           NEW c \in Int, Cardinality(Callers') = Cardinality(Callers) + c,
           NEW d \in Int, Completing' = Completing + d,
           outstanding_work' = outstanding_work + (p + l + i + e + g + c + d)
    PROVE  CountInvariant'
<1>1. /\ outstanding_work \in Int /\ Len(Pipeline) \in Int
      /\ Cardinality(leaked) \in Int /\ Cardinality(inflight) \in Int
      /\ Cardinality(Delivered) \in Int /\ guards \in Int
      /\ Cardinality(Callers) \in Int /\ Completing \in Int
  BY CountTypes DEF CountInvariant
<1>2. outstanding_work = Len(Pipeline) + Cardinality(leaked)
          + Cardinality(inflight) + Cardinality(Delivered) + guards
          + Cardinality(Callers) + Completing
  BY AccountingSum DEF CountInvariant
<1> DEFINE w == outstanding_work
           P == Len(Pipeline)
           L == Cardinality(leaked)
           I == Cardinality(inflight)
           E == Cardinality(Delivered)
           G == guards
           C == Cardinality(Callers)
           D == Completing
<1>3. /\ w \in Int /\ P \in Int /\ L \in Int /\ I \in Int /\ E \in Int
      /\ G \in Int /\ C \in Int /\ D \in Int
      /\ w = P + L + I + E + G + C + D
  BY ONLY <1>1, <1>2
<1> HIDE DEF w, P, L, I, E, G, C, D
<1>4. w + (p + l + i + e + g + c + d) = (P + p) + (L + l) + (I + i) + (E + e)
          + (G + g) + (C + c) + (D + d)
  BY ONLY <1>3, p \in Int, l \in Int, i \in Int, e \in Int, g \in Int,
          c \in Int, d \in Int
<1>5. outstanding_work' = Len(Pipeline') + Cardinality(leaked')
          + Cardinality(inflight') + Cardinality(Delivered') + guards'
          + Cardinality(Callers') + Completing'
  BY <1>4, Zenon DEF w, P, L, I, E, G, C, D
<1>6. QED
  BY <1>5, AccountingSum DEF CountInvariant

(* The operations and tags that the context and gRPC hold stay the same.    *)
HoldingSame ==
    /\ Len(Pipeline') = Len(Pipeline) /\ leaked' = leaked
    /\ inflight' = inflight /\ Delivered' = Delivered

(* The same for a step that changes only the counter, the guards, the calls *)
(* and the position in the loop.                                            *)
LEMMA CountedCall ==
    ASSUME TypeOK, CountInvariant, HoldingSame, IsFiniteSet(Callers'),
           NEW g \in Int, guards' = guards + g,
           NEW c \in Int, Cardinality(Callers') = Cardinality(Callers) + c,
           NEW d \in Int, Completing' = Completing + d,
           outstanding_work' = outstanding_work + (g + c + d)
    PROVE  CountInvariant'
<1>1. FiniteWork'
  BY DEF CountInvariant, FiniteWork, HoldingSame
<1>2. /\ outstanding_work \in Int /\ Len(Pipeline) \in Int
      /\ Cardinality(leaked) \in Int /\ Cardinality(inflight) \in Int
      /\ Cardinality(Delivered) \in Int
  BY CountTypes DEF CountInvariant
<1>3. /\ Len(Pipeline') = Len(Pipeline) + 0
      /\ Cardinality(leaked') = Cardinality(leaked) + 0
      /\ Cardinality(inflight') = Cardinality(inflight) + 0
      /\ Cardinality(Delivered') = Cardinality(Delivered) + 0
  BY <1>2 DEF HoldingSame
<1>4. outstanding_work' = outstanding_work + (0 + 0 + 0 + 0 + g + c + d)
  <2>1. 0 + 0 + 0 + 0 + g + c + d = g + c + d
    OBVIOUS
  <2>2. QED
    BY <2>1
<1>5. QED
  BY <1>1, <1>3, <1>4, CountedStep

(* A step that changes nothing that is counted.                             *)
LEMMA CountedFrame ==
    ASSUME TypeOK, CountInvariant, HoldingSame, IsFiniteSet(Callers'),
           guards' = guards, Cardinality(Callers') = Cardinality(Callers),
           InCompletion' <=> InCompletion, outstanding_work' = outstanding_work
    PROVE  CountInvariant'
<1>1. /\ outstanding_work \in Int /\ guards \in Int
      /\ Cardinality(Callers) \in Int /\ Completing \in Int
  BY CountTypes DEF CountInvariant
<1>2. Completing' = Completing
  BY DEF Completing
<1>3. /\ guards' = guards + 0 /\ Completing' = Completing + 0
      /\ Cardinality(Callers') = Cardinality(Callers) + 0
      /\ outstanding_work' = outstanding_work + (0 + 0 + 0)
  BY <1>1, <1>2
<1>4. QED
  BY <1>3, CountedCall

(* No path through a call, the event loop or gRPC loses or repeats a unit   *)
(* of work.                                                                 *)
LEMMA CountStep ==
    ASSUME TypeOK, TypeOK', BatchTaken, OwnedInvariant, CountInvariant,
           [Next]_vars
    PROVE  CountInvariant'
<1> USE GrpcContextAssumption
<1>0. /\ call \in [Threads -> CallSteps] /\ QueueTypeOK /\ QueueTypeOK'
      /\ IsFiniteSet(Callers) /\ FiniteWork
  BY DEF TypeOK, CountInvariant, FiniteWork
<1>n. /\ outstanding_work \in Int /\ Len(Pipeline) \in Int
      /\ Cardinality(leaked) \in Int /\ Cardinality(inflight) \in Int
      /\ Cardinality(Delivered) \in Int /\ guards \in Int
      /\ Cardinality(Callers) \in Int /\ Completing \in Int
  BY CountTypes DEF CountInvariant
<1>q. /\ QueuedOnce /\ CarriedOnce
      /\ (Queued \cup inflight \cup cq) \cap (leaked \cup Carried) = {}
      /\ inflight \cap cq = {} /\ leaked \cap Carried = {}
  BY OwnedParts
<1>k. UNCHANGED queueVars => Len(Pipeline') = Len(Pipeline)
  BY DEF queueVars, Pipeline
<1>h. UNCHANGED <<queueVars, cqVars, leaked>> => HoldingSame
  BY <1>k DEF HoldingSame, cqVars, Delivered
<1>c. call' = call => /\ IsFiniteSet(Callers')
                      /\ Cardinality(Callers') = Cardinality(Callers)
  <2>1. call' = call => Callers' = Callers
    BY DEF Callers
  <2>2. QED
    BY <1>0, <2>1
<1>i. UNCHANGED loopVars => /\ InCompletion' <=> InCompletion
                            /\ Completing' = Completing + 0
  BY <1>n DEF loopVars, InCompletion, Completing
<1>z. 0 \in Int /\ 1 \in Int /\ -1 \in Int
  OBVIOUS
<1>1. CASE UNCHANGED vars
  BY <1>1, <1>h, <1>c, <1>i, CountedFrame DEF vars, cqVars, loopVars
<1>2. ASSUME NEW t \in Threads, NEW op \in Ops, Post(t, op)
      PROVE  CountInvariant'
  <2>1. t \notin Callers /\ Goto(t, "submit")
    BY <1>2 DEF Post, CanCall, Callers
  <2>2. /\ IsFiniteSet(Callers')
        /\ Cardinality(Callers') = Cardinality(Callers) + 1
    BY <1>0, <2>1, CallersGoto
  <2>3. HoldingSame /\ guards' = guards /\ Completing' = Completing + 0
        /\ outstanding_work' = outstanding_work + 1
    BY <1>2, <1>h, <1>i DEF Post, userVars
  <2>4. /\ guards' = guards + 0
        /\ outstanding_work' = outstanding_work + (0 + 1 + 0)
    BY <1>n, <2>3
  <2>5. QED
    BY <2>2, <2>3, <2>4, CountedCall
<1>3. ASSUME NEW t \in Threads, NEW tag \in Tags, Initiate(t, tag)
      PROVE  CountInvariant'
  <2>1. t \notin Callers /\ Goto(t, "initiate")
    BY <1>3 DEF Initiate, CanCall, Callers
  <2>2. /\ IsFiniteSet(Callers')
        /\ Cardinality(Callers') = Cardinality(Callers) + 1
    BY <1>0, <2>1, CallersGoto
  <2>3. HoldingSame /\ guards' = guards /\ Completing' = Completing + 0
        /\ outstanding_work' = outstanding_work + 1
    BY <1>3, <1>h, <1>i DEF Initiate, userVars
  <2>4. /\ guards' = guards + 0
        /\ outstanding_work' = outstanding_work + (0 + 1 + 0)
    BY <1>n, <2>3
  <2>5. QED
    BY <2>2, <2>3, <2>4, CountedCall
<1>4. ASSUME NEW t \in Threads, Reset(t) PROVE CountInvariant'
  BY <1>4, <1>h, <1>c, <1>i, CountedFrame DEF Reset, userVars
<1>5. ASSUME NEW t \in Threads, WorkStarted(t) PROVE CountInvariant'
  <2>1. HoldingSame /\ Completing' = Completing + 0 /\ IsFiniteSet(Callers')
        /\ Cardinality(Callers') = Cardinality(Callers) /\ guards' = guards + 1
        /\ outstanding_work' = outstanding_work + 1
    BY <1>5, <1>h, <1>c, <1>i DEF WorkStarted
  <2>2. /\ Cardinality(Callers') = Cardinality(Callers) + 0
        /\ outstanding_work' = outstanding_work + (1 + 0 + 0)
    BY <1>n, <2>1
  <2>3. QED
    BY <2>1, <2>2, CountedCall
<1>6. ASSUME NEW t \in Threads, ReleaseGuard(t) PROVE CountInvariant'
  <2>1. t \notin Callers /\ Goto(t, "finish")
    BY <1>6 DEF ReleaseGuard, CanCall, Callers
  <2>2. /\ IsFiniteSet(Callers')
        /\ Cardinality(Callers') = Cardinality(Callers) + 1
    BY <1>0, <2>1, CallersGoto
  <2>3. HoldingSame /\ guards' = guards - 1 /\ Completing' = Completing + 0
        /\ outstanding_work' = outstanding_work
    BY <1>6, <1>h, <1>i DEF ReleaseGuard
  <2>4. /\ guards' = guards + (-1) /\ -1 \in Int
        /\ outstanding_work' = outstanding_work + ((-1) + 1 + 0)
    BY <1>n, <2>3
  <2>5. QED
    BY <2>2, <2>3, <2>4, CountedCall
<1>7. ASSUME NEW t \in Threads, WorkFinished(t) PROVE CountInvariant'
  <2>1. PICK step \in {"stop", "user"} : Goto(t, step)
    BY <1>7 DEF WorkFinished
  <2>2. t \in Callers
    BY <1>7 DEF WorkFinished, Callers
  <2>3. /\ IsFiniteSet(Callers')
        /\ Cardinality(Callers') = Cardinality(Callers) - 1
    BY <1>0, <2>1, <2>2, CallersGoto
  <2>4. HoldingSame /\ guards' = guards /\ Completing' = Completing + 0
        /\ outstanding_work' = outstanding_work - 1
    BY <1>7, <1>h, <1>i DEF WorkFinished, userVars
  <2>5. /\ guards' = guards + 0 /\ -1 \in Int
        /\ Cardinality(Callers') = Cardinality(Callers) + (-1)
        /\ outstanding_work' = outstanding_work + (0 + (-1) + 0)
    BY <1>n, <2>3, <2>4
  <2>6. QED
    BY <2>3, <2>4, <2>5, CountedCall
<1>8. ASSUME NEW t \in Threads,
             Stop(t) \/ TriggerWorkAlarm(t) \/ ExchangeStopped(t)
             \/ TryMarkActive(t)
      PROVE  CountInvariant'
  <2>1. PICK step \in {"stop", "user", "alarm", "mark_active"} : Goto(t, step)
    BY <1>8 DEF Stop, TriggerWorkAlarm, ExchangeStopped, TryMarkActive
  <2>2. t \notin Callers
    BY <1>8 DEF Stop, TriggerWorkAlarm, ExchangeStopped, TryMarkActive,
                CanCall, Callers
  <2>3. /\ IsFiniteSet(Callers')
        /\ Cardinality(Callers') = Cardinality(Callers)
    BY <1>0, <2>1, <2>2, CallersGoto
  <2>4. /\ UNCHANGED queueVars \/ MarkActive
        /\ UNCHANGED <<cq, inflight, leaked, guards, outstanding_work>>
        /\ UNCHANGED loopVars
    BY <1>8 DEF Stop, TriggerWorkAlarm, ExchangeStopped, TryMarkActive,
                cqVars, userVars
  <2>5. HoldingSame
    BY <1>k, <2>4 DEF HoldingSame, MarkActive, Pipeline, Delivered
  <2>6. QED
    BY <1>i, <2>3, <2>4, <2>5, CountedFrame
<1>9. ASSUME NEW t \in Threads, AllocationFails(t) PROVE CountInvariant'
  <2>1. t \in Callers /\ Goto(t, "finish")
    BY <1>9 DEF AllocationFails, Callers
  <2>2. /\ IsFiniteSet(Callers')
        /\ Cardinality(Callers') = Cardinality(Callers)
    BY <1>0, <2>1, CallersGoto
  <2>3. QED
    BY <1>9, <1>h, <1>i, <2>2, CountedFrame DEF AllocationFails, userVars
<1>10. CASE \/ Run \/ Poll \/ LoadOutstandingWork \/ MarkStopped
            \/ EnterLoop \/ LocalQueueProcessed \/ Unwind \/ StopCondition
            \/ NoEvent \/ QueueShutdown \/ Shutdown
  <2>1. /\ UNCHANGED <<queueVars, cqVars, leaked, guards, outstanding_work>>
        /\ call' = call
    BY <1>10 DEF Run, Poll, LoadOutstandingWork, MarkStopped, EnterLoop,
         LocalQueueProcessed, Unwind, StopCondition, NoEvent, QueueShutdown,
         Shutdown, OnlyLoop, userVars
  <2>2. InCompletion' <=> InCompletion
    BY <1>10 DEF Run, Poll, LoadOutstandingWork, MarkStopped, EnterLoop,
         LocalQueueProcessed, Unwind, StopCondition, NoEvent, QueueShutdown,
         Shutdown, LoopFrom, InCompletion
  <2>3. QED
    BY <1>h, <1>c, <2>1, <2>2, CountedFrame
<1>11. CASE Destroy
  <2>1. Goto(Main, "stop") /\ Main \notin Callers /\ Main \in Threads
    BY <1>11 DEF Destroy, LoopFrom, Callers
  <2>2. /\ IsFiniteSet(Callers')
        /\ Cardinality(Callers') = Cardinality(Callers)
    BY <1>0, <2>1, CallersGoto
  <2>3. InCompletion' <=> InCompletion
    BY <1>11 DEF Destroy, LoopFrom, InCompletion
  <2>4. QED
    BY <1>11, <1>h, <2>2, <2>3, CountedFrame DEF Destroy, userVars
<1>12. CASE MoveRemoteWork \/ TakeLocalQueue
  <2>1. Pipeline' = Pipeline
    <3>1. \/ UNCHANGED queueVars \/ MarkInactive \/ DequeueAll
          \/ queue = <<>> /\ TakeLocal
      BY <1>12 DEF MoveRemoteWork, MoveRemoteWorkToLocalQueue, TakeLocalQueue,
                   BatchTaken, LoopFrom
    <3>2. UNCHANGED queueVars \/ MarkInactive => Pipeline' = Pipeline
      BY DEF MarkInactive, queueVars, Pipeline
    <3>3. QED
      BY <1>0, <3>1, <3>2, MovingKeepsPipeline
  <2>2. /\ UNCHANGED <<cqVars, leaked, guards, outstanding_work>>
        /\ call' = call
    BY <1>12 DEF MoveRemoteWork, TakeLocalQueue, userVars
  <2>3. InCompletion' <=> InCompletion
    BY <1>12 DEF MoveRemoteWork, TakeLocalQueue, LoopFrom, InCompletion
  <2>4. HoldingSame
    BY <2>1, <2>2 DEF HoldingSame, cqVars, Delivered
  <2>5. QED
    BY <1>c, <2>2, <2>3, <2>4, CountedFrame
<1>13. CASE CompletionReturns
  <2>1. Goto(Main, "finish") /\ Main \notin Callers /\ Main \in Threads
    BY <1>13 DEF CompletionReturns, LoopFrom, Callers
  <2>2. /\ IsFiniteSet(Callers')
        /\ Cardinality(Callers') = Cardinality(Callers) + 1
    BY <1>0, <2>1, CallersGoto
  <2>3. InCompletion /\ ~InCompletion'
    BY <1>13 DEF CompletionReturns, InCompletion
  <2>4. -1 \in Int /\ Completing' = Completing + (-1)
    BY <2>3 DEF Completing
  <2>5. HoldingSame /\ guards' = guards /\ outstanding_work' = outstanding_work
    BY <1>13, <1>h DEF CompletionReturns, userVars
  <2>6. /\ guards' = guards + 0
        /\ outstanding_work' = outstanding_work + (0 + 1 + (-1))
    BY <1>n, <2>5
  <2>7. QED
    BY <2>2, <2>4, <2>5, <2>6, CountedCall
<1>14. CASE AlarmFires
  <2>1. Delivered' = Delivered
    BY <1>14 DEF AlarmFires, Delivered
  <2>2. HoldingSame
    BY <1>14, <1>k, <2>1 DEF AlarmFires, HoldingSame, userVars
  <2>3. QED
    BY <1>14, <1>c, <1>i, <2>2, CountedFrame DEF AlarmFires, userVars
<1>15. ASSUME NEW t \in Threads, AddLocalOperation(t) \/ AddRemoteOperation(t)
       PROVE  CountInvariant'
  <2>1. PICK step \in {"user", "alarm"} : Goto(t, step)
    BY <1>15 DEF AddLocalOperation, AddRemoteOperation
  <2>2. t \in Callers /\ arg[t] \in Ops /\ arg[t] \in Carried
    BY <1>15 DEF AddLocalOperation, AddRemoteOperation, Callers, Carried,
                 TypeOK
  <2>3. /\ IsFiniteSet(Callers')
        /\ Cardinality(Callers') = Cardinality(Callers) - 1
    BY <1>0, <2>1, <2>2, CallersGoto
  <2>4. Inserts(arg[t])
    BY <1>0, <1>15, <2>2, PushBackInserts, EnqueueInserts
       DEF AddLocalOperation, AddRemoteOperation
  <2>5. Len(Pipeline') = Len(Pipeline) + 1
    BY <1>q, <2>2, <2>4, InsertsEffect
  <2>6. /\ UNCHANGED <<cqVars, leaked, guards, outstanding_work>>
        /\ UNCHANGED loopVars
    BY <1>15 DEF AddLocalOperation, AddRemoteOperation, userVars
  <2>7. FiniteWork'
    BY <1>0, <2>3, <2>6 DEF FiniteWork, cqVars, Delivered
  <2>8. /\ Cardinality(leaked') = Cardinality(leaked) + 0
        /\ Cardinality(inflight') = Cardinality(inflight) + 0
        /\ Cardinality(Delivered') = Cardinality(Delivered) + 0
        /\ guards' = guards + 0
        /\ Cardinality(Callers') = Cardinality(Callers) + (-1)
        /\ Completing' = Completing + 0
        /\ outstanding_work' = outstanding_work + (1 + 0 + 0 + 0 + 0 + (-1) + 0)
    BY <1>n, <1>i, <2>3, <2>6 DEF cqVars, Delivered
  <2>9. QED
    BY <1>z, <2>5, <2>7, <2>8, CountedStep, Zenon
<1>16. ASSUME NEW t \in Threads, StartTag(t) PROVE CountInvariant'
  <2>1. /\ t \in Callers /\ Goto(t, "user") /\ arg[t] \in Carried
        /\ inflight' = inflight \cup {arg[t]}
    BY <1>16 DEF StartTag, Callers, Carried
  <2>2. /\ IsFiniteSet(Callers')
        /\ Cardinality(Callers') = Cardinality(Callers) - 1
    BY <1>0, <2>1, CallersGoto
  <2>3. /\ IsFiniteSet(inflight')
        /\ Cardinality(inflight') = Cardinality(inflight) + 1
    <3>1. arg[t] \notin inflight /\ IsFiniteSet(inflight)
      BY <1>0, <1>q, <2>1 DEF FiniteWork
    <3>2. QED
      BY <2>1, <3>1, FS_AddElement
  <2>4. /\ UNCHANGED <<cq, leaked, guards, outstanding_work>>
        /\ UNCHANGED loopVars /\ UNCHANGED queueVars
    BY <1>16 DEF StartTag, userVars
  <2>5. FiniteWork'
    BY <1>0, <2>2, <2>3, <2>4 DEF FiniteWork, Delivered
  <2>6. /\ Len(Pipeline') = Len(Pipeline) + 0
        /\ Cardinality(leaked') = Cardinality(leaked) + 0
        /\ Cardinality(Delivered') = Cardinality(Delivered) + 0
        /\ guards' = guards + 0
        /\ Cardinality(Callers') = Cardinality(Callers) + (-1)
        /\ Completing' = Completing + 0
        /\ outstanding_work' = outstanding_work + (0 + 0 + 1 + 0 + 0 + (-1) + 0)
    BY <1>n, <1>i, <1>k, <2>2, <2>4 DEF Delivered
  <2>7. QED
    BY <1>z, <2>3, <2>5, <2>6, CountedStep, Zenon
<1>17. CASE CompleteOperation
  <2>1. Removes(<<Head(queue)>>)
    BY <1>0, <1>17, TakingRemoves DEF CompleteOperation
  <2>2. Len(Pipeline) = Len(<<Head(queue)>>) + Len(Pipeline')
    BY <1>0, <1>q, <2>1, RemovesEffect
  <2>3. Len(<<Head(queue)>>) = 1 /\ Len(Pipeline') \in Int
    BY <1>0, ConcatProperties DEF QueueTypeOK, Pipeline
  <2>4. ~InCompletion /\ InCompletion'
    BY <1>17 DEF CompleteOperation, LoopFrom, InCompletion
  <2>5. /\ UNCHANGED <<cqVars, leaked, guards, outstanding_work>>
        /\ call' = call
    BY <1>17 DEF CompleteOperation, userVars
  <2>6. FiniteWork'
    BY <1>0, <1>c, <2>5 DEF FiniteWork, cqVars, Delivered
  <2>7. Completing' = Completing + 1
    BY <2>4 DEF Completing
  <2>8. Len(Pipeline') = Len(Pipeline) + (-1)
    BY <1>n, <2>2, <2>3
  <2>9. /\ Cardinality(leaked') = Cardinality(leaked) + 0
        /\ Cardinality(inflight') = Cardinality(inflight) + 0
        /\ Cardinality(Delivered') = Cardinality(Delivered) + 0
        /\ guards' = guards + 0
        /\ Cardinality(Callers') = Cardinality(Callers) + 0
        /\ outstanding_work' = outstanding_work + ((-1) + 0 + 0 + 0 + 0 + 0 + 1)
    BY <1>n, <1>c, <2>5 DEF cqVars, Delivered
  <2>10. QED
    BY <1>z, <2>6, <2>7, <2>8, <2>9, CountedStep, Zenon
<1>18. CASE HandlerThrows
  <2>1. Removes(queue) /\ queue \in Seq(Ops) /\ Len(queue) \in Nat
    BY <1>0, <1>18, TakingRemoves DEF HandlerThrows, QueueTypeOK
  <2>2. /\ Len(Pipeline) = Len(queue) + Len(Pipeline')
        /\ Queued = ToSet(queue) \cup Queued'
        /\ IsFiniteSet(ToSet(queue)) /\ Cardinality(ToSet(queue)) = Len(queue)
    BY <1>0, <1>q, <2>1, RemovesEffect
  <2>3. Len(Pipeline') \in Int
    BY <1>0, ConcatProperties DEF QueueTypeOK, Pipeline
  <2>4. /\ Goto(Main, "finish") /\ Main \notin Callers /\ Main \in Threads
        /\ leaked' = leaked \cup ToSet(queue)
        /\ InCompletion /\ ~InCompletion'
        /\ UNCHANGED <<cqVars, guards, outstanding_work>>
    BY <1>18 DEF HandlerThrows, LoopFrom, Callers, InCompletion
  <2>5. /\ IsFiniteSet(Callers')
        /\ Cardinality(Callers') = Cardinality(Callers) + 1
    BY <1>0, <2>4, CallersGoto
  <2>6. /\ IsFiniteSet(leaked')
        /\ Cardinality(leaked') = Cardinality(leaked) + Len(queue)
    <3>1. leaked \cap ToSet(queue) = {} /\ IsFiniteSet(leaked)
      BY <1>0, <1>q, <2>2 DEF FiniteWork
    <3>2. /\ IsFiniteSet(leaked \cup ToSet(queue))
          /\ Cardinality(leaked \cup ToSet(queue)) = Cardinality(leaked)
                + Cardinality(ToSet(queue)) - Cardinality(leaked \cap ToSet(queue))
      BY <2>2, <3>1, FS_Union
    <3>3. Cardinality(leaked \cap ToSet(queue)) = 0
      BY <3>1, FS_EmptySet
    <3>4. QED
      BY <1>n, <2>1, <2>2, <2>4, <3>2, <3>3
  <2>7. FiniteWork'
    BY <1>0, <2>4, <2>5, <2>6 DEF FiniteWork, cqVars, Delivered
  <2>8. Completing' = Completing + (-1)
    BY <2>4 DEF Completing
  <2>9. PICK n \in Int : n = 0 - Len(queue)
    BY <2>1
  <2>10. Len(Pipeline') = Len(Pipeline) + n
    BY <1>n, <2>1, <2>2, <2>3, <2>9
  <2>11. /\ Cardinality(inflight') = Cardinality(inflight) + 0
         /\ Cardinality(Delivered') = Cardinality(Delivered) + 0
         /\ guards' = guards + 0
    BY <1>n, <2>4 DEF cqVars, Delivered
  <2>12. outstanding_work' =
             outstanding_work + (n + Len(queue) + 0 + 0 + 0 + 1 + (-1))
    BY <1>n, <2>1, <2>4, <2>9
  <2>13. QED
    BY <2>1, <2>5, <2>6, <2>7, <2>8, <2>10, <2>11, <2>12, CountedStep
<1>19. ASSUME NEW tag \in Tags \cup {HAS_REMOTE_WORK_TAG}, GotEvent(tag)
       PROVE  CountInvariant'
  <2>1. /\ UNCHANGED <<inflight, leaked, guards, outstanding_work>>
        /\ call' = call /\ cq' = cq \ {tag} /\ tag \in cq
        /\ UNCHANGED queueVars
    BY <1>19 DEF GotEvent, userVars
  <2>2. CASE tag = HAS_REMOTE_WORK_TAG
    <3>1. Delivered' = Delivered
      BY <2>1, <2>2 DEF Delivered
    <3>2. HoldingSame
      BY <1>k, <2>1, <3>1 DEF HoldingSame
    <3>3. InCompletion' <=> InCompletion
      BY <1>19, <2>2 DEF GotEvent, LoopFrom, InCompletion
    <3>4. QED
      BY <1>c, <2>1, <3>2, <3>3, CountedFrame
  <2>3. CASE tag \in Tags
    <3>1. Delivered' = Delivered \ {tag} /\ tag \in Delivered
      BY <2>1, <2>3 DEF Delivered
    <3>2. /\ IsFiniteSet(Delivered')
          /\ Cardinality(Delivered') = Cardinality(Delivered) - 1
      BY <1>0, <3>1, FS_RemoveElement DEF FiniteWork
    <3>3. ~InCompletion /\ InCompletion'
      BY <1>19, <2>3 DEF GotEvent, LoopFrom, InCompletion
    <3>4. Completing' = Completing + 1
      BY <3>3 DEF Completing
    <3>5. FiniteWork'
      BY <1>0, <1>c, <2>1, <3>2 DEF FiniteWork
    <3>6. /\ Len(Pipeline') = Len(Pipeline) + 0
          /\ Cardinality(leaked') = Cardinality(leaked) + 0
          /\ Cardinality(inflight') = Cardinality(inflight) + 0
          /\ Cardinality(Delivered') = Cardinality(Delivered) + (-1)
          /\ guards' = guards + 0
          /\ Cardinality(Callers') = Cardinality(Callers) + 0
          /\ outstanding_work' =
                outstanding_work + (0 + 0 + 0 + (-1) + 0 + 0 + 1)
      BY <1>n, <1>k, <1>c, <2>1, <3>2
    <3>7. QED
      BY <1>z, <3>4, <3>5, <3>6, CountedStep, Zenon
  <2>4. QED
    BY <2>2, <2>3
<1>20. ASSUME NEW tag \in Tags, TagCompletes(tag) PROVE CountInvariant'
  <2>1. /\ UNCHANGED <<leaked, guards, outstanding_work>>
        /\ call' = call /\ cq' = cq \cup {tag} /\ tag \in inflight
        /\ inflight' = inflight \ {tag}
        /\ UNCHANGED queueVars /\ UNCHANGED loopVars
    BY <1>20 DEF TagCompletes, userVars
  <2>2. Delivered' = Delivered \cup {tag} /\ tag \notin Delivered
    BY <1>q, <2>1 DEF Delivered
  <2>3. /\ IsFiniteSet(Delivered')
        /\ Cardinality(Delivered') = Cardinality(Delivered) + 1
    BY <1>0, <2>2, FS_AddElement DEF FiniteWork
  <2>4. /\ IsFiniteSet(inflight')
        /\ Cardinality(inflight') = Cardinality(inflight) - 1
    BY <1>0, <2>1, FS_RemoveElement DEF FiniteWork
  <2>5. FiniteWork'
    BY <1>0, <1>c, <2>1, <2>3, <2>4 DEF FiniteWork
  <2>6. /\ Len(Pipeline') = Len(Pipeline) + 0
        /\ Cardinality(leaked') = Cardinality(leaked) + 0
        /\ Cardinality(inflight') = Cardinality(inflight) + (-1)
        /\ guards' = guards + 0
        /\ Cardinality(Callers') = Cardinality(Callers) + 0
        /\ Completing' = Completing + 0
        /\ outstanding_work' = outstanding_work + (0 + 0 + (-1) + 1 + 0 + 0 + 0)
    BY <1>n, <1>k, <1>c, <1>i, <2>1, <2>4
  <2>7. QED
    BY <1>z, <2>3, <2>5, <2>6, CountedStep, Zenon
<1>21. QED
  BY <1>1, <1>2, <1>3, <1>4, <1>5, <1>6, <1>7, <1>8, <1>9, <1>10, <1>11,
     <1>12, <1>13, <1>14, <1>15, <1>16, <1>17, <1>18, <1>19, <1>20, NextCases

(* outstanding_work is right in every reachable state ...                   *)
THEOREM CountInvariantAlways == Spec => []CountInvariant
<1>1. Init => CountInvariant
  <2> SUFFICES ASSUME Init PROVE CountInvariant
    OBVIOUS
  <2>1. /\ queue = <<>> /\ local_work_queue = <<>>
        /\ remote_work_queue = <<>> /\ inflight = {} /\ cq = {}
        /\ leaked = {} /\ \A t \in Threads : call[t] = "user"
        /\ loop = "idle" /\ guards = 0 /\ outstanding_work = 0
    BY DEF Init, QueueInit
  <2>2. Len(Pipeline) = 0
    BY <2>1 DEF Pipeline
  <2>3. Delivered = {} /\ Callers = {} /\ Completing = 0
    BY <2>1 DEF Delivered, Callers, Completing, InCompletion
  <2>4. IsFiniteSet({}) /\ Cardinality({}) = 0
    BY FS_EmptySet
  <2>5. FiniteWork
    BY <2>1, <2>3, <2>4 DEF FiniteWork
  <2>6. WorkAccounting
    BY <2>1, <2>2, <2>3, <2>4, AccountingSum
  <2>7. QED
    BY <2>5, <2>6 DEF CountInvariant
<1>2. TypeOK /\ TypeOK' /\ (BatchTaken /\ OwnedInvariant)
          /\ CountInvariant /\ [Next]_vars => CountInvariant'
  BY CountStep
<1>3. QED
  BY <1>1, <1>2, TypeCorrect, OwnedInvariantAlways, PTL DEF Spec

(* ... so run() leaves its loop, and not before, when the last unit of work *)
(* is finished: no path through an allocation that throws, a completion, an *)
(* exception or the destructor loses or repeats a work_finished().          *)
THEOREM WorkAccountingAlways == Spec => []WorkAccounting
<1>1. CountInvariant => WorkAccounting
  BY DEF CountInvariant
<1>2. QED
  BY <1>1, CountInvariantAlways, PTL
-----------------------------------------------------------------------------
(* The end of the destructor                                                *)

(* A remote operation keeps the queue active.                               *)
LEMMA InactiveStep ==
    ASSUME TypeOK, InactiveIsEmpty, [Next]_vars
    PROVE  InactiveIsEmpty'
<1> USE DEF InactiveIsEmpty
<1>u. UNCHANGED <<active, remote_work_queue>> => InactiveIsEmpty'
  OBVIOUS
<1>v. UNCHANGED queueVars => InactiveIsEmpty'
  BY DEF queueVars
<1>1. CASE UNCHANGED vars
  BY <1>1, <1>v DEF vars
<1>2. ASSUME NEW t \in Threads, NEW op \in Ops, Post(t, op)
      PROVE  InactiveIsEmpty'
  BY <1>2, <1>v DEF Post
<1>3. ASSUME NEW t \in Threads, NEW tag \in Tags, Initiate(t, tag)
      PROVE  InactiveIsEmpty'
  BY <1>3, <1>v DEF Initiate
<1>4. ASSUME NEW t \in Threads,
             \/ Stop(t) \/ Reset(t) \/ WorkStarted(t) \/ ReleaseGuard(t)
             \/ AllocationFails(t) \/ StartTag(t) \/ TriggerWorkAlarm(t)
             \/ ExchangeStopped(t) \/ WorkFinished(t)
      PROVE  InactiveIsEmpty'
  BY <1>4, <1>v
     DEF Stop, Reset, WorkStarted, ReleaseGuard, AllocationFails,
         StartTag, TriggerWorkAlarm, ExchangeStopped, WorkFinished
<1>5. ASSUME NEW t \in Threads, \/ AddLocalOperation(t)
                                \/ AddRemoteOperation(t) \/ TryMarkActive(t)
      PROVE  InactiveIsEmpty'
  BY <1>5, <1>u, <1>v
     DEF AddLocalOperation, AddRemoteOperation, TryMarkActive, PushBack,
         Enqueue, MarkActive
<1>6. CASE \/ Run \/ Poll \/ Destroy \/ LoadOutstandingWork \/ MarkStopped
           \/ EnterLoop \/ LocalQueueProcessed \/ Unwind \/ StopCondition
           \/ NoEvent \/ QueueShutdown \/ Shutdown \/ CompletionReturns
  BY <1>6, <1>v
     DEF Run, Poll, Destroy, LoadOutstandingWork, MarkStopped, EnterLoop,
         LocalQueueProcessed, Unwind, StopCondition, NoEvent, QueueShutdown,
         Shutdown, CompletionReturns, OnlyLoop
<1>7. CASE MoveRemoteWork
  BY <1>7, <1>v DEF MoveRemoteWork, MoveRemoteWorkToLocalQueue, MarkInactive,
                    DequeueAll
<1>8. CASE TakeLocalQueue \/ CompleteOperation \/ HandlerThrows
  BY <1>8, <1>u DEF TakeLocalQueue, TakeLocal, CompleteOperation, PopFront,
                    HandlerThrows, DropQueue
<1>9. ASSUME NEW tag \in Tags \cup {HAS_REMOTE_WORK_TAG}, GotEvent(tag)
      PROVE  InactiveIsEmpty'
  BY <1>9, <1>v DEF GotEvent
<1>10. ASSUME NEW tag \in Tags, TagCompletes(tag) PROVE InactiveIsEmpty'
  BY <1>10, <1>v DEF TagCompletes
<1>11. CASE AlarmFires
  BY <1>11, <1>v DEF AlarmFires
<1>12. QED
  BY <1>1, <1>2, <1>3, <1>4, <1>5, <1>6, <1>7, <1>8, <1>9, <1>10, <1>11,
     NextCases

(* Nothing is left, and nobody is left to change that, once the destructor  *)
(* has returned.                                                            *)
Quiescent ==
    loop = "destroyed" =>
        /\ mode = "drain" /\ \A t \in Threads : call[t] = "user"
        /\ work_alarm = "unset" /\ inflight = {} /\ cq = {}
        /\ Pipeline = <<>>

(* AsyncNext returns SHUTDOWN only when the queues are empty as well: an    *)
(* operation in the remote queue would keep it active, and an active queue  *)
(* has a wakeup under way, which would be an event, an alarm that is set, a *)
(* call that has not returned or check_remote_work.                         *)
LEMMA ShutdownIsQuiescent ==
    ASSUME TypeOK, WakeupToken, DrainInvariant, BatchTaken, InactiveIsEmpty,
           QueueShutdown
    PROVE  Quiescent'
<1>1. /\ loop = "next" /\ call[Main] = "user" /\ shutdown /\ cq = {}
      /\ inflight = {} /\ work_alarm = "unset" /\ ~check_remote_work
      /\ local_work_queue = <<>> /\ mode' = mode
      /\ UNCHANGED <<queueVars, cqVars, call>>
  BY DEF QueueShutdown, LoopFrom, IsMoreCompletedWorkPending, OnlyLoop
<1>2. mode = "drain" /\ \A t \in Threads : call[t] = "user"
  BY <1>1 DEF DrainInvariant
<1>3. AlarmCallers = {}
  BY <1>2 DEF AlarmCallers
<1>4. ~active
  BY <1>1, <1>3 DEF WakeupToken
<1>5. remote_work_queue = <<>> /\ queue = <<>>
  BY <1>1, <1>4 DEF InactiveIsEmpty, BatchTaken
<1>6. Pipeline = <<>>
  BY <1>1, <1>5 DEF Pipeline
<1>7. Pipeline' = Pipeline
  BY <1>1 DEF queueVars, Pipeline
<1>8. QED
  BY <1>1, <1>2, <1>6, <1>7 DEF Quiescent, cqVars

(* A destroyed context stays as it is.                                      *)
LEMMA QuiescentStep ==
    ASSUME TypeOK, WakeupToken, DrainInvariant, BatchTaken, InactiveIsEmpty,
           Quiescent, [Next]_vars
    PROVE  Quiescent'
<1> USE GrpcContextAssumption DEF Quiescent
<1>k. UNCHANGED queueVars => Pipeline' = Pipeline
  BY DEF queueVars, Pipeline
<1>1. CASE UNCHANGED vars
  BY <1>1, <1>k DEF vars
<1>2. ASSUME NEW t \in Threads, NEW op \in Ops, Post(t, op) PROVE Quiescent'
  BY <1>2 DEF Post, CanCall, loopVars
<1>3. ASSUME NEW t \in Threads, NEW tag \in Tags, Initiate(t, tag)
      PROVE  Quiescent'
  BY <1>3 DEF Initiate, CanCall, loopVars
<1>4. ASSUME NEW t \in Threads,
             Stop(t) \/ Reset(t) \/ WorkStarted(t) \/ ReleaseGuard(t)
      PROVE  Quiescent'
  BY <1>4 DEF Stop, Reset, WorkStarted, ReleaseGuard, CanCall, InCompletion,
              loopVars
<1>5. ASSUME NEW t \in Threads,
             \/ AllocationFails(t) \/ AddLocalOperation(t)
             \/ AddRemoteOperation(t) \/ StartTag(t) \/ TriggerWorkAlarm(t)
             \/ ExchangeStopped(t) \/ TryMarkActive(t) \/ WorkFinished(t)
      PROVE  Quiescent'
  BY <1>5 DEF AllocationFails, AddLocalOperation, AddRemoteOperation, StartTag,
              TriggerWorkAlarm, ExchangeStopped, TryMarkActive, WorkFinished,
              loopVars
<1>6. CASE \/ Run \/ Poll \/ Destroy \/ LoadOutstandingWork \/ MarkStopped
           \/ EnterLoop \/ LocalQueueProcessed \/ Unwind \/ StopCondition
           \/ NoEvent \/ Shutdown \/ CompletionReturns
  BY <1>6 DEF Run, Poll, Destroy, LoadOutstandingWork, MarkStopped, EnterLoop,
              LocalQueueProcessed, Unwind, StopCondition, NoEvent, Shutdown,
              CompletionReturns
<1>7. CASE QueueShutdown
  BY <1>7, ShutdownIsQuiescent
<1>8. CASE MoveRemoteWork \/ TakeLocalQueue \/ CompleteOperation
           \/ HandlerThrows
  BY <1>8 DEF MoveRemoteWork, TakeLocalQueue, CompleteOperation, HandlerThrows
<1>9. ASSUME NEW tag \in Tags \cup {HAS_REMOTE_WORK_TAG}, GotEvent(tag)
      PROVE  Quiescent'
  BY <1>9 DEF GotEvent
<1>10. ASSUME NEW tag \in Tags, TagCompletes(tag) PROVE Quiescent'
  BY <1>10 DEF TagCompletes, loopVars
<1>11. CASE AlarmFires
  BY <1>11 DEF AlarmFires, loopVars
<1>12. QED
  BY <1>1, <1>2, <1>3, <1>4, <1>5, <1>6, <1>7, <1>8, <1>9, <1>10, <1>11,
     NextCases

(* The destructor frees everything, whatever the context held, whichever    *)
(* threads had posted and whether or not handlers have thrown before: only  *)
(* work counted by hand and leaked operations are left in the counter.      *)
THEOREM DrainedAtDestructionAlways == Spec => []DrainedAtDestruction
<1> DEFINE Inv == DrainInvariant /\ InactiveIsEmpty /\ Quiescent
<1>1. Init => Inv
  <2> SUFFICES ASSUME Init PROVE Inv
    OBVIOUS
  <2>1. ~shutdown
    BY Zenon DEF Init
  <2>2. loop = "idle" /\ mode = "run" /\ remote_work_queue = <<>>
    BY DEF Init, QueueInit
  <2>3. QED
    BY <2>1, <2>2 DEF DrainInvariant, InactiveIsEmpty, Quiescent
<1>2. TypeOK /\ WakeupToken /\ (BatchTaken /\ OwnedInvariant) /\ Inv
          /\ [Next]_vars => Inv'
  BY DrainStep, InactiveStep, QuiescentStep
<1>3. TypeOK /\ CountInvariant /\ Inv => DrainedAtDestruction
  <2> SUFFICES ASSUME TypeOK, CountInvariant, Quiescent, loop = "destroyed"
               PROVE  /\ Pipeline = <<>> /\ cq = {} /\ inflight = {}
                      /\ outstanding_work = guards + Cardinality(leaked)
    BY DEF DrainedAtDestruction
  <2>1. /\ Pipeline = <<>> /\ cq = {} /\ inflight = {}
        /\ \A t \in Threads : call[t] = "user"
    BY DEF Quiescent
  <2>2. Delivered = {} /\ Callers = {} /\ Completing = 0 /\ Len(Pipeline) = 0
    BY <2>1 DEF Delivered, Callers, Completing, InCompletion
  <2>3. Cardinality({}) = 0
    BY FS_EmptySet
  <2>4. outstanding_work = 0 + Cardinality(leaked) + 0 + 0 + guards + 0 + 0
    BY <2>1, <2>2, <2>3, AccountingSum DEF CountInvariant
  <2>5. Cardinality(leaked) \in Int /\ guards \in Int
    BY CountTypes DEF CountInvariant
  <2>6. QED
    BY <2>1, <2>4, <2>5
<1>4. QED
  BY <1>1, <1>2, <1>3, TypeCorrect, WakeupTokenAlways, OwnedInvariantAlways,
     CountInvariantAlways, PTL DEF Spec
=============================================================================
