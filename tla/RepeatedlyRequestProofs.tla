----------------------- MODULE RepeatedlyRequestProofs -----------------------
(***************************************************************************)
(* Theorems about RepeatedlyRequest, for any set of RPCContexts and any     *)
(* number of request handlers: an operation is continued by exactly one     *)
(* actor, memory has one owner and outlives its users, the work of both     *)
(* contexts is accounted for.                                               *)
(***************************************************************************)
EXTENDS RepeatedlyRequest, SequenceLemmas

(* What belongs to one variant only.                                        *)
Variants ==
    /\ kind = "handler" => handlers = 0 /\ buffer = "none"
    /\ kind = "handler" /\ request # "none" => rpc_context \in Contexts
    /\ kind = "awaitable" =>
          /\ buffer = "none" <=> operation = "none"
          /\ operation = "alive" => buffer = "alive"
    /\ loop = "destroying" => /\ kind = "awaitable" /\ request # "none"
                              /\ operation = "freed" /\ buffer = "alive"

(* A coroutine that has got its request will fit into the bound.            *)
HandlersFit ==
    kind = "awaitable" /\ (request = "ok" \/ loop \in {"repeat", "handler"})
        => handlers < MaxHandlers

(* The completion handler and its tracker live in the operation, then in    *)
(* the event loop, until the handler has been handed over.                  *)
TrackerLifetime ==
    /\ (starting = "idle") = (operation = "none")
    /\ operation = "none" => ~tracker /\ invoked = "no" /\ ~abandoned
    /\ operation = "alive" => invoked = "no" /\ (tracker <=> executor # "inline")
    /\ operation = "freed" /\ loop \notin {"invoke", "tracker"} =>
          ~tracker /\ invoked # "no"
    /\ loop \in {"invoke", "tracker"} =>
          operation = "freed" /\ (tracker <=> executor # "inline")
    /\ loop = "invoke" => invoked = "no"
    /\ loop = "tracker" => invoked # "no"
    /\ invoked = "posted" => executor = "foreign"
    /\ foreign_work = Units(tracker /\ executor = "foreign")
                        + Units(invoked = "posted")

(* MemoryOwned, with the context that the event loop holds itself in place  *)
(* of their number.                                                         *)
ContextOwner ==
    /\ \A c \in Contexts : owner[c] = "request" <=>
                               kind = "handler" /\ request # "none" /\ c = rpc_context
    /\ IF kind = "handler" /\ loop = "repeat"
       THEN \E c \in Contexts : \A d \in Contexts : owner[d] = "loop" <=> d = c
       ELSE \A c \in Contexts : owner[c] # "loop"

BufferOwner ==
    /\ buffer_used <=> kind = "awaitable" /\ request # "none"
    /\ buffer_used => buffer = "alive"
    /\ Count("buffer") = Units(operation = "freed" /\ buffer = "alive")

Memory == ContextOwner /\ BufferOwner

(* Who holds the reference to a living operation.                           *)
Places == {"initiator", "request", "self", "coroutine", "repeat", "handler",
           "nobody"}

(* The reference is there and nowhere else.  The request handler runs after *)
(* the next request has been made or, in a coroutine, queued.               *)
HeldBy(place) ==
    /\ starting = "initiate" <=> place = "initiator"
    /\ request # "none" /\ loop # "destroying" <=> place = "request"
    /\ Count("self") = Units(place = "self")
    /\ Count("coroutine") = Units(place = "coroutine")
    /\ place = "coroutine" => kind = "awaitable"
    /\ loop = "repeat" <=> place = "repeat"
    /\ loop = "handler" =>
          IF kind = "handler" THEN place \in {"request", "handler"}
                              ELSE place \in {"self", "coroutine"}
    /\ place = "handler" => loop = "handler"
    /\ operation = "alive" /\ ~abandoned <=> place # "nobody"

Continuation == \E place \in Places : HeldBy(place)

RequestInvariant ==
    /\ TypeOK
    /\ Variants
    /\ HandlersFit
    /\ TrackerLifetime
    /\ Continuation
    /\ Memory
    /\ WorkAccounting
-----------------------------------------------------------------------------
(* Counting the queue                                                       *)

Entries == {"self", "coroutine", "buffer"}

(* The numbers of operations of each kind that are queued after a step.     *)
CountsBecome(self, coroutine, buffers) ==
    /\ Count("self")' = self
    /\ Count("coroutine")' = coroutine
    /\ Count("buffer")' = buffers

(* Counting is done by positions.                                           *)
LEMMA CountIsPositions ==
    /\ \A e : Count(e) = Cardinality(Positions(queue, e))
    /\ \A e : Count(e)' = Cardinality(Positions(queue', e))
  BY DEF Count, Positions

(* A kind of operation is queued some number of times.                      *)
LEMMA CountType ==
    ASSUME TypeOK
    PROVE  \A e : Count(e) \in Nat
<1>1. queue \in Seq(Entries)
  BY DEF TypeOK, Entries
<1>2. QED
  BY <1>1, CountIsPositions, PositionsFinite

(* An operation is put at the end of the queue, ...                         *)
LEMMA CountAppend ==
    ASSUME TypeOK, NEW x \in Entries, queue' = Append(queue, x)
    PROVE  CountsBecome(Count("self") + Units(x = "self"),
                        Count("coroutine") + Units(x = "coroutine"),
                        Count("buffer") + Units(x = "buffer"))
<1>1. ASSUME NEW e PROVE Count(e)' = Count(e) + Units(x = e)
  BY PositionsAppend, CountIsPositions DEF TypeOK, Entries, Units
<1>2. QED
  BY <1>1 DEF CountsBecome

(* ... taken from its front, ...                                            *)
LEMMA CountTail ==
    ASSUME TypeOK, queue # <<>>, queue' = Tail(queue)
    PROVE  CountsBecome(Count("self") - Units(Head(queue) = "self"),
                        Count("coroutine") - Units(Head(queue) = "coroutine"),
                        Count("buffer") - Units(Head(queue) = "buffer"))
<1>1. ASSUME NEW e PROVE Count(e)' = Count(e) - Units(Head(queue) = e)
  BY PositionsTail, CountIsPositions DEF TypeOK, Units
<1>2. QED
  BY <1>1 DEF CountsBecome

(* ... or both.                                                             *)
LEMMA CountTailAppend ==
    ASSUME TypeOK, queue # <<>>, NEW x \in Entries,
           queue' = Append(Tail(queue), x)
    PROVE  CountsBecome(
               Count("self") - Units(Head(queue) = "self") + Units(x = "self"),
               Count("coroutine") - Units(Head(queue) = "coroutine")
                   + Units(x = "coroutine"),
               Count("buffer") - Units(Head(queue) = "buffer")
                   + Units(x = "buffer"))
<1>1. Tail(queue) \in Seq(Entries)
  BY HeadTailProperties, EmptySeq DEF TypeOK, Entries
<1>2. ASSUME NEW e
      PROVE  Count(e)' = Count(e) - Units(Head(queue) = e) + Units(x = e)
  <2>1. Count(e)' = Cardinality(Positions(Append(Tail(queue), x), e))
    BY CountIsPositions
  <2>2. \A s \in Seq(Entries) :
            Cardinality(Positions(Append(s, x), e)) =
                Cardinality(Positions(s, e)) + Units(x = e)
    BY PositionsAppend DEF Units
  <2>3. Cardinality(Positions(Tail(queue), e)) =
            Count(e) - Units(Head(queue) = e)
    BY PositionsTail, CountIsPositions DEF TypeOK, Units
  <2>4. QED
    BY <1>1, <2>1, <2>2, <2>3
<1>3. QED
  BY <1>2 DEF CountsBecome

(* What is at the front of the queue is counted.                            *)
LEMMA CountHead ==
    ASSUME TypeOK, queue # <<>>
    PROVE  Count(Head(queue)) > 0
<1>1. 1 \in Positions(queue, Head(queue))
  BY EmptySeq DEF TypeOK, Positions
<1>2. QED
  BY <1>1, PositionsFinite, FS_EmptySet, CountIsPositions DEF TypeOK

(* The operation at the front is freed, and its buffer queued.              *)
LEMMA FreeOperationCounts ==
    ASSUME TypeOK, queue # <<>>, Head(queue) = "self", FreeOperation(Tail(queue))
    PROVE  CountsBecome(Count("self") - 1, Count("coroutine"),
                        Count("buffer") + Units(kind = "awaitable"))
<1>0. /\ Count("self") \in Nat /\ Count("coroutine") \in Nat
      /\ Count("buffer") \in Nat
  BY CountType
<1>1. CASE kind = "awaitable"
  BY <1>0, <1>1, CountTailAppend DEF FreeOperation, Entries, CountsBecome, Units
<1>2. CASE kind # "awaitable"
  BY <1>0, <1>2, CountTail DEF FreeOperation, CountsBecome, Units
<1>3. QED
  BY <1>1, <1>2

-----------------------------------------------------------------------------
(* What a step of Next is, one disjunct per action.                         *)
LEMMA NextCases ==
    ASSUME Next
    PROVE  \/ \E t \in {"loop", "other"} : RepeatedlyRequestInitiator(t)
           \/ InitiateRepeatedlyRequest \/ InitiateThrows
           \/ RepeatedlyRequestStopFunction
           \/ TakeContext \/ RepeatAndHandle \/ RepeatThrows
           \/ RequestHandlerReturns \/ RequestFailed \/ DrainRequest
           \/ CoroutineRequests \/ CoroutineNeverStarts \/ CoroutineResumes
           \/ CoroutineRepeats \/ CoroutineRepeatThrows
           \/ CoroutineSuspends \/ DestroyCoroutine
           \/ RequestDestroyed \/ FreeBuffer \/ OnStopComplete
           \/ DrainOperation \/ Complete \/ ReleaseTracker
           \/ ForeignContextRuns \/ \E c \in Contexts : FreeContext(c)
           \/ CoroutineEnds \/ RequestCompletes \/ ShutdownServer
           \/ DestroyContext
  BY DEF Next, EventLoop

(* There is exactly one holder, and no signal reaches a freed operation     *)
(* whose completion handler is still in the event loop's hands.             *)
LEMMA HolderIsUnique ==
    ASSUME TypeOK, Continuation, TrackerLifetime
    PROVE  OneContinuation
<1> USE DEF TypeOK, Units, HeldBy, OneContinuation, TrackerLifetime, MayEmit,
            LoopIsFree
<1>1. PICK place \in Places : HeldBy(place)
  BY DEF Continuation
<1>2. CASE place = "initiator"
  BY <1>1, <1>2
<1>3. CASE place = "request"
  BY <1>1, <1>3
<1>4. CASE place = "self"
  BY <1>1, <1>4
<1>5. CASE place = "coroutine"
  BY <1>1, <1>5
<1>6. CASE place = "repeat"
  BY <1>1, <1>6
<1>7. CASE place = "handler"
  BY <1>1, <1>7
<1>8. CASE place = "nobody"
  BY <1>1, <1>8
<1>9. QED
  BY <1>1, <1>2, <1>3, <1>4, <1>5, <1>6, <1>7, <1>8 DEF Places

(* An action that moves neither the reference nor the loop.                 *)
LEMMA ContinuationFrame ==
    ASSUME Continuation,
           UNCHANGED <<kind, starting, request, queue, loop, operation, abandoned>>
    PROVE  Continuation'
<1>1. PICK place \in Places : HeldBy(place)
  BY DEF Continuation
<1>2. UNCHANGED <<Count("self"), Count("coroutine")>>
  BY DEF Count
<1>3. HeldBy(place)'
  BY <1>1, <1>2 DEF HeldBy
<1>4. QED
  BY <1>3 DEF Continuation

(* Every step hands the reference over, or drops it with the operation.     *)
LEMMA ContinuationStep ==
    ASSUME TypeOK, Continuation, Variants, TrackerLifetime, [Next]_vars
    PROVE  Continuation'
<1> USE DEF TypeOK, LoopIsFree, Units, CountsBecome, configVars, startVars,
            handlerVars, serverVars, contextVars, bufferVars
<1>0. /\ Count("self") \in Nat /\ Count("coroutine") \in Nat
      /\ Count("buffer") \in Nat
  BY CountType
<1>a. PICK place \in Places : HeldBy(place)
  BY DEF Continuation
<1>same. ASSUME UNCHANGED queue
         PROVE  UNCHANGED <<Count("self"), Count("coroutine")>>
  BY <1>same DEF Count
<1>to. ASSUME NEW p \in Places, HeldBy(p)'
       PROVE  Continuation'
  BY <1>to DEF Continuation
<1>1. CASE UNCHANGED vars
  BY <1>1, ContinuationFrame DEF vars
<1>2. ASSUME NEW t \in {"loop", "other"}, RepeatedlyRequestInitiator(t)
      PROVE  Continuation'
  <2>1. place = "nobody"
    BY <1>a, <1>2 DEF Places, HeldBy, RepeatedlyRequestInitiator, Variants,
       TrackerLifetime
  <2>2. UNCHANGED queue
    BY <1>2 DEF RepeatedlyRequestInitiator
  <2>3. HeldBy("initiator")'
    BY <1>a, <1>same, <1>2, <2>1, <2>2 DEF HeldBy, RepeatedlyRequestInitiator,
       Variants, TrackerLifetime
  <2>4. QED
    BY <1>to, <2>3 DEF Places
<1>3. CASE InitiateRepeatedlyRequest
  <2>1. place = "initiator"
    BY <1>a, <1>3 DEF HeldBy, InitiateRepeatedlyRequest
  <2>2. CASE stopped
    <3>1. CountsBecome(Count("self") + 1, Count("coroutine"), Count("buffer"))
      BY <1>0, <1>3, <2>2, CountAppend DEF InitiateRepeatedlyRequest, Entries
    <3>2. HeldBy("self")'
      BY <1>a, <1>3, <2>1, <2>2, <3>1 DEF HeldBy, InitiateRepeatedlyRequest
    <3>3. QED
      BY <1>to, <3>2 DEF Places
  <2>3. CASE ~stopped /\ kind = "handler"
    <3>1. UNCHANGED queue /\ request' = "pending"
      BY <1>3, <2>3 DEF InitiateRepeatedlyRequest, RequestWithContext
    <3>2. HeldBy("request")'
      BY <1>a, <1>same, <1>3, <2>1, <2>3, <3>1 DEF HeldBy, Variants,
         InitiateRepeatedlyRequest
    <3>3. QED
      BY <1>to, <3>2 DEF Places
  <2>4. CASE ~stopped /\ kind = "awaitable"
    <3>1. CountsBecome(Count("self"), Count("coroutine") + 1, Count("buffer"))
      BY <1>0, <1>3, <2>4, CountAppend DEF InitiateRepeatedlyRequest,
         SpawnRequest, Entries
    <3>2. HeldBy("coroutine")'
      BY <1>a, <1>3, <2>1, <2>4, <3>1 DEF HeldBy, InitiateRepeatedlyRequest
    <3>3. QED
      BY <1>to, <3>2 DEF Places
  <2>5. QED
    BY <2>2, <2>3, <2>4
<1>4. CASE RepeatedlyRequestStopFunction
  BY <1>4, ContinuationFrame DEF RepeatedlyRequestStopFunction
<1>5. CASE TakeContext
  <2>1. place = "request"
    BY <1>a, <1>5 DEF Places, HeldBy, TakeContext
  <2>2. UNCHANGED queue
    BY <1>5 DEF TakeContext
  <2>3. HeldBy("repeat")'
    BY <1>a, <1>same, <1>5, <2>1, <2>2 DEF HeldBy, TakeContext
  <2>4. QED
    BY <1>to, <2>3 DEF Places
<1>6. CASE RepeatAndHandle
  <2>1. place = "repeat" /\ UNCHANGED queue
    BY <1>a, <1>6 DEF HeldBy, RepeatAndHandle
  <2>2. CASE stopped
    <3>1. HeldBy("handler")'
      BY <1>a, <1>same, <1>6, <2>1, <2>2 DEF HeldBy, RepeatAndHandle
    <3>2. QED
      BY <1>to, <3>1 DEF Places
  <2>3. CASE ~stopped
    <3>1. request' = "pending"
      BY <1>6, <2>3 DEF RepeatAndHandle, RequestWithContext
    <3>2. HeldBy("request")'
      BY <1>a, <1>same, <1>6, <2>1, <3>1 DEF HeldBy, RepeatAndHandle
    <3>3. QED
      BY <1>to, <3>2 DEF Places
  <2>4. QED
    BY <2>2, <2>3
<1>7. CASE RepeatThrows
  <2>1. place = "repeat"
    BY <1>a, <1>7 DEF Places, HeldBy, RepeatThrows
  <2>2. UNCHANGED queue
    BY <1>7 DEF RepeatThrows
  <2>3. HeldBy("nobody")'
    BY <1>a, <1>same, <1>7, <2>1, <2>2 DEF HeldBy, RepeatThrows
  <2>4. QED
    BY <1>to, <2>3 DEF Places
<1>8. CASE RequestHandlerReturns
  <2>1. CASE request = "none"
    <3>1. place = "handler"
      BY <1>a, <1>8, <2>1 DEF HeldBy, RequestHandlerReturns
    <3>2. CountsBecome(Count("self") + 1, Count("coroutine"), Count("buffer"))
      BY <1>0, <1>8, <2>1, CountAppend DEF RequestHandlerReturns, Entries
    <3>3. HeldBy("self")'
      BY <1>a, <1>8, <2>1, <3>1, <3>2 DEF HeldBy, RequestHandlerReturns
    <3>4. QED
      BY <1>to, <3>3 DEF Places
  <2>2. CASE request # "none"
    <3>1. place = "request" /\ UNCHANGED queue
      BY <1>a, <1>8, <2>2 DEF HeldBy, RequestHandlerReturns
    <3>2. HeldBy("request")'
      BY <1>a, <1>same, <1>8, <2>2, <3>1 DEF HeldBy, RequestHandlerReturns
    <3>3. QED
      BY <1>to, <3>2 DEF Places
  <2>3. QED
    BY <2>1, <2>2
<1>9. CASE RequestFailed
  <2>1. place = "request"
    BY <1>a, <1>9 DEF HeldBy, RequestFailed
  <2>2. CountsBecome(Count("self") + 1, Count("coroutine"), Count("buffer"))
    BY <1>0, <1>9, CountAppend DEF RequestFailed, Entries
  <2>3. HeldBy("self")'
    BY <1>a, <1>9, <2>1, <2>2 DEF HeldBy, RequestFailed
  <2>4. QED
    BY <1>to, <2>3 DEF Places
<1>10. CASE DrainRequest
  <2>1. place = "request"
    BY <1>a, <1>10 DEF Places, HeldBy, DrainRequest, FreeOperation
  <2>2. UNCHANGED queue
    BY <1>10 DEF DrainRequest, FreeOperation
  <2>3. HeldBy("nobody")'
    BY <1>a, <1>same, <1>10, <2>1, <2>2 DEF HeldBy, DrainRequest, FreeOperation
  <2>4. QED
    BY <1>to, <2>3 DEF Places
<1>11. CASE CoroutineRequests
  <2>1. Count("coroutine") > 0
    BY <1>11, CountHead DEF CoroutineRequests
  <2>2. place = "coroutine"
    BY <1>a, <2>1 DEF HeldBy
  <2>3. CountsBecome(Count("self"), Count("coroutine") - 1, Count("buffer"))
    BY <1>0, <1>11, CountTail DEF CoroutineRequests
  <2>4. HeldBy("request")'
    BY <1>a, <1>11, <2>2, <2>3 DEF HeldBy, CoroutineRequests
  <2>5. QED
    BY <1>to, <2>4 DEF Places
<1>12. CASE CoroutineNeverStarts
  <2>1. Count("coroutine") > 0
    BY <1>12, CountHead DEF CoroutineNeverStarts
  <2>2. place = "coroutine"
    BY <1>a, <2>1 DEF HeldBy
  <2>3. CountsBecome(Count("self"), Count("coroutine") - 1, Count("buffer"))
    BY <1>0, <1>12, CountTail DEF CoroutineNeverStarts
  <2>4. HeldBy("nobody")'
    BY <1>a, <1>12, <2>2, <2>3 DEF HeldBy, CoroutineNeverStarts
  <2>5. QED
    BY <1>to, <2>4 DEF Places
<1>13. CASE CoroutineResumes
  <2>1. place = "request"
    BY <1>a, <1>13 DEF HeldBy, CoroutineResumes
  <2>2. CASE request = "ok"
    <3>1. HeldBy("repeat")'
      BY <1>a, <1>same, <1>13, <2>1, <2>2 DEF HeldBy, CoroutineResumes
    <3>2. QED
      BY <1>to, <3>1 DEF Places
  <2>3. CASE request # "ok"
    <3>1. CountsBecome(Count("self") + 1, Count("coroutine"), Count("buffer"))
      BY <1>0, <1>13, <2>3, CountAppend DEF CoroutineResumes, Entries
    <3>2. HeldBy("self")'
      BY <1>a, <1>13, <2>1, <2>3, <3>1 DEF HeldBy, CoroutineResumes
    <3>3. QED
      BY <1>to, <3>2 DEF Places
  <2>4. QED
    BY <2>2, <2>3
<1>14. CASE CoroutineRepeats
  <2>1. place = "repeat"
    BY <1>a, <1>14 DEF HeldBy, CoroutineRepeats
  <2>2. CASE stopped
    <3>1. CountsBecome(Count("self") + 1, Count("coroutine"), Count("buffer"))
      BY <1>0, <1>14, <2>2, CountAppend DEF CoroutineRepeats, Entries
    <3>2. HeldBy("self")'
      BY <1>a, <1>14, <2>1, <3>1 DEF HeldBy, CoroutineRepeats
    <3>3. QED
      BY <1>to, <3>2 DEF Places
  <2>3. CASE ~stopped
    <3>1. CountsBecome(Count("self"), Count("coroutine") + 1, Count("buffer"))
      BY <1>0, <1>14, <2>3, CountAppend DEF CoroutineRepeats, SpawnRequest, Entries
    <3>2. HeldBy("coroutine")'
      BY <1>a, <1>14, <2>1, <3>1 DEF HeldBy, CoroutineRepeats
    <3>3. QED
      BY <1>to, <3>2 DEF Places
  <2>4. QED
    BY <2>2, <2>3
<1>15. CASE CoroutineSuspends
  <2>1. HeldBy(place)'
    BY <1>a, <1>same, <1>15 DEF HeldBy, CoroutineSuspends
  <2>2. QED
    BY <1>a, <1>to, <2>1
<1>16. CASE DestroyCoroutine
  <2>1. place = "request"
    BY <1>a, <1>16 DEF HeldBy, DestroyCoroutine
  <2>2. CountsBecome(Count("self"), Count("coroutine"), Count("buffer") + 1)
    BY <1>0, <1>16, CountAppend DEF DestroyCoroutine, FreeOperation, Entries
  <2>3. HeldBy("nobody")'
    BY <1>a, <1>16, <2>1, <2>2 DEF HeldBy, DestroyCoroutine, FreeOperation
  <2>4. QED
    BY <1>to, <2>3 DEF Places
<1>17. CASE RequestDestroyed
  <2>1. place = "nobody"
    BY <1>a, <1>17 DEF Places, HeldBy, RequestDestroyed, Variants
  <2>2. UNCHANGED queue
    BY <1>17 DEF RequestDestroyed
  <2>3. HeldBy("nobody")'
    BY <1>a, <1>same, <1>17, <2>1, <2>2 DEF HeldBy, RequestDestroyed, Variants
  <2>4. QED
    BY <1>to, <2>3 DEF Places
<1>18. CASE FreeBuffer
  <2>1. CountsBecome(Count("self"), Count("coroutine"), Count("buffer") - 1)
    BY <1>0, <1>18, CountTail DEF FreeBuffer
  <2>2. HeldBy(place)'
    BY <1>a, <1>18, <2>1 DEF HeldBy, FreeBuffer
  <2>3. QED
    BY <1>a, <1>to, <2>2
<1>19. CASE OnStopComplete
  <2>1. Count("self") > 0 /\ loop = "idle"
    BY <1>19, CountHead DEF OnStopComplete, SelfIsNext
  <2>2. place = "self"
    BY <1>a, <2>1 DEF HeldBy
  <2>3. Count("self")' = Count("self") - 1 /\ UNCHANGED Count("coroutine")
    BY <1>0, <1>19, FreeOperationCounts DEF OnStopComplete, SelfIsNext
  <2>4. HeldBy("nobody")'
    BY <1>a, <1>19, <2>1, <2>2, <2>3 DEF HeldBy, OnStopComplete, FreeOperation
  <2>5. QED
    BY <1>to, <2>4 DEF Places
<1>20. CASE DrainOperation
  <2>1. Count("self") > 0 /\ loop = "idle"
    BY <1>20, CountHead DEF DrainOperation, SelfIsNext
  <2>2. place = "self"
    BY <1>a, <2>1 DEF HeldBy
  <2>3. Count("self")' = Count("self") - 1 /\ UNCHANGED Count("coroutine")
    BY <1>0, <1>20, FreeOperationCounts DEF DrainOperation, SelfIsNext
  <2>4. HeldBy("nobody")'
    BY <1>a, <1>20, <2>1, <2>2, <2>3 DEF HeldBy, DrainOperation, FreeOperation
  <2>5. QED
    BY <1>to, <2>4 DEF Places
<1>21. CASE Complete
  <2>1. HeldBy(place)'
    BY <1>a, <1>same, <1>21 DEF HeldBy, Complete
  <2>2. QED
    BY <1>a, <1>to, <2>1
<1>22. CASE ReleaseTracker
  <2>1. HeldBy(place)'
    BY <1>a, <1>same, <1>22 DEF HeldBy, ReleaseTracker
  <2>2. QED
    BY <1>a, <1>to, <2>1
<1>23. CASE ForeignContextRuns
  BY <1>23, ContinuationFrame DEF ForeignContextRuns
<1>24. ASSUME NEW c \in Contexts, FreeContext(c)
      PROVE  Continuation'
  BY <1>24, ContinuationFrame DEF FreeContext, OnlyWork
<1>25. CASE CoroutineEnds
  BY <1>25, ContinuationFrame DEF CoroutineEnds, OnlyWork
<1>26. CASE RequestCompletes
  <2>1. request # "none" /\ request' # "none"
    BY <1>26 DEF RequestCompletes
  <2>2. HeldBy(place)'
    BY <1>a, <1>same, <1>26, <2>1 DEF HeldBy, RequestCompletes
  <2>3. QED
    BY <1>a, <1>to, <2>2
<1>27. CASE ShutdownServer
  BY <1>27, ContinuationFrame DEF ShutdownServer
<1>28. CASE DestroyContext
  BY <1>28, ContinuationFrame DEF DestroyContext
<1>29. CASE InitiateThrows
  <2>1. place = "initiator"
    BY <1>a, <1>29 DEF HeldBy, InitiateThrows
  <2>2. CountsBecome(Count("self"), Count("coroutine"),
                     Count("buffer") + Units(kind = "awaitable"))
    <3>1. CASE kind = "awaitable"
      BY <1>0, <1>29, <3>1, CountAppend DEF InitiateThrows, FreeOperation, Entries
    <3>2. CASE kind # "awaitable"
      BY <1>0, <1>29, <3>2 DEF InitiateThrows, FreeOperation, Count
    <3>3. QED
      BY <3>1, <3>2
  <2>3. HeldBy("nobody")'
    BY <1>a, <1>29, <2>1, <2>2 DEF HeldBy, InitiateThrows, FreeOperation
  <2>4. QED
    BY <1>to, <2>3 DEF Places
<1>30. CASE CoroutineRepeatThrows
  <2>1. place = "repeat"
    BY <1>a, <1>30 DEF Places, HeldBy, CoroutineRepeatThrows
  <2>2. UNCHANGED queue
    BY <1>30 DEF CoroutineRepeatThrows
  <2>3. HeldBy("nobody")'
    BY <1>a, <1>same, <1>30, <2>1, <2>2 DEF HeldBy, CoroutineRepeatThrows
  <2>4. QED
    BY <1>to, <2>3 DEF Places
<1>31. QED
    BY ONLY [Next]_vars, NextCases, <1>1, <1>2, <1>3, <1>4, <1>5, <1>6, <1>7,
     <1>8, <1>9, <1>10, <1>11, <1>12, <1>13, <1>14, <1>15, <1>16, <1>17,
     <1>18, <1>19, <1>20, <1>21, <1>22, <1>23, <1>24, <1>25, <1>26, <1>27,
     <1>28, <1>29, <1>30

(* What the holder of the reference tells of the rest.                      *)
LEMMA HolderFacts ==
    ASSUME TypeOK, Continuation, Variants
    PROVE  /\ starting = "initiate" =>
                 /\ operation = "alive" /\ ~abandoned /\ request = "none"
                 /\ loop \notin {"repeat", "handler"}
           /\ request # "none" /\ loop # "destroying" =>
                 /\ operation = "alive" /\ ~abandoned /\ loop # "repeat"
                 /\ kind = "awaitable" => loop # "handler"
           /\ loop = "repeat" =>
                 operation = "alive" /\ ~abandoned /\ request = "none"
           /\ loop = "handler" =>
                 /\ operation = "alive" /\ ~abandoned
                 /\ kind = "awaitable" => request = "none"
           /\ Count("self") > 0 \/ Count("coroutine") > 0 =>
                 /\ operation = "alive" /\ ~abandoned
                 /\ starting # "initiate" /\ request = "none" /\ loop # "repeat"
           /\ Count("coroutine") > 0 => kind = "awaitable"
<1>1. PICK place \in Places : HeldBy(place)
  BY DEF Continuation
<1>2. QED
  BY <1>1 DEF TypeOK, Variants, HeldBy, Units, Places

(* The completion handler and its tracker are handed over together, and     *)
(* dropped together.                                                        *)
LEMMA TrackerStep ==
    ASSUME TypeOK, Variants, Continuation, TrackerLifetime, [Next]_vars
    PROVE  TrackerLifetime'
<1> USE DEF TypeOK, LoopIsFree, Units, TracksGrpcContext, configVars,
            startVars, handlerVars, serverVars, contextVars, bufferVars
<1>same. ASSUME UNCHANGED <<starting, operation, abandoned, tracker, invoked,
                           executor, foreign_work, loop>>
         PROVE  TrackerLifetime'
  BY <1>same DEF TrackerLifetime
<1>1. CASE UNCHANGED vars
  BY <1>same, <1>1 DEF vars
<1>2. ASSUME NEW t \in {"loop", "other"}, RepeatedlyRequestInitiator(t)
      PROVE  TrackerLifetime'
  <2>1. operation = "none" /\ loop \notin {"invoke", "tracker"}
    BY <1>2 DEF RepeatedlyRequestInitiator, TrackerLifetime
  <2>2. tracker' <=> executor # "inline"
    BY <1>2, Zenon DEF RepeatedlyRequestInitiator
  <2>3. foreign_work' = Units(tracker' /\ executor' = "foreign")
    BY <1>2, <2>2 DEF RepeatedlyRequestInitiator
  <2>4. QED
    BY <1>2, <2>1, <2>2, <2>3 DEF RepeatedlyRequestInitiator, TrackerLifetime
<1>3. CASE InitiateRepeatedlyRequest
  BY <1>3, HolderFacts DEF InitiateRepeatedlyRequest, SpawnRequest,
     RequestWithContext, TrackerLifetime
<1>4. CASE RepeatedlyRequestStopFunction
  BY <1>same, <1>4 DEF RepeatedlyRequestStopFunction, MayEmit
<1>5. CASE TakeContext
  BY <1>5 DEF TakeContext, TrackerLifetime
<1>6. CASE RepeatAndHandle
  BY <1>6, HolderFacts DEF RepeatAndHandle, RequestWithContext, TrackerLifetime
<1>7. CASE RepeatThrows
  BY <1>7, HolderFacts DEF RepeatThrows, TrackerLifetime
<1>8. CASE RequestHandlerReturns
  BY <1>8, HolderFacts DEF RequestHandlerReturns, TrackerLifetime
<1>9. CASE RequestFailed
  BY <1>same, <1>9 DEF RequestFailed
<1>10. CASE DrainRequest
  BY <1>10, HolderFacts DEF DrainRequest, FreeOperation, DropHandler,
     TrackerLifetime
<1>11. CASE CoroutineRequests
  BY <1>same, <1>11 DEF CoroutineRequests
<1>12. CASE CoroutineNeverStarts
  <2>1. Count("coroutine") > 0
    BY <1>12, CountHead DEF CoroutineNeverStarts
  <2>2. QED
    BY <1>12, <2>1, HolderFacts DEF CoroutineNeverStarts, TrackerLifetime
<1>13. CASE CoroutineResumes
  BY <1>13 DEF CoroutineResumes, TrackerLifetime
<1>14. CASE CoroutineRepeats
  BY <1>14, HolderFacts DEF CoroutineRepeats, SpawnRequest, TrackerLifetime
<1>15. CASE CoroutineSuspends
  BY <1>15, HolderFacts DEF CoroutineSuspends, TrackerLifetime
<1>16. CASE DestroyCoroutine
  BY <1>16, HolderFacts DEF DestroyCoroutine, FreeOperation, DropHandler,
     TrackerLifetime
<1>17. CASE RequestDestroyed
  BY <1>17 DEF RequestDestroyed, TrackerLifetime
<1>18. CASE FreeBuffer
  BY <1>same, <1>18 DEF FreeBuffer
<1>19. CASE OnStopComplete
  <2>1. Count("self") > 0
    BY <1>19, CountHead DEF OnStopComplete, SelfIsNext, FreeOperation
  <2>2. QED
    BY <1>19, <2>1, HolderFacts DEF OnStopComplete, SelfIsNext, FreeOperation,
       TrackerLifetime
<1>20. CASE DrainOperation
  <2>1. Count("self") > 0
    BY <1>20, CountHead DEF DrainOperation, SelfIsNext, FreeOperation, DropHandler
  <2>2. QED
    BY <1>20, <2>1, HolderFacts DEF DrainOperation, SelfIsNext, FreeOperation,
       DropHandler, TrackerLifetime
<1>21. CASE Complete
  BY <1>21 DEF Complete, TrackerLifetime
<1>22. CASE ReleaseTracker
  BY <1>22 DEF ReleaseTracker, TrackerLifetime
<1>23. CASE ForeignContextRuns
  BY <1>23 DEF ForeignContextRuns, TrackerLifetime
<1>24. ASSUME NEW c \in Contexts, FreeContext(c)
      PROVE  TrackerLifetime'
  BY <1>same, <1>24 DEF FreeContext, OnlyWork
<1>25. CASE CoroutineEnds
  BY <1>same, <1>25 DEF CoroutineEnds, OnlyWork
<1>26. CASE RequestCompletes
  BY <1>same, <1>26 DEF RequestCompletes
<1>27. CASE ShutdownServer
  BY <1>same, <1>27 DEF ShutdownServer
<1>28. CASE DestroyContext
  BY <1>same, <1>28 DEF DestroyContext
<1>29. CASE InitiateThrows
  BY <1>29, HolderFacts DEF InitiateThrows, FreeOperation, DropHandler,
     TrackerLifetime
<1>30. CASE CoroutineRepeatThrows
  BY <1>30, HolderFacts DEF CoroutineRepeatThrows, TrackerLifetime
<1>31. QED
  BY ONLY [Next]_vars, NextCases, <1>1, <1>2, <1>3, <1>4, <1>5, <1>6, <1>7,
     <1>8, <1>9, <1>10, <1>11, <1>12, <1>13, <1>14, <1>15, <1>16, <1>17, <1>18,
     <1>19, <1>20, <1>21, <1>22, <1>23, <1>24, <1>25, <1>26, <1>27, <1>28,
     <1>29, <1>30

(* Neither variant takes a step of the other.                               *)
LEMMA VariantsStep ==
    ASSUME TypeOK, Variants, TrackerLifetime, Continuation, Memory, [Next]_vars
    PROVE  Variants'
<1> USE DEF TypeOK, LoopIsFree, configVars, startVars, handlerVars, serverVars,
            contextVars, bufferVars
<1>same. ASSUME UNCHANGED <<kind, handlers, buffer, request, rpc_context,
                           operation, loop>>
         PROVE  Variants'
  BY <1>same DEF Variants
<1>1. CASE UNCHANGED vars
  BY <1>same, <1>1 DEF vars
<1>2. ASSUME NEW t \in {"loop", "other"}, RepeatedlyRequestInitiator(t)
      PROVE  Variants'
  <2>1. operation = "none"
    BY <1>2 DEF RepeatedlyRequestInitiator, TrackerLifetime
  <2>2. QED
    BY <1>2, <2>1 DEF RepeatedlyRequestInitiator, Variants
<1>3. CASE InitiateRepeatedlyRequest
  <2>1. \/ rpc_context' \in Contexts
        \/ UNCHANGED <<request, rpc_context>>
    BY <1>3 DEF InitiateRepeatedlyRequest, SpawnRequest, RequestWithContext
  <2>2. QED
    BY <1>3, <2>1, HolderFacts DEF InitiateRepeatedlyRequest, Variants
<1>4. CASE RepeatedlyRequestStopFunction
  BY <1>same, <1>4 DEF RepeatedlyRequestStopFunction, MayEmit
<1>5. CASE TakeContext
  BY <1>5 DEF TakeContext, Variants
<1>6. CASE RepeatAndHandle
  BY <1>6, HolderFacts DEF RepeatAndHandle, RequestWithContext, Variants
<1>7. CASE RepeatThrows
  BY <1>7, HolderFacts DEF RepeatThrows, Variants
<1>8. CASE RequestHandlerReturns
  BY <1>8, HolderFacts DEF RequestHandlerReturns, Variants
<1>9. CASE RequestFailed
  BY <1>9 DEF RequestFailed, Variants
<1>10. CASE DrainRequest
  BY <1>10, HolderFacts DEF DrainRequest, FreeOperation, DropHandler, Variants
<1>11. CASE CoroutineRequests
  <2>1. Count("coroutine") > 0
    BY <1>11, CountHead DEF CoroutineRequests
  <2>2. QED
    BY <1>11, <2>1, HolderFacts DEF CoroutineRequests, Variants
<1>12. CASE CoroutineNeverStarts
  BY <1>same, <1>12 DEF CoroutineNeverStarts
<1>13. CASE CoroutineResumes
  BY <1>13 DEF CoroutineResumes, Variants
<1>14. CASE CoroutineRepeats
  BY <1>14, HolderFacts DEF CoroutineRepeats, SpawnRequest, Variants
<1>15. CASE CoroutineSuspends
  BY <1>15, HolderFacts DEF CoroutineSuspends, Variants
<1>16. CASE DestroyCoroutine
  BY <1>16, HolderFacts DEF DestroyCoroutine, FreeOperation, DropHandler,
     Variants
<1>17. CASE RequestDestroyed
  BY <1>17 DEF RequestDestroyed, Variants
<1>18. CASE FreeBuffer
  <2>1. Count("buffer") > 0
    BY <1>18, CountHead DEF FreeBuffer
  <2>2. operation = "freed" /\ buffer = "alive"
    BY <2>1 DEF Memory, BufferOwner, Units
  <2>3. QED
    BY <1>18, <2>2 DEF FreeBuffer, Variants
<1>19. CASE OnStopComplete
  <2>1. Count("self") > 0
    BY <1>19, CountHead DEF OnStopComplete, SelfIsNext, FreeOperation
  <2>2. QED
    BY <1>19, <2>1, HolderFacts DEF OnStopComplete, SelfIsNext, FreeOperation,
       Variants
<1>20. CASE DrainOperation
  <2>1. Count("self") > 0
    BY <1>20, CountHead DEF DrainOperation, SelfIsNext, FreeOperation, DropHandler
  <2>2. QED
    BY <1>20, <2>1, HolderFacts DEF DrainOperation, SelfIsNext, FreeOperation,
       DropHandler, Variants
<1>21. CASE Complete
  BY <1>21 DEF Complete, Variants
<1>22. CASE ReleaseTracker
  BY <1>22 DEF ReleaseTracker, Variants
<1>23. CASE ForeignContextRuns
  BY <1>same, <1>23 DEF ForeignContextRuns
<1>24. ASSUME NEW c \in Contexts, FreeContext(c)
      PROVE  Variants'
  BY <1>same, <1>24 DEF FreeContext, OnlyWork
<1>25. CASE CoroutineEnds
  BY <1>25 DEF CoroutineEnds, OnlyWork, Variants
<1>26. CASE RequestCompletes
  BY <1>26 DEF RequestCompletes, Variants
<1>27. CASE ShutdownServer
  BY <1>same, <1>27 DEF ShutdownServer
<1>28. CASE DestroyContext
  BY <1>same, <1>28 DEF DestroyContext
<1>29. CASE InitiateThrows
  BY <1>29, HolderFacts DEF InitiateThrows, FreeOperation, DropHandler, Variants
<1>30. CASE CoroutineRepeatThrows
  BY <1>30, HolderFacts DEF CoroutineRepeatThrows, Variants
<1>31. QED
  BY ONLY [Next]_vars, NextCases, <1>1, <1>2, <1>3, <1>4, <1>5, <1>6, <1>7,
     <1>8, <1>9, <1>10, <1>11, <1>12, <1>13, <1>14, <1>15, <1>16, <1>17, <1>18,
     <1>19, <1>20, <1>21, <1>22, <1>23, <1>24, <1>25, <1>26, <1>27, <1>28,
     <1>29, <1>30

(* A request is answered only if its coroutine will fit.                    *)
LEMMA HandlersStep ==
    ASSUME TypeOK, Variants, Continuation, HandlersFit, [Next]_vars
    PROVE  HandlersFit'
<1> USE DEF TypeOK, LoopIsFree, HandlersFit, configVars, startVars,
            handlerVars, serverVars, contextVars, bufferVars
<1>same. ASSUME UNCHANGED <<kind, handlers, request, loop>>
         PROVE  HandlersFit'
  BY <1>same
<1>1. CASE UNCHANGED vars
  BY <1>same, <1>1 DEF vars
<1>2. ASSUME NEW t \in {"loop", "other"}, RepeatedlyRequestInitiator(t)
      PROVE  HandlersFit'
  BY <1>same, <1>2 DEF RepeatedlyRequestInitiator
<1>3. CASE InitiateRepeatedlyRequest
  BY <1>3 DEF InitiateRepeatedlyRequest, SpawnRequest, RequestWithContext
<1>4. CASE RepeatedlyRequestStopFunction
  BY <1>same, <1>4 DEF RepeatedlyRequestStopFunction, MayEmit
<1>5. CASE TakeContext
  BY <1>5 DEF TakeContext
<1>6. CASE RepeatAndHandle
  BY <1>6 DEF RepeatAndHandle, RequestWithContext
<1>7. CASE RepeatThrows
  BY <1>7 DEF RepeatThrows
<1>8. CASE RequestHandlerReturns
  BY <1>8 DEF RequestHandlerReturns
<1>9. CASE RequestFailed
  BY <1>9 DEF RequestFailed
<1>10. CASE DrainRequest
  BY <1>10 DEF DrainRequest, FreeOperation, DropHandler
<1>11. CASE CoroutineRequests
  BY <1>11 DEF CoroutineRequests
<1>12. CASE CoroutineNeverStarts
  BY <1>same, <1>12 DEF CoroutineNeverStarts
<1>13. CASE CoroutineResumes
  BY <1>13 DEF CoroutineResumes
<1>14. CASE CoroutineRepeats
  BY <1>14 DEF CoroutineRepeats, SpawnRequest
<1>15. CASE CoroutineSuspends
  BY <1>15, HolderFacts DEF CoroutineSuspends
<1>16. CASE DestroyCoroutine
  BY <1>16 DEF DestroyCoroutine, FreeOperation, DropHandler
<1>17. CASE RequestDestroyed
  BY <1>17 DEF RequestDestroyed
<1>18. CASE FreeBuffer
  BY <1>same, <1>18 DEF FreeBuffer
<1>19. CASE OnStopComplete
  BY <1>19 DEF OnStopComplete, SelfIsNext, FreeOperation
<1>20. CASE DrainOperation
  BY <1>same, <1>20 DEF DrainOperation, SelfIsNext, FreeOperation, DropHandler
<1>21. CASE Complete
  BY <1>21 DEF Complete
<1>22. CASE ReleaseTracker
  BY <1>22 DEF ReleaseTracker
<1>23. CASE ForeignContextRuns
  BY <1>same, <1>23 DEF ForeignContextRuns
<1>24. ASSUME NEW c \in Contexts, FreeContext(c)
      PROVE  HandlersFit'
  BY <1>same, <1>24 DEF FreeContext, OnlyWork
<1>25. CASE CoroutineEnds
  BY <1>25, RepeatedlyRequestAssumption DEF CoroutineEnds, OnlyWork
<1>26. CASE RequestCompletes
  BY <1>26 DEF RequestCompletes
<1>27. CASE ShutdownServer
  BY <1>same, <1>27 DEF ShutdownServer
<1>28. CASE DestroyContext
  BY <1>same, <1>28 DEF DestroyContext
<1>29. CASE InitiateThrows
  BY <1>29 DEF InitiateThrows, FreeOperation, DropHandler
<1>30. CASE CoroutineRepeatThrows
  BY <1>30 DEF CoroutineRepeatThrows
<1>31. QED
  BY ONLY [Next]_vars, NextCases, <1>1, <1>2, <1>3, <1>4, <1>5, <1>6, <1>7,
     <1>8, <1>9, <1>10, <1>11, <1>12, <1>13, <1>14, <1>15, <1>16, <1>17, <1>18,
     <1>19, <1>20, <1>21, <1>22, <1>23, <1>24, <1>25, <1>26, <1>27, <1>28,
     <1>29, <1>30

(* An RPCContext goes from gRPC to the event loop to the request handler.   *)
LEMMA ContextOwnerStep ==
    ASSUME TypeOK, Variants, Continuation, ContextOwner, [Next]_vars
    PROVE  ContextOwner'
<1> USE DEF TypeOK, LoopIsFree, ContextOwner, configVars, startVars,
            handlerVars, serverVars, contextVars, bufferVars
<1>same. ASSUME UNCHANGED <<kind, owner, request, rpc_context, loop>>
         PROVE  ContextOwner'
  BY <1>same
<1>1. CASE UNCHANGED vars
  BY <1>same, <1>1 DEF vars
<1>2. ASSUME NEW t \in {"loop", "other"}, RepeatedlyRequestInitiator(t)
      PROVE  ContextOwner'
  BY <1>same, <1>2 DEF RepeatedlyRequestInitiator
<1>3. CASE InitiateRepeatedlyRequest
  <2>1. CASE ~stopped /\ kind = "handler"
    <3>1. PICK c \in Contexts :
             /\ owner[c] = "free" /\ owner' = [owner EXCEPT ![c] = "request"]
             /\ rpc_context' = c /\ request' = "pending"
      BY <1>3, <2>1 DEF InitiateRepeatedlyRequest, SpawnRequest, RequestWithContext
    <3>2. QED
      BY <1>3, <2>1, <3>1, HolderFacts DEF InitiateRepeatedlyRequest
  <2>2. CASE stopped \/ kind = "awaitable"
    BY <1>same, <1>3, <2>2 DEF InitiateRepeatedlyRequest
  <2>3. QED
    BY <2>1, <2>2
<1>4. CASE RepeatedlyRequestStopFunction
  BY <1>same, <1>4 DEF RepeatedlyRequestStopFunction, MayEmit
<1>5. CASE TakeContext
  BY <1>5, HolderFacts DEF TakeContext, Variants
<1>6. CASE RepeatAndHandle
  <2>1. CASE stopped
    BY <1>6, <2>1, HolderFacts DEF RepeatAndHandle, HandContextOver
  <2>2. CASE ~stopped
    <3>1. PICK c \in Contexts :
             /\ HandContextOver[c] = "free"
             /\ owner' = [HandContextOver EXCEPT ![c] = "request"]
             /\ rpc_context' = c /\ request' = "pending"
      BY <1>6, <2>2 DEF RepeatAndHandle, RequestWithContext
    <3>2. QED
      BY <1>6, <2>2, <3>1, HolderFacts DEF RepeatAndHandle, HandContextOver
  <2>3. QED
    BY <2>1, <2>2
<1>7. CASE RepeatThrows
  BY <1>7, HolderFacts DEF RepeatThrows
<1>8. CASE RequestHandlerReturns
  BY <1>8, HolderFacts DEF RequestHandlerReturns
<1>9. CASE RequestFailed
  BY <1>9, HolderFacts DEF RequestFailed, Variants
<1>10. CASE DrainRequest
  BY <1>10, HolderFacts DEF DrainRequest, FreeOperation, DropHandler, Variants
<1>11. CASE CoroutineRequests
  <2>1. Count("coroutine") > 0
    BY <1>11, CountHead DEF CoroutineRequests
  <2>2. QED
    BY <1>11, <2>1, HolderFacts DEF CoroutineRequests, ContextOwner
<1>12. CASE CoroutineNeverStarts
  BY <1>same, <1>12 DEF CoroutineNeverStarts
<1>13. CASE CoroutineResumes
  BY <1>13 DEF CoroutineResumes
<1>14. CASE CoroutineRepeats
  BY <1>14, HolderFacts DEF CoroutineRepeats, SpawnRequest
<1>15. CASE CoroutineSuspends
  BY <1>15, HolderFacts DEF CoroutineSuspends
<1>16. CASE DestroyCoroutine
  BY <1>16, HolderFacts DEF DestroyCoroutine, FreeOperation, DropHandler
<1>17. CASE RequestDestroyed
  BY <1>17, HolderFacts DEF RequestDestroyed, Variants
<1>18. CASE FreeBuffer
  BY <1>same, <1>18 DEF FreeBuffer
<1>19. CASE OnStopComplete
  BY <1>19 DEF OnStopComplete, SelfIsNext, FreeOperation
<1>20. CASE DrainOperation
  BY <1>same, <1>20 DEF DrainOperation, SelfIsNext, FreeOperation, DropHandler
<1>21. CASE Complete
  BY <1>21 DEF Complete
<1>22. CASE ReleaseTracker
  BY <1>22 DEF ReleaseTracker
<1>23. CASE ForeignContextRuns
  BY <1>same, <1>23 DEF ForeignContextRuns
<1>24. ASSUME NEW c \in Contexts, FreeContext(c)
      PROVE  ContextOwner'
  BY <1>24 DEF FreeContext, OnlyWork
<1>25. CASE CoroutineEnds
  BY <1>same, <1>25 DEF CoroutineEnds, OnlyWork
<1>26. CASE RequestCompletes
  BY <1>26 DEF RequestCompletes
<1>27. CASE ShutdownServer
  BY <1>same, <1>27 DEF ShutdownServer
<1>28. CASE DestroyContext
  BY <1>same, <1>28 DEF DestroyContext
<1>29. CASE InitiateThrows
  BY <1>same, <1>29 DEF InitiateThrows, FreeOperation, DropHandler
<1>30. CASE CoroutineRepeatThrows
  BY <1>30, HolderFacts DEF CoroutineRepeatThrows
<1>31. QED
  BY ONLY [Next]_vars, NextCases, <1>1, <1>2, <1>3, <1>4, <1>5, <1>6, <1>7,
     <1>8, <1>9, <1>10, <1>11, <1>12, <1>13, <1>14, <1>15, <1>16, <1>17, <1>18,
     <1>19, <1>20, <1>21, <1>22, <1>23, <1>24, <1>25, <1>26, <1>27, <1>28,
     <1>29, <1>30

(* Neither the operation nor a coroutine changes the number of buffers that *)
(* are queued.                                                              *)
LEMMA BufferCount ==
    ASSUME TypeOK,
           \/ UNCHANGED queue
           \/ \E x \in {"self", "coroutine"} : queue' = Append(queue, x)
           \/ queue # <<>> /\ Head(queue) # "buffer" /\ queue' = Tail(queue)
    PROVE  UNCHANGED Count("buffer")
<1>0. Count("buffer") \in Nat
  BY CountType
<1>1. CASE UNCHANGED queue
  BY <1>1 DEF Count
<1>2. ASSUME NEW x \in {"self", "coroutine"}, queue' = Append(queue, x)
      PROVE  UNCHANGED Count("buffer")
  BY <1>0, <1>2, CountAppend DEF Entries, CountsBecome, Units
<1>3. CASE queue # <<>> /\ Head(queue) # "buffer" /\ queue' = Tail(queue)
  BY <1>0, <1>3, CountTail DEF CountsBecome, Units
<1>4. QED
  BY <1>1, <1>2, <1>3

(* The buffer is queued with the end of the operation, and freed after the  *)
(* request that lives in it.                                                *)
LEMMA BufferOwnerStep ==
    ASSUME TypeOK, Variants, TrackerLifetime, Continuation, BufferOwner, [Next]_vars
    PROVE  BufferOwner'
<1> USE DEF TypeOK, LoopIsFree, BufferOwner, Units, configVars, startVars,
            handlerVars, serverVars, contextVars, bufferVars
<1>0. /\ Count("self") \in Nat /\ Count("coroutine") \in Nat
      /\ Count("buffer") \in Nat
  BY CountType
<1>same. ASSUME UNCHANGED <<kind, request, buffer_used, buffer, operation,
                           Count("buffer")>>
         PROVE  BufferOwner'
  BY <1>same
<1>1. CASE UNCHANGED vars
  BY <1>1, <1>same, BufferCount DEF vars
<1>2. ASSUME NEW t \in {"loop", "other"}, RepeatedlyRequestInitiator(t)
      PROVE  BufferOwner'
  <2>1. UNCHANGED Count("buffer")
    BY BufferCount, <1>2 DEF RepeatedlyRequestInitiator
  <2>2. QED
    BY <1>2, <2>1, HolderFacts DEF RepeatedlyRequestInitiator, Variants,
       TrackerLifetime
<1>3. CASE InitiateRepeatedlyRequest
  <2>1. UNCHANGED Count("buffer")
    BY BufferCount, <1>3 DEF InitiateRepeatedlyRequest, SpawnRequest,
       RequestWithContext
  <2>2. QED
    BY <1>3, <2>1, HolderFacts DEF InitiateRepeatedlyRequest, SpawnRequest,
       RequestWithContext, Variants
<1>4. CASE RepeatedlyRequestStopFunction
  <2>1. UNCHANGED Count("buffer")
    BY BufferCount, <1>4 DEF RepeatedlyRequestStopFunction, MayEmit
  <2>2. QED
    BY <1>same, <1>4, <2>1 DEF RepeatedlyRequestStopFunction, MayEmit
<1>5. CASE TakeContext
  <2>1. UNCHANGED Count("buffer")
    BY BufferCount, <1>5 DEF TakeContext
  <2>2. QED
    BY <1>5, <2>1, HolderFacts DEF TakeContext, Variants
<1>6. CASE RepeatAndHandle
  <2>1. UNCHANGED Count("buffer")
    BY BufferCount, <1>6 DEF RepeatAndHandle, RequestWithContext
  <2>2. QED
    BY <1>6, <2>1, HolderFacts DEF RepeatAndHandle, RequestWithContext, Variants
<1>7. CASE RepeatThrows
  <2>1. UNCHANGED Count("buffer")
    BY BufferCount, <1>7 DEF RepeatThrows
  <2>2. QED
    BY <1>same, <1>7, <2>1 DEF RepeatThrows
<1>8. CASE RequestHandlerReturns
  <2>1. UNCHANGED Count("buffer")
    BY BufferCount, <1>8 DEF RequestHandlerReturns
  <2>2. QED
    BY <1>same, <1>8, <2>1 DEF RequestHandlerReturns
<1>9. CASE RequestFailed
  <2>1. UNCHANGED Count("buffer")
    BY BufferCount, <1>9 DEF RequestFailed
  <2>2. QED
    BY <1>9, <2>1, HolderFacts DEF RequestFailed, Variants
<1>10. CASE DrainRequest
  <2>1. UNCHANGED Count("buffer")
    BY BufferCount, <1>10 DEF DrainRequest, FreeOperation, DropHandler
  <2>2. QED
    BY <1>10, <2>1, HolderFacts DEF DrainRequest, FreeOperation, DropHandler,
       Variants
<1>11. CASE CoroutineRequests
  <2>1. Count("coroutine") > 0
    BY <1>11, CountHead DEF CoroutineRequests
  <2>2. UNCHANGED Count("buffer")
    BY BufferCount, <1>11 DEF CoroutineRequests
  <2>3. QED
    BY <1>11, <2>1, <2>2, HolderFacts DEF CoroutineRequests, Variants
<1>12. CASE CoroutineNeverStarts
  <2>1. UNCHANGED Count("buffer")
    BY BufferCount, <1>12 DEF CoroutineNeverStarts
  <2>2. QED
    BY <1>same, <1>12, <2>1 DEF CoroutineNeverStarts
<1>13. CASE CoroutineResumes
  <2>1. UNCHANGED Count("buffer")
    BY BufferCount, <1>13 DEF CoroutineResumes
  <2>2. QED
    BY <1>13, <2>1, HolderFacts DEF CoroutineResumes, Variants
<1>14. CASE CoroutineRepeats
  <2>1. UNCHANGED Count("buffer")
    BY BufferCount, <1>14 DEF CoroutineRepeats, SpawnRequest
  <2>2. QED
    BY <1>same, <1>14, <2>1 DEF CoroutineRepeats, SpawnRequest
<1>15. CASE CoroutineSuspends
  <2>1. UNCHANGED Count("buffer")
    BY BufferCount, <1>15 DEF CoroutineSuspends
  <2>2. QED
    BY <1>same, <1>15, <2>1 DEF CoroutineSuspends
<1>16. CASE DestroyCoroutine
  <2>1. Count("buffer")' = Count("buffer") + 1
    BY <1>0, <1>16, CountAppend DEF DestroyCoroutine, FreeOperation,
       DropHandler, Entries, CountsBecome
  <2>2. QED
    BY <1>0, <1>16, <2>1, HolderFacts DEF DestroyCoroutine, FreeOperation,
       DropHandler, Variants
<1>17. CASE RequestDestroyed
  <2>1. UNCHANGED Count("buffer")
    BY BufferCount, <1>17 DEF RequestDestroyed
  <2>2. QED
    BY <1>17, <2>1, HolderFacts DEF RequestDestroyed, Variants
<1>18. CASE FreeBuffer
  <2>1. Count("buffer") > 0
    BY <1>18, CountHead DEF FreeBuffer
  <2>2. Count("buffer")' = Count("buffer") - 1
    BY <1>0, <1>18, CountTail DEF FreeBuffer, CountsBecome
  <2>3. operation = "freed" /\ request = "none"
    BY <1>18, <2>1, HolderFacts DEF FreeBuffer
  <2>4. QED
    BY <1>0, <1>18, <2>1, <2>2, <2>3 DEF FreeBuffer
<1>19. CASE OnStopComplete
  <2>1. Count("self") > 0
    BY <1>19, CountHead DEF OnStopComplete, SelfIsNext, FreeOperation
  <2>2. Count("buffer")' = Count("buffer") + Units(kind = "awaitable")
    BY <1>19, FreeOperationCounts DEF OnStopComplete, SelfIsNext, CountsBecome
  <2>3. QED
    BY <1>0, <1>19, <2>1, <2>2, HolderFacts DEF OnStopComplete, SelfIsNext,
       FreeOperation, Variants
<1>20. CASE DrainOperation
  <2>1. Count("self") > 0
    BY <1>20, CountHead DEF DrainOperation, SelfIsNext, FreeOperation, DropHandler
  <2>2. Count("buffer")' = Count("buffer") + Units(kind = "awaitable")
    BY <1>20, FreeOperationCounts DEF DrainOperation, SelfIsNext, CountsBecome
  <2>3. QED
    BY <1>0, <1>20, <2>1, <2>2, HolderFacts DEF DrainOperation, SelfIsNext,
       FreeOperation, DropHandler, Variants
<1>21. CASE Complete
  <2>1. UNCHANGED Count("buffer")
    BY BufferCount, <1>21 DEF Complete
  <2>2. QED
    BY <1>same, <1>21, <2>1 DEF Complete
<1>22. CASE ReleaseTracker
  <2>1. UNCHANGED Count("buffer")
    BY BufferCount, <1>22 DEF ReleaseTracker
  <2>2. QED
    BY <1>same, <1>22, <2>1 DEF ReleaseTracker
<1>23. CASE ForeignContextRuns
  <2>1. UNCHANGED Count("buffer")
    BY BufferCount, <1>23 DEF ForeignContextRuns
  <2>2. QED
    BY <1>same, <1>23, <2>1 DEF ForeignContextRuns
<1>24. ASSUME NEW c \in Contexts, FreeContext(c)
      PROVE  BufferOwner'
  <2>1. UNCHANGED Count("buffer")
    BY BufferCount, <1>24 DEF FreeContext, OnlyWork
  <2>2. QED
    BY <1>same, <1>24, <2>1 DEF FreeContext, OnlyWork
<1>25. CASE CoroutineEnds
  <2>1. UNCHANGED Count("buffer")
    BY BufferCount, <1>25 DEF CoroutineEnds, OnlyWork
  <2>2. QED
    BY <1>same, <1>25, <2>1 DEF CoroutineEnds, OnlyWork
<1>26. CASE RequestCompletes
  <2>1. UNCHANGED Count("buffer")
    BY BufferCount, <1>26 DEF RequestCompletes
  <2>2. QED
    BY <1>26, <2>1, HolderFacts DEF RequestCompletes, Variants
<1>27. CASE ShutdownServer
  <2>1. UNCHANGED Count("buffer")
    BY BufferCount, <1>27 DEF ShutdownServer
  <2>2. QED
    BY <1>same, <1>27, <2>1 DEF ShutdownServer
<1>28. CASE DestroyContext
  <2>1. UNCHANGED Count("buffer")
    BY BufferCount, <1>28 DEF DestroyContext
  <2>2. QED
    BY <1>same, <1>28, <2>1 DEF DestroyContext
<1>29. CASE InitiateThrows
  <2>1. Count("buffer")' = Count("buffer") + Units(kind = "awaitable")
    <3>1. CASE kind = "awaitable"
      BY <1>0, <1>29, <3>1, CountAppend DEF InitiateThrows, FreeOperation,
         DropHandler, Entries, CountsBecome
    <3>2. CASE kind # "awaitable"
      BY <1>0, <1>29, <3>2 DEF InitiateThrows, FreeOperation, Count
    <3>3. QED
      BY <3>1, <3>2
  <2>2. QED
    BY <1>0, <1>29, <2>1, HolderFacts DEF InitiateThrows, FreeOperation,
       DropHandler, Variants
<1>30. CASE CoroutineRepeatThrows
  <2>1. UNCHANGED Count("buffer")
    BY BufferCount, <1>30 DEF CoroutineRepeatThrows
  <2>2. QED
    BY <1>same, <1>30, <2>1 DEF CoroutineRepeatThrows
<1>31. QED
  BY ONLY [Next]_vars, NextCases, <1>1, <1>2, <1>3, <1>4, <1>5, <1>6, <1>7,
     <1>8, <1>9, <1>10, <1>11, <1>12, <1>13, <1>14, <1>15, <1>16, <1>17, <1>18,
     <1>19, <1>20, <1>21, <1>22, <1>23, <1>24, <1>25, <1>26, <1>27, <1>28,
     <1>29, <1>30

(* Neither the operation nor the buffer changes the number of coroutines    *)
(* that are queued.                                                         *)
LEMMA CoroutineCount ==
    ASSUME TypeOK,
           \/ UNCHANGED queue
           \/ \E x \in {"self", "buffer"} : queue' = Append(queue, x)
           \/ queue # <<>> /\ Head(queue) # "coroutine" /\ queue' = Tail(queue)
    PROVE  UNCHANGED Count("coroutine")
<1>0. Count("coroutine") \in Nat
  BY CountType
<1>1. CASE UNCHANGED queue
  BY <1>1 DEF Count
<1>2. ASSUME NEW x \in {"self", "buffer"}, queue' = Append(queue, x)
      PROVE  UNCHANGED Count("coroutine")
  BY <1>0, <1>2, CountAppend DEF Entries, CountsBecome, Units
<1>3. CASE queue # <<>> /\ Head(queue) # "coroutine" /\ queue' = Tail(queue)
  BY <1>0, <1>3, CountTail DEF CountsBecome, Units
<1>4. QED
  BY <1>1, <1>2, <1>3

(* The summands of WorkAccounting.                                          *)
OperationWork == Units(operation = "alive" \/ loop \in {"invoke", "tracker"})
                 + Units(buffer = "alive")
RequestWork == Units(request # "none")
               + Units(kind = "awaitable" /\ request # "none" /\ loop # "destroying")
EventWork == Units(loop \in {"repeat", "handler"})
             + Units(kind = "awaitable" /\ loop \in {"repeat", "handler"})
TrackerWork == Units(TracksGrpcContext)

(* Work is counted by them.                                                 *)
LEMMA WorkSum ==
    /\ WorkAccounting <=>
          work = OperationWork + RequestWork + EventWork
                 + 2 * Count("coroutine") + handlers + TrackerWork
    /\ WorkAccounting' <=>
          work' = OperationWork' + RequestWork' + EventWork'
                  + 2 * Count("coroutine")' + handlers' + TrackerWork'
    /\ OperationWork \in Int /\ RequestWork \in Int
    /\ EventWork \in Int /\ TrackerWork \in Int
<1> USE DEF Units
<1>1. /\ OperationWork \in Int /\ RequestWork \in Int
      /\ EventWork \in Int /\ TrackerWork \in Int
  BY DEF OperationWork, RequestWork, EventWork, TrackerWork
<1>2. QED
  BY <1>1 DEF WorkAccounting, OperationWork, RequestWork, EventWork, TrackerWork

(* Every step counts what it starts and uncounts what it ends.              *)
LEMMA WorkStep ==
    ASSUME TypeOK, Variants, TrackerLifetime, Continuation, Memory, WorkAccounting, [Next]_vars
    PROVE  WorkAccounting'
<1> USE DEF TypeOK, LoopIsFree, configVars, startVars, handlerVars, serverVars,
            contextVars, bufferVars
<1>0. /\ work = OperationWork + RequestWork + EventWork
                 + 2 * Count("coroutine") + handlers + TrackerWork
      /\ OperationWork \in Int /\ RequestWork \in Int
      /\ EventWork \in Int /\ TrackerWork \in Int
      /\ Count("coroutine") \in Nat /\ handlers \in Int
      /\ WorkAccounting' <=>
            work' = OperationWork' + RequestWork' + EventWork'
                    + 2 * Count("coroutine")' + handlers' + TrackerWork'
  BY CountType, WorkSum
<1>same. ASSUME UNCHANGED <<kind, executor, operation, loop, buffer, request,
                           handlers, tracker, work, Count("coroutine")>>
         PROVE  WorkAccounting'
  BY <1>same DEF WorkAccounting, TracksGrpcContext
<1>1. CASE UNCHANGED vars
  BY <1>1, <1>same, CoroutineCount DEF vars
<1>2. ASSUME NEW t \in {"loop", "other"}, RepeatedlyRequestInitiator(t)
      PROVE  WorkAccounting'
  <2>1. /\ Units(kind = "awaitable") \in Int
        /\ Units(executor = "grpc") \in Int
    BY DEF Units
  <2>2. tracker' <=> executor # "inline"
    BY <1>2, Zenon DEF RepeatedlyRequestInitiator
  <2>3. OperationWork' = OperationWork + 1 + Units(kind = "awaitable")
    BY <1>2, <2>1, <2>2, HolderFacts DEF OperationWork, Units, Variants,
       TrackerLifetime, TracksGrpcContext, RepeatedlyRequestInitiator
  <2>4. TrackerWork' = TrackerWork + Units(executor = "grpc")
    BY <1>2, <2>1, <2>2, HolderFacts DEF TrackerWork, Units, Variants,
       TrackerLifetime, TracksGrpcContext, RepeatedlyRequestInitiator
  <2>5. UNCHANGED <<RequestWork, EventWork>>
    BY <1>2, <2>1, <2>2, HolderFacts DEF RequestWork, EventWork, Units, Variants,
       TrackerLifetime, TracksGrpcContext, RepeatedlyRequestInitiator
  <2>6. UNCHANGED Count("coroutine")
    BY CoroutineCount, <1>2 DEF RepeatedlyRequestInitiator
  <2>7. work' = work + 1 + Units(kind = "awaitable") + Units(executor = "grpc") /\ UNCHANGED handlers
    BY <1>2 DEF RepeatedlyRequestInitiator
  <2>8. QED
    BY ONLY <1>0, <2>1, <2>2, <2>3, <2>4, <2>5, <2>6, <2>7
<1>3. CASE InitiateRepeatedlyRequest
  <2>1. CASE stopped
    <3>1. UNCHANGED <<OperationWork, RequestWork, EventWork, TrackerWork>>
      BY <1>3, <2>1, HolderFacts DEF OperationWork, RequestWork, EventWork,
         TrackerWork, Units, Variants, TracksGrpcContext, InitiateRepeatedlyRequest
    <3>2. UNCHANGED Count("coroutine")
      BY CoroutineCount, <1>3, <2>1 DEF InitiateRepeatedlyRequest
    <3>3. UNCHANGED <<work, handlers>>
      BY <1>3, <2>1 DEF InitiateRepeatedlyRequest
    <3>4. QED
      BY ONLY <1>0, <3>1, <3>2, <3>3
  <2>2. CASE ~stopped /\ kind = "handler"
    <3>1. RequestWork' = RequestWork + 1
      BY <1>3, <2>2, HolderFacts DEF RequestWork, Units, Variants,
         TracksGrpcContext, RequestWithContext, InitiateRepeatedlyRequest
    <3>2. UNCHANGED <<OperationWork, EventWork, TrackerWork>>
      BY <1>3, <2>2, HolderFacts DEF OperationWork, EventWork, TrackerWork, Units,
         Variants, TracksGrpcContext, RequestWithContext, InitiateRepeatedlyRequest
    <3>3. UNCHANGED Count("coroutine")
      BY CoroutineCount, <1>3, <2>2 DEF InitiateRepeatedlyRequest
    <3>4. work' = work + 1 /\ UNCHANGED handlers
      BY <1>3, <2>2 DEF InitiateRepeatedlyRequest, RequestWithContext
    <3>5. QED
      BY ONLY <1>0, <3>1, <3>2, <3>3, <3>4
  <2>3. CASE ~stopped /\ kind = "awaitable"
    <3>1. UNCHANGED <<OperationWork, RequestWork, EventWork, TrackerWork>>
      BY <1>3, <2>3, HolderFacts DEF OperationWork, RequestWork, EventWork,
         TrackerWork, Units, Variants, TracksGrpcContext, InitiateRepeatedlyRequest
    <3>2. Count("coroutine")' = Count("coroutine") + 1
      BY <1>0, <1>3, <2>3, CountAppend
         DEF InitiateRepeatedlyRequest, SpawnRequest, Entries, CountsBecome, Units
    <3>3. work' = work + 2 /\ UNCHANGED handlers
      BY <1>3, <2>3 DEF InitiateRepeatedlyRequest, SpawnRequest
    <3>4. QED
      BY ONLY <1>0, <3>1, <3>2, <3>3
  <2>4. QED
    BY <2>1, <2>2, <2>3
<1>4. CASE RepeatedlyRequestStopFunction
  <2>1. UNCHANGED Count("coroutine")
    BY CoroutineCount, <1>4 DEF RepeatedlyRequestStopFunction, MayEmit
  <2>2. QED
    BY <1>same, <1>4, <2>1 DEF RepeatedlyRequestStopFunction, MayEmit
<1>5. CASE TakeContext
  <2>1. RequestWork' = RequestWork - 1
    BY <1>5, HolderFacts DEF RequestWork, Units, Variants, TracksGrpcContext,
       TakeContext
  <2>2. EventWork' = EventWork + 1
    BY <1>5, HolderFacts DEF EventWork, Units, Variants, TracksGrpcContext,
       TakeContext
  <2>3. UNCHANGED <<OperationWork, TrackerWork>>
    BY <1>5, HolderFacts DEF OperationWork, TrackerWork, Units, Variants,
       TracksGrpcContext, TakeContext
  <2>4. UNCHANGED Count("coroutine")
    BY CoroutineCount, <1>5 DEF TakeContext
  <2>5. UNCHANGED <<work, handlers>>
    BY <1>5 DEF TakeContext
  <2>6. QED
    BY ONLY <1>0, <2>1, <2>2, <2>3, <2>4, <2>5
<1>6. CASE RepeatAndHandle
  <2>1. CASE stopped
    <3>1. UNCHANGED <<OperationWork, RequestWork, EventWork, TrackerWork>>
      BY <1>6, <2>1, HolderFacts DEF OperationWork, RequestWork, EventWork,
         TrackerWork, Units, Variants, TracksGrpcContext, RepeatAndHandle
    <3>2. UNCHANGED Count("coroutine")
      BY CoroutineCount, <1>6, <2>1 DEF RepeatAndHandle
    <3>3. UNCHANGED <<work, handlers>>
      BY <1>6, <2>1 DEF RepeatAndHandle
    <3>4. QED
      BY ONLY <1>0, <3>1, <3>2, <3>3
  <2>2. CASE ~stopped
    <3>1. RequestWork' = RequestWork + 1
      BY <1>6, <2>2, HolderFacts DEF RequestWork, Units, Variants,
         TracksGrpcContext, RequestWithContext, RepeatAndHandle
    <3>2. UNCHANGED <<OperationWork, EventWork, TrackerWork>>
      BY <1>6, <2>2, HolderFacts DEF OperationWork, EventWork, TrackerWork, Units,
         Variants, TracksGrpcContext, RequestWithContext, RepeatAndHandle
    <3>3. UNCHANGED Count("coroutine")
      BY CoroutineCount, <1>6, <2>2 DEF RepeatAndHandle
    <3>4. work' = work + 1 /\ UNCHANGED handlers
      BY <1>6, <2>2 DEF RepeatAndHandle, RequestWithContext
    <3>5. QED
      BY ONLY <1>0, <3>1, <3>2, <3>3, <3>4
  <2>3. QED
    BY <2>1, <2>2
<1>7. CASE RepeatThrows
  <2>1. EventWork' = EventWork - 1
    BY <1>7, HolderFacts DEF EventWork, Units, Variants, TracksGrpcContext,
       RepeatThrows
  <2>2. UNCHANGED <<OperationWork, RequestWork, TrackerWork>>
    BY <1>7, HolderFacts DEF OperationWork, RequestWork, TrackerWork, Units,
       Variants, TracksGrpcContext, RepeatThrows
  <2>3. UNCHANGED Count("coroutine")
    BY CoroutineCount, <1>7 DEF RepeatThrows
  <2>4. work' = work - 1 /\ UNCHANGED handlers
    BY <1>7 DEF RepeatThrows
  <2>5. QED
    BY ONLY <1>0, <2>1, <2>2, <2>3, <2>4
<1>8. CASE RequestHandlerReturns
  <2>1. EventWork' = EventWork - 1
    BY <1>8, HolderFacts DEF EventWork, Units, Variants, TracksGrpcContext,
       RequestHandlerReturns
  <2>2. UNCHANGED <<OperationWork, RequestWork, TrackerWork>>
    BY <1>8, HolderFacts DEF OperationWork, RequestWork, TrackerWork, Units,
       Variants, TracksGrpcContext, RequestHandlerReturns
  <2>3. UNCHANGED Count("coroutine")
    BY CoroutineCount, <1>8 DEF RequestHandlerReturns
  <2>4. work' = work - 1 /\ UNCHANGED handlers
    BY <1>8 DEF RequestHandlerReturns
  <2>5. QED
    BY ONLY <1>0, <2>1, <2>2, <2>3, <2>4
<1>9. CASE RequestFailed
  <2>1. RequestWork' = RequestWork - 1
    BY <1>9, HolderFacts DEF RequestWork, Units, Variants, TracksGrpcContext,
       RequestFailed
  <2>2. UNCHANGED <<OperationWork, EventWork, TrackerWork>>
    BY <1>9, HolderFacts DEF OperationWork, EventWork, TrackerWork, Units,
       Variants, TracksGrpcContext, RequestFailed
  <2>3. UNCHANGED Count("coroutine")
    BY CoroutineCount, <1>9 DEF RequestFailed
  <2>4. work' = work - 1 /\ UNCHANGED handlers
    BY <1>9 DEF RequestFailed
  <2>5. QED
    BY ONLY <1>0, <2>1, <2>2, <2>3, <2>4
<1>10. CASE DrainRequest
  <2>1. OperationWork' = OperationWork - 1
    BY <1>10, HolderFacts DEF OperationWork, Units, Variants, TracksGrpcContext,
       FreeOperation, DropHandler, DrainRequest
  <2>2. RequestWork' = RequestWork - 1
    BY <1>10, HolderFacts DEF RequestWork, Units, Variants, TracksGrpcContext,
       FreeOperation, DropHandler, DrainRequest
  <2>3. TrackerWork' = TrackerWork - Units(TracksGrpcContext)
    BY <1>10, HolderFacts DEF TrackerWork, Units, Variants, TracksGrpcContext,
       FreeOperation, DropHandler, DrainRequest
  <2>4. UNCHANGED <<EventWork>>
    BY <1>10, HolderFacts DEF EventWork, Units, Variants, TracksGrpcContext,
       FreeOperation, DropHandler, DrainRequest
  <2>5. UNCHANGED Count("coroutine")
    BY CoroutineCount, <1>10 DEF DrainRequest, FreeOperation
  <2>6. work' = work - 2 - Units(TracksGrpcContext) /\ UNCHANGED handlers
    BY <1>10 DEF DrainRequest
  <2>7. QED
    BY ONLY <1>0, <2>1, <2>2, <2>3, <2>4, <2>5, <2>6 DEF TrackerWork
<1>11. CASE CoroutineRequests
  <2>1. Count("coroutine") > 0
    BY <1>11, CountHead DEF CoroutineRequests
  <2>2. RequestWork' = RequestWork + 2
    BY <1>11, <2>1, HolderFacts DEF RequestWork, Units, Variants,
       TracksGrpcContext, CoroutineRequests
  <2>3. UNCHANGED <<OperationWork, EventWork, TrackerWork>>
    BY <1>11, <2>1, HolderFacts DEF OperationWork, EventWork, TrackerWork, Units,
       Variants, TracksGrpcContext, CoroutineRequests
  <2>4. Count("coroutine")' = Count("coroutine") - 1
    BY <1>0, <1>11, CountTail DEF CoroutineRequests, CountsBecome, Units
  <2>5. UNCHANGED <<work, handlers>>
    BY <1>11 DEF CoroutineRequests
  <2>6. QED
    BY ONLY <1>0, <2>2, <2>3, <2>4, <2>5
<1>12. CASE CoroutineNeverStarts
  <2>1. Count("coroutine") > 0
    BY <1>12, CountHead DEF CoroutineNeverStarts
  <2>2. UNCHANGED <<OperationWork, RequestWork, EventWork, TrackerWork>>
    BY <1>12, <2>1, HolderFacts DEF OperationWork, RequestWork, EventWork,
       TrackerWork, Units, Variants, TracksGrpcContext, CoroutineNeverStarts
  <2>3. Count("coroutine")' = Count("coroutine") - 1
    BY <1>0, <1>12, CountTail DEF CoroutineNeverStarts, CountsBecome, Units
  <2>4. work' = work - 2 /\ UNCHANGED handlers
    BY <1>12 DEF CoroutineNeverStarts
  <2>5. QED
    BY ONLY <1>0, <2>2, <2>3, <2>4
<1>13. CASE CoroutineResumes
  <2>1. CASE request = "ok"
    <3>1. RequestWork' = RequestWork - 2
      BY <1>13, <2>1, HolderFacts DEF RequestWork, Units, Variants,
         TracksGrpcContext, CoroutineResumes
    <3>2. EventWork' = EventWork + 2
      BY <1>13, <2>1, HolderFacts DEF EventWork, Units, Variants,
         TracksGrpcContext, CoroutineResumes
    <3>3. UNCHANGED <<OperationWork, TrackerWork>>
      BY <1>13, <2>1, HolderFacts DEF OperationWork, TrackerWork, Units, Variants,
         TracksGrpcContext, CoroutineResumes
    <3>4. UNCHANGED Count("coroutine")
      BY CoroutineCount, <1>13, <2>1 DEF CoroutineResumes
    <3>5. UNCHANGED <<work, handlers>>
      BY <1>13, <2>1 DEF CoroutineResumes
    <3>6. QED
      BY ONLY <1>0, <3>1, <3>2, <3>3, <3>4, <3>5
  <2>2. CASE request # "ok"
    <3>1. RequestWork' = RequestWork - 2
      BY <1>13, <2>2, HolderFacts DEF RequestWork, Units, Variants,
         TracksGrpcContext, CoroutineResumes
    <3>2. UNCHANGED <<OperationWork, EventWork, TrackerWork>>
      BY <1>13, <2>2, HolderFacts DEF OperationWork, EventWork, TrackerWork, Units,
         Variants, TracksGrpcContext, CoroutineResumes
    <3>3. UNCHANGED Count("coroutine")
      BY CoroutineCount, <1>13, <2>2 DEF CoroutineResumes
    <3>4. work' = work - 2 /\ UNCHANGED handlers
      BY <1>13, <2>2 DEF CoroutineResumes
    <3>5. QED
      BY ONLY <1>0, <3>1, <3>2, <3>3, <3>4
  <2>3. QED
    BY <2>1, <2>2
<1>14. CASE CoroutineRepeats
  <2>1. CASE stopped
    <3>1. UNCHANGED <<OperationWork, RequestWork, EventWork, TrackerWork>>
      BY <1>14, <2>1, HolderFacts DEF OperationWork, RequestWork, EventWork,
         TrackerWork, Units, Variants, TracksGrpcContext, CoroutineRepeats
    <3>2. UNCHANGED Count("coroutine")
      BY CoroutineCount, <1>14, <2>1 DEF CoroutineRepeats
    <3>3. UNCHANGED <<work, handlers>>
      BY <1>14, <2>1 DEF CoroutineRepeats
    <3>4. QED
      BY ONLY <1>0, <3>1, <3>2, <3>3
  <2>2. CASE ~stopped
    <3>1. UNCHANGED <<OperationWork, RequestWork, EventWork, TrackerWork>>
      BY <1>14, <2>2, HolderFacts DEF OperationWork, RequestWork, EventWork,
         TrackerWork, Units, Variants, TracksGrpcContext, CoroutineRepeats
    <3>2. Count("coroutine")' = Count("coroutine") + 1
      BY <1>0, <1>14, <2>2, CountAppend
         DEF CoroutineRepeats, SpawnRequest, Entries, CountsBecome, Units
    <3>3. work' = work + 2 /\ UNCHANGED handlers
      BY <1>14, <2>2 DEF CoroutineRepeats, SpawnRequest
    <3>4. QED
      BY ONLY <1>0, <3>1, <3>2, <3>3
  <2>3. QED
    BY <2>1, <2>2
<1>15. CASE CoroutineSuspends
  <2>1. EventWork' = EventWork - 2
    BY <1>15, HolderFacts DEF EventWork, Units, Variants, TracksGrpcContext,
       CoroutineSuspends
  <2>2. UNCHANGED <<OperationWork, RequestWork, TrackerWork>>
    BY <1>15, HolderFacts DEF OperationWork, RequestWork, TrackerWork, Units,
       Variants, TracksGrpcContext, CoroutineSuspends
  <2>3. UNCHANGED Count("coroutine")
    BY CoroutineCount, <1>15 DEF CoroutineSuspends
  <2>4. work' = work - 1 /\ handlers' = handlers + 1
    BY <1>15 DEF CoroutineSuspends
  <2>5. QED
    BY ONLY <1>0, <2>1, <2>2, <2>3, <2>4
<1>16. CASE DestroyCoroutine
  <2>1. OperationWork' = OperationWork - 1
    BY <1>16, HolderFacts DEF OperationWork, Units, Variants, TracksGrpcContext,
       FreeOperation, DropHandler, DestroyCoroutine
  <2>2. RequestWork' = RequestWork - 1
    BY <1>16, HolderFacts DEF RequestWork, Units, Variants, TracksGrpcContext,
       FreeOperation, DropHandler, DestroyCoroutine
  <2>3. TrackerWork' = TrackerWork - Units(TracksGrpcContext)
    BY <1>16, HolderFacts DEF TrackerWork, Units, Variants, TracksGrpcContext,
       FreeOperation, DropHandler, DestroyCoroutine
  <2>4. UNCHANGED <<EventWork>>
    BY <1>16, HolderFacts DEF EventWork, Units, Variants, TracksGrpcContext,
       FreeOperation, DropHandler, DestroyCoroutine
  <2>5. UNCHANGED Count("coroutine")
    BY CoroutineCount, <1>16 DEF DestroyCoroutine, FreeOperation
  <2>6. work' = work - 2 - Units(TracksGrpcContext) /\ UNCHANGED handlers
    BY <1>16 DEF DestroyCoroutine
  <2>7. QED
    BY ONLY <1>0, <2>1, <2>2, <2>3, <2>4, <2>5, <2>6 DEF TrackerWork
<1>17. CASE RequestDestroyed
  <2>1. RequestWork' = RequestWork - 1
    BY <1>17, HolderFacts DEF RequestWork, Units, Variants, TracksGrpcContext,
       RequestDestroyed
  <2>2. UNCHANGED <<OperationWork, EventWork, TrackerWork>>
    BY <1>17, HolderFacts DEF OperationWork, EventWork, TrackerWork, Units,
       Variants, TracksGrpcContext, RequestDestroyed
  <2>3. UNCHANGED Count("coroutine")
    BY CoroutineCount, <1>17 DEF RequestDestroyed
  <2>4. work' = work - 1 /\ UNCHANGED handlers
    BY <1>17 DEF RequestDestroyed
  <2>5. QED
    BY ONLY <1>0, <2>1, <2>2, <2>3, <2>4
<1>18. CASE FreeBuffer
  <2>1. Count("buffer") > 0
    BY <1>18, CountHead DEF FreeBuffer
  <2>2. OperationWork' = OperationWork - 1
    BY <1>18, <2>1, HolderFacts DEF OperationWork, Units, Variants,
       TracksGrpcContext, Memory, BufferOwner, FreeBuffer
  <2>3. UNCHANGED <<RequestWork, EventWork, TrackerWork>>
    BY <1>18, <2>1, HolderFacts DEF RequestWork, EventWork, TrackerWork, Units,
       Variants, TracksGrpcContext, Memory, BufferOwner, FreeBuffer
  <2>4. UNCHANGED Count("coroutine")
    BY CoroutineCount, <1>18 DEF FreeBuffer
  <2>5. work' = work - 1 /\ UNCHANGED handlers
    BY <1>18 DEF FreeBuffer
  <2>6. QED
    BY ONLY <1>0, <2>2, <2>3, <2>4, <2>5
<1>19. CASE OnStopComplete
  <2>1. Count("self") > 0
    BY <1>19, CountHead DEF OnStopComplete, SelfIsNext, FreeOperation
  <2>2. UNCHANGED <<OperationWork, RequestWork, EventWork, TrackerWork>>
    BY <1>19, <2>1, HolderFacts DEF OperationWork, RequestWork, EventWork,
       TrackerWork, Units, Variants, TracksGrpcContext, SelfIsNext,
       FreeOperation, OnStopComplete
  <2>3. UNCHANGED Count("coroutine")
    BY <1>19, FreeOperationCounts DEF OnStopComplete, SelfIsNext, CountsBecome
  <2>4. UNCHANGED <<work, handlers>>
    BY <1>19 DEF OnStopComplete
  <2>5. QED
    BY ONLY <1>0, <2>2, <2>3, <2>4
<1>20. CASE DrainOperation
  <2>1. Count("self") > 0
    BY <1>20, CountHead DEF DrainOperation, SelfIsNext, FreeOperation, DropHandler
  <2>2. OperationWork' = OperationWork - 1
    BY <1>20, <2>1, HolderFacts DEF OperationWork, Units, Variants,
       TracksGrpcContext, SelfIsNext, FreeOperation, DropHandler, DrainOperation
  <2>3. TrackerWork' = TrackerWork - Units(TracksGrpcContext)
    BY <1>20, <2>1, HolderFacts DEF TrackerWork, Units, Variants,
       TracksGrpcContext, SelfIsNext, FreeOperation, DropHandler, DrainOperation
  <2>4. UNCHANGED <<RequestWork, EventWork>>
    BY <1>20, <2>1, HolderFacts DEF RequestWork, EventWork, Units, Variants,
       TracksGrpcContext, SelfIsNext, FreeOperation, DropHandler, DrainOperation
  <2>5. UNCHANGED Count("coroutine")
    BY <1>20, FreeOperationCounts DEF DrainOperation, SelfIsNext, CountsBecome
  <2>6. work' = work - 1 - Units(TracksGrpcContext) /\ UNCHANGED handlers
    BY <1>20 DEF DrainOperation
  <2>7. QED
    BY ONLY <1>0, <2>2, <2>3, <2>4, <2>5, <2>6 DEF TrackerWork
<1>21. CASE Complete
  <2>1. UNCHANGED <<OperationWork, RequestWork, EventWork, TrackerWork>>
    BY <1>21, HolderFacts DEF OperationWork, RequestWork, EventWork, TrackerWork,
       Units, Variants, TracksGrpcContext, Complete
  <2>2. UNCHANGED Count("coroutine")
    BY CoroutineCount, <1>21 DEF Complete
  <2>3. UNCHANGED <<work, handlers>>
    BY <1>21 DEF Complete
  <2>4. QED
    BY ONLY <1>0, <2>1, <2>2, <2>3
<1>22. CASE ReleaseTracker
  <2>1. OperationWork' = OperationWork - 1
    BY <1>22, HolderFacts DEF OperationWork, Units, Variants, TracksGrpcContext,
       TrackerLifetime, ReleaseTracker
  <2>2. TrackerWork' = TrackerWork - Units(TracksGrpcContext)
    BY <1>22, HolderFacts DEF TrackerWork, Units, Variants, TracksGrpcContext,
       TrackerLifetime, ReleaseTracker
  <2>3. UNCHANGED <<RequestWork, EventWork>>
    BY <1>22, HolderFacts DEF RequestWork, EventWork, Units, Variants,
       TracksGrpcContext, TrackerLifetime, ReleaseTracker
  <2>4. UNCHANGED Count("coroutine")
    BY CoroutineCount, <1>22 DEF ReleaseTracker
  <2>5. work' = work - 1 - Units(TracksGrpcContext) /\ UNCHANGED handlers
    BY <1>22 DEF ReleaseTracker
  <2>6. QED
    BY ONLY <1>0, <2>1, <2>2, <2>3, <2>4, <2>5 DEF TrackerWork
<1>23. CASE ForeignContextRuns
  <2>1. UNCHANGED Count("coroutine")
    BY CoroutineCount, <1>23 DEF ForeignContextRuns
  <2>2. QED
    BY <1>same, <1>23, <2>1 DEF ForeignContextRuns
<1>24. ASSUME NEW c \in Contexts, FreeContext(c)
      PROVE  WorkAccounting'
  <2>1. UNCHANGED Count("coroutine")
    BY CoroutineCount, <1>24 DEF FreeContext, OnlyWork
  <2>2. QED
    BY <1>same, <1>24, <2>1 DEF FreeContext, OnlyWork
<1>25. CASE CoroutineEnds
  <2>1. UNCHANGED <<OperationWork, RequestWork, EventWork, TrackerWork>>
    BY <1>25, HolderFacts DEF OperationWork, RequestWork, EventWork, TrackerWork,
       Units, Variants, TracksGrpcContext, OnlyWork, CoroutineEnds
  <2>2. UNCHANGED Count("coroutine")
    BY CoroutineCount, <1>25 DEF CoroutineEnds, OnlyWork
  <2>3. work' = work - 1 /\ handlers' = handlers - 1
    BY <1>25 DEF CoroutineEnds, OnlyWork
  <2>4. QED
    BY ONLY <1>0, <2>1, <2>2, <2>3
<1>26. CASE RequestCompletes
  <2>1. UNCHANGED <<OperationWork, RequestWork, EventWork, TrackerWork>>
    BY <1>26, HolderFacts DEF OperationWork, RequestWork, EventWork, TrackerWork,
       Units, Variants, TracksGrpcContext, RequestCompletes
  <2>2. UNCHANGED Count("coroutine")
    BY CoroutineCount, <1>26 DEF RequestCompletes
  <2>3. UNCHANGED <<work, handlers>>
    BY <1>26 DEF RequestCompletes
  <2>4. QED
    BY ONLY <1>0, <2>1, <2>2, <2>3
<1>27. CASE ShutdownServer
  <2>1. UNCHANGED Count("coroutine")
    BY CoroutineCount, <1>27 DEF ShutdownServer
  <2>2. QED
    BY <1>same, <1>27, <2>1 DEF ShutdownServer
<1>28. CASE DestroyContext
  <2>1. UNCHANGED Count("coroutine")
    BY CoroutineCount, <1>28 DEF DestroyContext
  <2>2. QED
    BY <1>same, <1>28, <2>1 DEF DestroyContext
<1>29. CASE InitiateThrows
  <2>1. OperationWork' = OperationWork - 1
    BY <1>29, HolderFacts DEF OperationWork, Units, Variants, TrackerLifetime,
       TracksGrpcContext, FreeOperation, DropHandler, InitiateThrows
  <2>2. TrackerWork' = TrackerWork - Units(TracksGrpcContext)
    BY <1>29, HolderFacts DEF TrackerWork, Units, Variants,
       TracksGrpcContext, FreeOperation, DropHandler, InitiateThrows
  <2>3. UNCHANGED <<RequestWork, EventWork>>
    BY <1>29, HolderFacts DEF RequestWork, EventWork, Units, Variants,
       TracksGrpcContext, FreeOperation, DropHandler, InitiateThrows
  <2>4. UNCHANGED Count("coroutine")
    <3>1. UNCHANGED queue \/ queue' = Append(queue, "buffer")
      BY <1>29 DEF InitiateThrows, FreeOperation
    <3>2. QED
      BY CoroutineCount, <3>1
  <2>5. work' = work - 1 - Units(TracksGrpcContext) /\ UNCHANGED handlers
    BY <1>29 DEF InitiateThrows
  <2>6. Units(TracksGrpcContext) \in Int
    BY DEF Units
  <2>7. QED
    BY ONLY <1>0, <2>1, <2>2, <2>3, <2>4, <2>5, <2>6
<1>30. CASE CoroutineRepeatThrows
  <2>1. EventWork' = EventWork - 2
    BY <1>30, HolderFacts DEF EventWork, Units, Variants, TracksGrpcContext,
       CoroutineRepeatThrows
  <2>2. UNCHANGED <<OperationWork, RequestWork, TrackerWork>>
    BY <1>30, HolderFacts DEF OperationWork, RequestWork, TrackerWork, Units,
       Variants, TracksGrpcContext, CoroutineRepeatThrows
  <2>3. UNCHANGED Count("coroutine")
    BY CoroutineCount, <1>30 DEF CoroutineRepeatThrows
  <2>4. work' = work - 2 /\ UNCHANGED handlers
    BY <1>30 DEF CoroutineRepeatThrows
  <2>5. QED
    BY ONLY <1>0, <2>1, <2>2, <2>3, <2>4
<1>31. QED
  BY ONLY [Next]_vars, NextCases, <1>1, <1>2, <1>3, <1>4, <1>5, <1>6, <1>7,
     <1>8, <1>9, <1>10, <1>11, <1>12, <1>13, <1>14, <1>15, <1>16, <1>17, <1>18,
     <1>19, <1>20, <1>21, <1>22, <1>23, <1>24, <1>25, <1>26, <1>27, <1>28,
     <1>29, <1>30

(* The parts of TypeOK: the flags, ...                                      *)
Flags ==
    /\ abandoned \in BOOLEAN /\ stopped \in BOOLEAN /\ tracker \in BOOLEAN
    /\ buffer_used \in BOOLEAN
    /\ server_shutdown \in BOOLEAN /\ draining \in BOOLEAN

(* ... and what is not counted.                                             *)
States ==
    /\ kind \in {"handler", "awaitable"}
    /\ executor \in {"grpc", "inline", "foreign"}
    /\ starting \in {"idle", "initiate", "done"}
    /\ starter \in {"loop", "other"}
    /\ operation \in {"none", "alive", "freed"}
    /\ request \in {"none", "pending", "ok", "failed"}
    /\ rpc_context \in Contexts \cup {None}
    /\ buffer \in {"none", "alive", "freed"}
    /\ handlers \in 0..MaxHandlers
    /\ loop \in LoopSteps
    /\ invoked \in {"no", "posted", "yes", "dropped"}

Containers ==
    /\ owner \in [Contexts -> {"free", "request", "loop", "handler"}]
    /\ queue \in Seq(Entries)

(* TypeOK is these, with the two counters.                                  *)
LEMMA TypeParts ==
    /\ TypeOK <=> /\ Flags /\ States /\ Containers
                  /\ work \in Nat /\ foreign_work \in 0..2
    /\ TypeOK' <=> /\ Flags' /\ States' /\ Containers'
                   /\ work' \in Nat /\ foreign_work' \in 0..2
  BY DEF TypeOK, Flags, States, Containers, Entries

(* The flags remain flags.                                                  *)
LEMMA FlagsStep ==
    ASSUME Flags, [Next]_vars
    PROVE  Flags'
<1> USE DEF Flags, configVars, startVars, handlerVars, serverVars, contextVars,
            bufferVars
<1>1. CASE UNCHANGED vars
  BY <1>1, Zenon DEF vars
<1>2. ASSUME NEW t \in {"loop", "other"}, RepeatedlyRequestInitiator(t)
      PROVE  Flags'
  BY <1>2, Zenon DEF RepeatedlyRequestInitiator
<1>3. CASE InitiateRepeatedlyRequest
  BY <1>3, Zenon DEF InitiateRepeatedlyRequest, SpawnRequest,
     RequestWithContext
<1>4. CASE RepeatedlyRequestStopFunction
  BY <1>4, Zenon DEF RepeatedlyRequestStopFunction, MayEmit
<1>5. CASE TakeContext
  BY <1>5, Zenon DEF TakeContext
<1>6. CASE RepeatAndHandle
  BY <1>6, Zenon DEF RepeatAndHandle, RequestWithContext
<1>7. CASE RepeatThrows
  BY <1>7, Zenon DEF RepeatThrows
<1>8. CASE RequestHandlerReturns
  BY <1>8, Zenon DEF RequestHandlerReturns
<1>9. CASE RequestFailed
  BY <1>9, Zenon DEF RequestFailed
<1>10. CASE DrainRequest
  BY <1>10, Zenon DEF DrainRequest, FreeOperation, DropHandler
<1>11. CASE CoroutineRequests
  BY <1>11, Zenon DEF CoroutineRequests
<1>12. CASE CoroutineNeverStarts
  BY <1>12, Zenon DEF CoroutineNeverStarts
<1>13. CASE CoroutineResumes
  BY <1>13, Zenon DEF CoroutineResumes
<1>14. CASE CoroutineRepeats
  BY <1>14, Zenon DEF CoroutineRepeats, SpawnRequest
<1>15. CASE CoroutineSuspends
  BY <1>15, Zenon DEF CoroutineSuspends
<1>16. CASE DestroyCoroutine
  BY <1>16, Zenon DEF DestroyCoroutine, FreeOperation, DropHandler
<1>17. CASE RequestDestroyed
  BY <1>17, Zenon DEF RequestDestroyed
<1>18. CASE FreeBuffer
  BY <1>18, Zenon DEF FreeBuffer
<1>19. CASE OnStopComplete
  BY <1>19, Zenon DEF OnStopComplete, SelfIsNext, FreeOperation
<1>20. CASE DrainOperation
  BY <1>20, Zenon DEF DrainOperation, SelfIsNext, FreeOperation, DropHandler
<1>21. CASE Complete
  BY <1>21, Zenon DEF Complete
<1>22. CASE ReleaseTracker
  BY <1>22, Zenon DEF ReleaseTracker
<1>23. CASE ForeignContextRuns
  BY <1>23, Zenon DEF ForeignContextRuns
<1>24. ASSUME NEW c \in Contexts, FreeContext(c)
      PROVE  Flags'
  BY <1>24, Zenon DEF FreeContext, OnlyWork
<1>25. CASE CoroutineEnds
  BY <1>25, Zenon DEF CoroutineEnds, OnlyWork
<1>26. CASE RequestCompletes
  BY <1>26, Zenon DEF RequestCompletes
<1>27. CASE ShutdownServer
  BY <1>27, Zenon DEF ShutdownServer
<1>28. CASE DestroyContext
  BY <1>28, Zenon DEF DestroyContext
<1>29. CASE InitiateThrows
  BY <1>29, Zenon DEF InitiateThrows, FreeOperation, DropHandler
<1>30. CASE CoroutineRepeatThrows
  BY <1>30, Zenon DEF CoroutineRepeatThrows
<1>31. QED
  BY ONLY [Next]_vars, NextCases, <1>1, <1>2, <1>3, <1>4, <1>5, <1>6, <1>7,
     <1>8, <1>9, <1>10, <1>11, <1>12, <1>13, <1>14, <1>15, <1>16, <1>17, <1>18,
     <1>19, <1>20, <1>21, <1>22, <1>23, <1>24, <1>25, <1>26, <1>27, <1>28,
     <1>29, <1>30

(* The states remain within their sets.                                     *)
LEMMA StatesStep ==
    ASSUME States, HandlersFit, [Next]_vars
    PROVE  States'
<1> USE DEF States, LoopSteps, configVars, startVars, handlerVars, serverVars,
            contextVars, bufferVars
<1>1. CASE UNCHANGED vars
  BY <1>1 DEF vars
<1>2. ASSUME NEW t \in {"loop", "other"}, RepeatedlyRequestInitiator(t)
      PROVE  States'
  BY <1>2 DEF RepeatedlyRequestInitiator
<1>3. CASE InitiateRepeatedlyRequest
  BY <1>3 DEF InitiateRepeatedlyRequest, SpawnRequest, RequestWithContext
<1>4. CASE RepeatedlyRequestStopFunction
  BY <1>4 DEF RepeatedlyRequestStopFunction, MayEmit
<1>5. CASE TakeContext
  BY <1>5 DEF TakeContext
<1>6. CASE RepeatAndHandle
  BY <1>6 DEF RepeatAndHandle, RequestWithContext
<1>7. CASE RepeatThrows
  BY <1>7 DEF RepeatThrows
<1>8. CASE RequestHandlerReturns
  BY <1>8 DEF RequestHandlerReturns
<1>9. CASE RequestFailed
  BY <1>9 DEF RequestFailed
<1>10. CASE DrainRequest
  BY <1>10 DEF DrainRequest, FreeOperation, DropHandler
<1>11. CASE CoroutineRequests
  BY <1>11 DEF CoroutineRequests
<1>12. CASE CoroutineNeverStarts
  BY <1>12 DEF CoroutineNeverStarts
<1>13. CASE CoroutineResumes
  BY <1>13 DEF CoroutineResumes
<1>14. CASE CoroutineRepeats
  BY <1>14 DEF CoroutineRepeats, SpawnRequest
<1>15. CASE CoroutineSuspends
  BY <1>15, RepeatedlyRequestAssumption DEF CoroutineSuspends, HandlersFit
<1>16. CASE DestroyCoroutine
  BY <1>16 DEF DestroyCoroutine, FreeOperation, DropHandler
<1>17. CASE RequestDestroyed
  BY <1>17 DEF RequestDestroyed
<1>18. CASE FreeBuffer
  BY <1>18 DEF FreeBuffer
<1>19. CASE OnStopComplete
  BY <1>19 DEF OnStopComplete, SelfIsNext, FreeOperation
<1>20. CASE DrainOperation
  BY <1>20 DEF DrainOperation, SelfIsNext, FreeOperation, DropHandler
<1>21. CASE Complete
  BY <1>21 DEF Complete
<1>22. CASE ReleaseTracker
  BY <1>22 DEF ReleaseTracker
<1>23. CASE ForeignContextRuns
  BY <1>23 DEF ForeignContextRuns
<1>24. ASSUME NEW c \in Contexts, FreeContext(c)
      PROVE  States'
  BY <1>24 DEF FreeContext, OnlyWork
<1>25. CASE CoroutineEnds
  BY <1>25, RepeatedlyRequestAssumption DEF CoroutineEnds, OnlyWork
<1>26. CASE RequestCompletes
  BY <1>26 DEF RequestCompletes
<1>27. CASE ShutdownServer
  BY <1>27 DEF ShutdownServer
<1>28. CASE DestroyContext
  BY <1>28 DEF DestroyContext
<1>29. CASE InitiateThrows
  BY <1>29 DEF InitiateThrows, FreeOperation, DropHandler
<1>30. CASE CoroutineRepeatThrows
  BY <1>30 DEF CoroutineRepeatThrows
<1>31. QED
  BY ONLY [Next]_vars, NextCases, <1>1, <1>2, <1>3, <1>4, <1>5, <1>6, <1>7,
     <1>8, <1>9, <1>10, <1>11, <1>12, <1>13, <1>14, <1>15, <1>16, <1>17, <1>18,
     <1>19, <1>20, <1>21, <1>22, <1>23, <1>24, <1>25, <1>26, <1>27, <1>28,
     <1>29, <1>30

(* Every RPCContext has an owner, and operations are queued.                *)
LEMMA ContainersStep ==
    ASSUME Containers, [Next]_vars
    PROVE  Containers'
<1> USE DEF Containers, configVars, startVars, handlerVars, serverVars,
            contextVars, bufferVars
<1>same. ASSUME UNCHANGED <<owner, queue>>
         PROVE  Containers'
  BY <1>same
<1>1. CASE UNCHANGED vars
  BY <1>same, <1>1 DEF vars
<1>2. ASSUME NEW t \in {"loop", "other"}, RepeatedlyRequestInitiator(t)
      PROVE  Containers'
  BY <1>same, <1>2 DEF RepeatedlyRequestInitiator
<1>3. CASE InitiateRepeatedlyRequest
  BY <1>3 DEF InitiateRepeatedlyRequest, SpawnRequest, RequestWithContext,
     Entries
<1>4. CASE RepeatedlyRequestStopFunction
  BY <1>same, <1>4 DEF RepeatedlyRequestStopFunction, MayEmit
<1>5. CASE TakeContext
  BY <1>5 DEF TakeContext, Entries
<1>6. CASE RepeatAndHandle
  <2>1. HandContextOver \in [Contexts -> {"free", "request", "loop", "handler"}]
    BY DEF HandContextOver
  <2>2. CASE stopped
    BY <1>6, <2>1, <2>2 DEF RepeatAndHandle
  <2>3. CASE ~stopped
    BY <1>6, <2>1, <2>3 DEF RepeatAndHandle, RequestWithContext
  <2>4. QED
    BY <2>2, <2>3
<1>7. CASE RepeatThrows
  BY <1>7 DEF RepeatThrows, Entries
<1>8. CASE RequestHandlerReturns
  BY <1>8 DEF RequestHandlerReturns, Entries
<1>9. CASE RequestFailed
  <2>1. owner' \in [Contexts -> {"free", "request", "loop", "handler"}]
    BY <1>9 DEF RequestFailed
  <2>2. queue' \in Seq(Entries)
    BY <1>9 DEF RequestFailed, Entries
  <2>3. QED
    BY <2>1, <2>2
<1>10. CASE DrainRequest
  BY <1>10 DEF DrainRequest, FreeOperation, DropHandler, Entries
<1>11. CASE CoroutineRequests
  <2>1. Tail(queue) \in Seq(Entries)
    BY <1>11, HeadTailProperties, EmptySeq DEF CoroutineRequests
  <2>2. QED
    BY <1>11, <2>1 DEF CoroutineRequests, Entries
<1>12. CASE CoroutineNeverStarts
  <2>1. Tail(queue) \in Seq(Entries)
    BY <1>12, HeadTailProperties, EmptySeq DEF CoroutineNeverStarts
  <2>2. QED
    BY <1>12, <2>1 DEF CoroutineNeverStarts, Entries
<1>13. CASE CoroutineResumes
  BY <1>13 DEF CoroutineResumes, Entries
<1>14. CASE CoroutineRepeats
  BY <1>14 DEF CoroutineRepeats, SpawnRequest, Entries
<1>15. CASE CoroutineSuspends
  BY <1>same, <1>15 DEF CoroutineSuspends
<1>16. CASE DestroyCoroutine
  BY <1>16 DEF DestroyCoroutine, FreeOperation, DropHandler, Entries
<1>17. CASE RequestDestroyed
  BY <1>same, <1>17 DEF RequestDestroyed
<1>18. CASE FreeBuffer
  <2>1. Tail(queue) \in Seq(Entries)
    BY <1>18, HeadTailProperties, EmptySeq DEF FreeBuffer
  <2>2. QED
    BY <1>18, <2>1 DEF FreeBuffer, Entries
<1>19. CASE OnStopComplete
  <2>1. Tail(queue) \in Seq(Entries)
    BY <1>19, HeadTailProperties, EmptySeq DEF OnStopComplete, SelfIsNext,
       FreeOperation
  <2>2. QED
    BY <1>19, <2>1 DEF OnStopComplete, SelfIsNext, FreeOperation, Entries
<1>20. CASE DrainOperation
  <2>1. Tail(queue) \in Seq(Entries)
    BY <1>20, HeadTailProperties, EmptySeq DEF DrainOperation, SelfIsNext,
       FreeOperation, DropHandler
  <2>2. QED
    BY <1>20, <2>1 DEF DrainOperation, SelfIsNext, FreeOperation, DropHandler,
       Entries
<1>21. CASE Complete
  BY <1>same, <1>21 DEF Complete
<1>22. CASE ReleaseTracker
  BY <1>same, <1>22 DEF ReleaseTracker
<1>23. CASE ForeignContextRuns
  BY <1>same, <1>23 DEF ForeignContextRuns
<1>24. ASSUME NEW c \in Contexts, FreeContext(c)
      PROVE  Containers'
  BY <1>24 DEF FreeContext, OnlyWork, Entries
<1>25. CASE CoroutineEnds
  BY <1>same, <1>25 DEF CoroutineEnds, OnlyWork
<1>26. CASE RequestCompletes
  BY <1>same, <1>26 DEF RequestCompletes
<1>27. CASE ShutdownServer
  BY <1>same, <1>27 DEF ShutdownServer
<1>28. CASE DestroyContext
  BY <1>same, <1>28 DEF DestroyContext
<1>29. CASE InitiateThrows
  BY <1>29 DEF InitiateThrows, FreeOperation, DropHandler, Entries
<1>30. CASE CoroutineRepeatThrows
  BY <1>same, <1>30 DEF CoroutineRepeatThrows
<1>31. QED
  BY ONLY [Next]_vars, NextCases, <1>1, <1>2, <1>3, <1>4, <1>5, <1>6, <1>7,
     <1>8, <1>9, <1>10, <1>11, <1>12, <1>13, <1>14, <1>15, <1>16, <1>17, <1>18,
     <1>19, <1>20, <1>21, <1>22, <1>23, <1>24, <1>25, <1>26, <1>27, <1>28,
     <1>29, <1>30
-----------------------------------------------------------------------------
(* Nothing has happened yet.                                                *)
LEMMA InvariantInit ==
    ASSUME Init
    PROVE  RequestInvariant
<1> USE RepeatedlyRequestAssumption DEF Init
<1>1. \A e : Count(e) = 0
  BY PositionsEmpty, CountIsPositions
<1>2. Flags
  BY Zenon DEF Flags
<1>3. States /\ Containers
  BY EmptySeq DEF States, Containers, LoopSteps
<1>4. TypeOK
  BY <1>2, <1>3, TypeParts
<1>5. Variants /\ HandlersFit
  BY DEF Variants, HandlersFit
<1>6. TrackerLifetime
  BY DEF TrackerLifetime, Units
<1>7. HeldBy("nobody")
  BY <1>1 DEF HeldBy, Units
<1>8. Continuation
  BY <1>7 DEF Continuation, Places
<1>9. Memory
  BY <1>1 DEF Memory, ContextOwner, BufferOwner, Units
<1>10. WorkAccounting
  BY <1>1 DEF WorkAccounting, TracksGrpcContext, Units
<1>11. QED
  BY <1>4, <1>5, <1>6, <1>8, <1>9, <1>10 DEF RequestInvariant

(* The counters are natural numbers since they count something.             *)
LEMMA CountersStep ==
    ASSUME TypeOK, States', Containers', WorkAccounting', TrackerLifetime'
    PROVE  work' \in Nat /\ foreign_work' \in 0..2
<1>1. Count("coroutine")' \in Nat
  BY PositionsFinite, CountIsPositions DEF Containers
<1>2. handlers' \in Nat
  BY RepeatedlyRequestAssumption DEF States
<1>3. /\ OperationWork' \in Nat /\ RequestWork' \in Nat
      /\ EventWork' \in Nat /\ TrackerWork' \in Nat
  BY DEF OperationWork, RequestWork, EventWork, TrackerWork, Units
<1>4. work' \in Nat
  BY <1>1, <1>2, <1>3, WorkSum
<1>5. foreign_work' \in 0..2
  BY DEF TrackerLifetime, Units
<1>6. QED
  BY <1>4, <1>5

(* Every step preserves the invariant.                                      *)
LEMMA InvariantStep ==
    ASSUME RequestInvariant, [Next]_vars
    PROVE  RequestInvariant'
<1> USE DEF RequestInvariant
<1>1. Continuation' /\ TrackerLifetime' /\ HandlersFit'
  BY ContinuationStep, TrackerStep, HandlersStep
<1>2. Variants'
  BY VariantsStep
<1>3. Memory'
  BY ContextOwnerStep, BufferOwnerStep DEF Memory
<1>4. WorkAccounting'
  BY WorkStep
<1>5. Flags' /\ States' /\ Containers'
  BY TypeParts, FlagsStep, StatesStep, ContainersStep
<1>6. TypeOK'
  BY <1>1, <1>4, <1>5, CountersStep, TypeParts
<1>7. QED
  BY <1>1, <1>2, <1>3, <1>4, <1>6

(* What the runs check of memory is what Memory says.                       *)
LEMMA MemoryIsOwned ==
    ASSUME Memory
    PROVE  MemoryOwned
<1>1. Cardinality({c \in Contexts : owner[c] = "loop"}) =
          Units(kind = "handler" /\ loop = "repeat")
  <2>1. CASE kind = "handler" /\ loop = "repeat"
    <3>1. PICK c \in Contexts : \A d \in Contexts : owner[d] = "loop" <=> d = c
      BY <2>1 DEF Memory, ContextOwner
    <3>2. {d \in Contexts : owner[d] = "loop"} = {c}
      BY <3>1
    <3>3. QED
      BY <2>1, <3>2, FS_Singleton DEF Units
  <2>2. CASE ~(kind = "handler" /\ loop = "repeat")
    <3>1. {c \in Contexts : owner[c] = "loop"} = {}
      BY <2>2 DEF Memory, ContextOwner
    <3>2. QED
      BY <2>2, <3>1, FS_EmptySet DEF Units
  <2>3. QED
    BY <2>1, <2>2
<1>2. QED
  BY <1>1 DEF Memory, ContextOwner, BufferOwner, MemoryOwned

(* The inductive invariant holds for any set of RPCContexts and any number  *)
(* of request handlers.                                                     *)
THEOREM RequestInvariantAlways == Spec => []RequestInvariant
<1>1. Init => RequestInvariant
  BY InvariantInit
<1>2. RequestInvariant /\ [Next]_vars => RequestInvariant'
  BY InvariantStep
<1>3. QED
  BY <1>1, <1>2, PTL DEF Spec

(* Type correctness: the counters do not go below zero, in whatever order   *)
(* requests, handlers, signals and the destructor come.                     *)
THEOREM TypeCorrect == Spec => []TypeOK
<1>1. RequestInvariant => TypeOK
  BY DEF RequestInvariant
<1>2. QED
  BY <1>1, RequestInvariantAlways, PTL

(* A living operation is continued by exactly one of the initiator, the     *)
(* request, the event loop and the queue, a freed one by none, and no       *)
(* cancellation signal finds it freed before its completion handler has     *)
(* been handed to its executor.  (A later one may: the run with             *)
(* StopFunctionFindsOperation.)                                             *)
THEOREM OneContinuationAlways == Spec => []OneContinuation
<1>1. RequestInvariant => OneContinuation
  BY HolderIsUnique DEF RequestInvariant
<1>2. QED
  BY <1>1, RequestInvariantAlways, PTL

(* Every RPCContext and the one-shot buffer has one owner and outlives the  *)
(* request that uses it, also in the drain of the destructor.               *)
THEOREM MemoryOwnedAlways == Spec => []MemoryOwned
<1>1. RequestInvariant => MemoryOwned
  BY MemoryIsOwned DEF RequestInvariant
<1>2. QED
  BY <1>1, RequestInvariantAlways, PTL

(* The outstanding work of the context is exactly what is under way.        *)
THEOREM WorkAccountingAlways == Spec => []WorkAccounting
<1>1. RequestInvariant => WorkAccounting
  BY DEF RequestInvariant
<1>2. QED
  BY <1>1, RequestInvariantAlways, PTL

(* The context of the completion handler does not run out of work before    *)
(* the handler has run.                                                     *)
THEOREM HandlerContextHasWorkAlways == Spec => []HandlerContextHasWork
<1>1. RequestInvariant => HandlerContextHasWork
  BY DEF RequestInvariant, TypeOK, TrackerLifetime, HandlerContextHasWork, Units
<1>2. QED
  BY <1>1, RequestInvariantAlways, PTL
=============================================================================
