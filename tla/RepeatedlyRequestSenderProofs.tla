-------------------- MODULE RepeatedlyRequestSenderProofs --------------------
(***************************************************************************)
(* Theorems about RepeatedlyRequestSender, for any threads, any set of      *)
(* addresses and whether or not allocations throw: nothing refers to the    *)
(* operation state once its receiver is completed, every context has one    *)
(* owner, and the work of the GrpcContext is accounted for.                 *)
(***************************************************************************)
EXTENDS RepeatedlyRequestSender, FiniteSetTheorems, TLAPS

(* Before start() has made the first request there is nothing to complete,  *)
(* and no callback before it is emplaced.                                   *)
BeforeFirstRequest ==
    /\ start # "returned" => alive /\ request = "none" /\ loop = "idle"
    /\ start \in {"created", "token", "emplace"} =>
          callback = "none" /\ ~engaged /\ stopper = "user"

(* on_request_complete works for one request, and calls done(), finish() or *)
(* the error path only if it has not made another one.                      *)
OneEvent ==
    /\ request # "none" \/ loop \notin {"idle", "exit"} => alive
    /\ loop \notin {"idle", "exit", "start", "repeat"} => request = "none"
    /\ loop \in {"start", "repeat"} => is_repeated = (request # "none")

(* The optional is engaged until reset() has returned, in the event loop or *)
(* in the StopFunction, of which there is at most one execution.            *)
CallbackLifetime ==
    /\ engaged => alive /\ loop # "signal"
    /\ callback = "registered" => engaged /\ stopper = "user"
    /\ callback = "executing" <=> stopper \in {"store", "reset"}
    /\ stopper \in {"store", "reset", "disengage"} => engaged
    /\ stopper = "disengage" => callback = "removed"

(* Where the local variable ptr of on_request_complete holds a context.     *)
HeldContext ==
    /\ loop \in {"handler", "initiate", "start"} => ptr # None
    /\ loop \in {"idle", "repeat", "signal", "exit"} => ptr = None

LifetimeInvariant ==
    /\ BeforeFirstRequest
    /\ OneEvent
    /\ CallbackLifetime
    /\ HeldContext

SenderInvariant ==
    TypeOK /\ LifetimeInvariant /\ ContextOwnership /\ WorkAccounting
-----------------------------------------------------------------------------
(* What a step of Next is, one disjunct per action.                         *)
LEMMA NextCases ==
    ASSUME Next
    PROVE  \/ Start \/ CheckStopToken \/ EmplaceStopContext \/ StartInitiates
           \/ RequestStop \/ StoreStopped \/ StopResets \/ StopDisengages
           \/ StopReturns \/ OnRequestComplete
           \/ EmplaceRequestHandlerOperation \/ RequestHandlerThrows
           \/ Repeat \/ RepeatThrows \/ StartRequestHandlerOperation
           \/ DoneUnlessRepeated \/ ResetWaits \/ ResetStopContext
           \/ SignalReceiver \/ EventIsFinished
           \/ \E c \in Contexts : Deallocate(c)
           \/ RequestCompletes \/ ShutdownServer \/ DestroyContext
  BY DEF Next, StartStep, StopStep, LoopStep

(* Neither a stop request of any thread nor an event breaks the order of    *)
(* start(), the requests and the end of the callback.                       *)
LEMMA LifetimeStep ==
    ASSUME TypeOK, ContextOwnership, LifetimeInvariant, [Next]_vars
    PROVE  LifetimeInvariant'
<1> USE RepeatedlyRequestSenderAssumption
    DEF TypeOK, StopTypeOK, LifetimeInvariant, BeforeFirstRequest, OneEvent,
       CallbackLifetime, HeldContext, ContextOwnership, InStart, LoopFrom,
       stopVars, opVars, requestVars, workVars, grpcVars, otherVars,
       loopVars
<1>1. CASE UNCHANGED vars
  BY <1>1 DEF vars
<1>2. CASE Start
  BY <1>2 DEF Start, CompleteReceiver
<1>3. CASE CheckStopToken
  BY <1>3 DEF CheckStopToken, CompleteReceiver
<1>4. CASE EmplaceStopContext
  BY <1>4 DEF EmplaceStopContext, EmplaceCallback
<1>5. CASE StartInitiates
  <2>1. CASE stopped
    BY <1>5, <2>1 DEF StartInitiates
  <2>2. CASE ~stopped
    <3>1. PICK c \in Contexts : Request(c)
      BY <1>5, <2>2 DEF StartInitiates
    <3>2. request' = "pending"
      BY <3>1 DEF Request, RequestWithWork
    <3>3. QED
      BY <1>5, <3>2 DEF StartInitiates
  <2>3. QED
    BY <2>1, <2>2
<1>6. CASE RequestStop
  BY <1>6 DEF RequestStop, MarkStopRequested, CanCall, InStop
<1>7. CASE StoreStopped
  BY <1>7 DEF StoreStopped
<1>8. CASE StopResets
  BY <1>8 DEF StopResets, DestroyInExecution
<1>9. CASE StopDisengages
  BY <1>9 DEF StopDisengages, Disengage
<1>10. CASE StopReturns
  BY <1>10 DEF StopReturns, ExecutionReturns
<1>11. CASE OnRequestComplete
  BY <1>11 DEF OnRequestComplete, TakeRequest
<1>12. CASE EmplaceRequestHandlerOperation
  BY <1>12 DEF EmplaceRequestHandlerOperation
<1>13. CASE RequestHandlerThrows
  BY <1>13 DEF RequestHandlerThrows
<1>14. CASE Repeat
  BY <1>14 DEF Repeat, Request, RequestWithWork
<1>15. CASE RepeatThrows
  BY <1>15 DEF RepeatThrows
<1>16. CASE StartRequestHandlerOperation
  BY <1>16 DEF StartRequestHandlerOperation, StartHandler
<1>17. CASE DoneUnlessRepeated
  BY <1>17 DEF DoneUnlessRepeated, DoneIf
<1>18. CASE ResetWaits
  BY <1>18 DEF ResetWaits, MustWait
<1>19. CASE ResetStopContext
  BY <1>19 DEF ResetStopContext, ResetCallback, MustWait, DestructorReturns
<1>20. CASE SignalReceiver
  BY <1>20 DEF SignalReceiver, CompleteReceiver
<1>21. CASE EventIsFinished
  BY <1>21 DEF EventIsFinished
<1>22. ASSUME NEW c \in Contexts, Deallocate(c)
      PROVE  LifetimeInvariant'
  BY <1>22 DEF Deallocate
<1>23. CASE RequestCompletes
  BY <1>23 DEF RequestCompletes
<1>24. CASE ShutdownServer
  BY <1>24 DEF ShutdownServer
<1>25. CASE DestroyContext
  BY <1>25 DEF DestroyContext
<1>26. QED
  BY ONLY [Next]_vars, NextCases, <1>1, <1>2, <1>3, <1>4, <1>5, <1>6, <1>7,
     <1>8, <1>9, <1>10, <1>11, <1>12, <1>13, <1>14, <1>15, <1>16, <1>17,
     <1>18, <1>19, <1>20, <1>21, <1>22, <1>23, <1>24, <1>25

-----------------------------------------------------------------------------
(* Contexts and work                                                        *)

(* The steps that neither allocate nor free a context, count work, or end   *)
(* an event.                                                                *)
QuietStep ==
    \/ Start \/ CheckStopToken \/ EmplaceStopContext \/ RequestStop
    \/ StoreStopped \/ StopResets \/ StopDisengages \/ StopReturns
    \/ EmplaceRequestHandlerOperation \/ RequestHandlerThrows
    \/ DoneUnlessRepeated \/ ResetWaits \/ SignalReceiver \/ ShutdownServer
    \/ DestroyContext \/ UNCHANGED vars

(* Most steps allocate, free and count nothing, and stay within the event.  *)
LEMMA QuietStepFrame ==
    ASSUME QuietStep
    PROVE  /\ UNCHANGED <<request_handler_operation, workVars, ptr>>
           /\ (loop' = "idle") = (loop = "idle")
<1> USE DEF workVars, requestVars, otherVars, opVars, grpcVars, loopVars
<1>1. CASE Start \/ CheckStopToken \/ EmplaceStopContext
  BY <1>1 DEF Start, CheckStopToken, EmplaceStopContext
<1>2. CASE RequestStop \/ StoreStopped \/ StopResets \/ StopDisengages
           \/ StopReturns
  BY <1>2 DEF RequestStop, StoreStopped, StopResets, StopDisengages,
     StopReturns
<1>3. CASE EmplaceRequestHandlerOperation \/ RequestHandlerThrows
  BY <1>3 DEF EmplaceRequestHandlerOperation, RequestHandlerThrows, LoopFrom
<1>4. CASE DoneUnlessRepeated \/ ResetWaits \/ SignalReceiver
  BY <1>4 DEF DoneUnlessRepeated, DoneIf, ResetWaits, SignalReceiver, LoopFrom
<1>5. CASE ShutdownServer \/ DestroyContext \/ UNCHANGED vars
  BY <1>5 DEF ShutdownServer, DestroyContext, vars
<1>6. QED
  BY <1>1, <1>2, <1>3, <1>4, <1>5 DEF QuietStep

(* The steps that are not quiet.                                            *)
LEMMA BusyCases ==
    ASSUME [Next]_vars
    PROVE  \/ QuietStep
           \/ StartInitiates \/ Repeat \/ OnRequestComplete \/ RepeatThrows
           \/ StartRequestHandlerOperation \/ ResetStopContext
           \/ EventIsFinished \/ RequestCompletes
           \/ \E c \in Contexts : Deallocate(c)
  BY NextCases DEF QuietStep

(* A context changes hands from the heap to gRPC, to on_request_complete    *)
(* and to the handler operation, and is freed by whoever owns it.           *)
LEMMA OwnershipStep ==
    ASSUME TypeOK, LifetimeInvariant, ContextOwnership, [Next]_vars
    PROVE  ContextOwnership'
<1> USE RepeatedlyRequestSenderAssumption
    DEF TypeOK, LifetimeInvariant, BeforeFirstRequest, OneEvent, HeldContext,
       ContextOwnership, LoopFrom, opVars, requestVars, workVars, loopVars
<1>1. CASE QuietStep
  BY ONLY <1>1, ContextOwnership, QuietStepFrame
     DEF ContextOwnership, workVars, requestVars
<1>2. ASSUME NEW c \in Contexts, Request(c), UNCHANGED <<running, ptr>>,
             request = "none"
      PROVE  ContextOwnership'
  BY <1>2 DEF Request, RequestWithWork
<1>3. CASE StartInitiates
  BY <1>2, <1>3 DEF StartInitiates
<1>4. CASE Repeat
  BY <1>2, <1>4 DEF Repeat
<1>5. CASE OnRequestComplete
  BY <1>5 DEF OnRequestComplete, TakeRequest
<1>6. CASE RepeatThrows
  BY <1>6 DEF RepeatThrows
<1>7. CASE StartRequestHandlerOperation
  BY <1>7 DEF StartRequestHandlerOperation, StartHandler
<1>8. CASE ResetStopContext
  BY <1>8 DEF ResetStopContext
<1>9. CASE EventIsFinished \/ RequestCompletes
  BY <1>9 DEF EventIsFinished, RequestCompletes
<1>10. ASSUME NEW c \in Contexts, Deallocate(c)
       PROVE  ContextOwnership'
  BY <1>10 DEF Deallocate
<1>11. QED
  BY <1>1, <1>3, <1>4, <1>5, <1>6, <1>7, <1>8, <1>9, <1>10, BusyCases

(* The handler operations that run are finitely many.                       *)
LEMMA RunningIsFinite ==
    ASSUME TypeOK
    PROVE  IsFiniteSet(running) /\ Cardinality(running) \in Nat
<1>1. IsFiniteSet(running)
  BY FS_Subset, RepeatedlyRequestSenderAssumption DEF TypeOK
<1>2. QED
  BY <1>1, FS_CardinalityType

(* Each unit of work is started and finished by the step that begins and    *)
(* ends what it is counted for.                                             *)
LEMMA WorkStep ==
    ASSUME TypeOK, LifetimeInvariant, ContextOwnership, WorkAccounting,
           [Next]_vars
    PROVE  WorkAccounting' /\ outstanding_work' \in Nat
<1> DEFINE R == Cardinality(running)
<1>0. /\ R \in Nat /\ outstanding_work \in Nat
      /\ request \in {"none", "pending", "ok", "failed"}
  BY RunningIsFinite DEF TypeOK
<1>1. CASE QuietStep
  BY ONLY <1>1, TypeOK, WorkAccounting, QuietStepFrame
     DEF WorkAccounting, workVars, requestVars, TypeOK
<1>2. ASSUME NEW c \in Contexts, Request(c), UNCHANGED running,
             request = "none", (loop' = "idle") = (loop = "idle")
      PROVE  WorkAccounting' /\ outstanding_work' \in Nat
  BY <1>0, <1>2 DEF Request, RequestWithWork, WorkAccounting
<1>3. CASE StartInitiates
  BY <1>0, <1>2, <1>3
     DEF StartInitiates, LifetimeInvariant, BeforeFirstRequest, WorkAccounting,
         loopVars, requestVars
<1>4. CASE Repeat
  BY <1>0, <1>2, <1>4
     DEF Repeat, LifetimeInvariant, OneEvent, LoopFrom, WorkAccounting,
         requestVars
<1>5. CASE OnRequestComplete
  BY <1>0, <1>5
     DEF OnRequestComplete, TakeRequest, LoopFrom, WorkAccounting
<1>6. CASE RepeatThrows
  BY <1>0, <1>6 DEF RepeatThrows, LoopFrom, WorkAccounting, requestVars
<1>7. CASE StartRequestHandlerOperation
  <2>1. ptr \notin running
    BY DEF ContextOwnership
  <2>2. Cardinality(running \cup {ptr}) = R + 1
    BY <2>1, RunningIsFinite, FS_AddElement
  <2>3. QED
    BY <1>0, <1>7, <2>2
       DEF StartRequestHandlerOperation, StartHandler, LoopFrom,
           WorkAccounting, requestVars
<1>8. CASE ResetStopContext
  BY <1>0, <1>8 DEF ResetStopContext, LoopFrom, WorkAccounting, requestVars
<1>9. CASE EventIsFinished
  BY <1>0, <1>9 DEF EventIsFinished, LoopFrom, WorkAccounting, requestVars
<1>10. CASE RequestCompletes
  BY <1>0, <1>10 DEF RequestCompletes, WorkAccounting, loopVars
<1>11. ASSUME NEW c \in Contexts, Deallocate(c)
       PROVE  WorkAccounting' /\ outstanding_work' \in Nat
  <2>1. Cardinality(running \ {c}) = R - 1 /\ Cardinality(running \ {c}) \in Nat
    BY <1>11, RunningIsFinite, FS_RemoveElement, FS_CardinalityType
       DEF Deallocate
  <2>2. QED
    BY <1>0, <1>11, <2>1
       DEF Deallocate, WorkAccounting, loopVars, requestVars
<1>12. QED
  BY <1>1, <1>3, <1>4, <1>5, <1>6, <1>7, <1>8, <1>9, <1>10, <1>11, BusyCases

(* Every member keeps its type; the counter, because of the accounting.     *)
LEMMA TypeStep ==
    ASSUME TypeOK, LifetimeInvariant, ContextOwnership, [Next]_vars,
           outstanding_work' \in Nat
    PROVE  TypeOK'
<1> USE DEF TypeOK, StopTypeOK, LoopFrom, stopVars, opVars, requestVars,
       workVars, grpcVars, otherVars, loopVars
<1>1. CASE UNCHANGED vars
  BY <1>1 DEF vars
<1>2. CASE Start
  <2>1. alive' \in BOOLEAN
    BY <1>2, Zenon DEF Start, CompleteReceiver, TypeOK, StopTypeOK
  <2>2. QED
    BY <1>2, <2>1 DEF Start, CompleteReceiver
<1>3. CASE CheckStopToken
  <2>1. alive' \in BOOLEAN
    BY <1>3, Zenon DEF CheckStopToken, CompleteReceiver, TypeOK, StopTypeOK
  <2>2. QED
    BY <1>3, <2>1 DEF CheckStopToken, CompleteReceiver
<1>4. CASE EmplaceStopContext
  BY <1>4 DEF EmplaceStopContext, EmplaceCallback
<1>5. CASE StartInitiates
  BY <1>5 DEF StartInitiates, Request, RequestWithWork
<1>6. CASE RequestStop
  BY <1>6 DEF RequestStop, MarkStopRequested
<1>7. CASE StoreStopped
  BY <1>7 DEF StoreStopped
<1>8. CASE StopResets
  BY <1>8 DEF StopResets, DestroyInExecution
<1>9. CASE StopDisengages
  <2>1. engaged' \in BOOLEAN
    BY <1>9, Zenon DEF StopDisengages, Disengage, TypeOK, StopTypeOK
  <2>2. QED
    BY <1>9, <2>1 DEF StopDisengages, Disengage
<1>10. CASE StopReturns
  BY <1>10 DEF StopReturns, ExecutionReturns
<1>11. CASE OnRequestComplete
  BY <1>11 DEF OnRequestComplete, TakeRequest
<1>12. CASE EmplaceRequestHandlerOperation
  BY <1>12 DEF EmplaceRequestHandlerOperation
<1>13. CASE RequestHandlerThrows
  BY <1>13 DEF RequestHandlerThrows
<1>14. CASE Repeat
  BY <1>14 DEF Repeat, Request, RequestWithWork
<1>15. CASE RepeatThrows
  BY <1>15 DEF RepeatThrows
<1>16. CASE StartRequestHandlerOperation
  BY <1>16 DEF StartRequestHandlerOperation, StartHandler, LifetimeInvariant,
     HeldContext
<1>17. CASE DoneUnlessRepeated
  BY <1>17 DEF DoneUnlessRepeated, DoneIf
<1>18. CASE ResetWaits
  BY <1>18 DEF ResetWaits
<1>19. CASE ResetStopContext
  <2>1. engaged' \in BOOLEAN
    BY <1>19, Zenon DEF ResetStopContext, ResetCallback, TypeOK, StopTypeOK
  <2>2. QED
    BY <1>19, <2>1 DEF ResetStopContext, ResetCallback
<1>20. CASE SignalReceiver
  <2>1. alive' \in BOOLEAN
    BY <1>20, Zenon DEF SignalReceiver, CompleteReceiver, TypeOK, StopTypeOK
  <2>2. QED
    BY <1>20, <2>1 DEF SignalReceiver, CompleteReceiver
<1>21. CASE EventIsFinished
  BY <1>21 DEF EventIsFinished
<1>22. ASSUME NEW c \in Contexts, Deallocate(c)
       PROVE  TypeOK'
  BY <1>22 DEF Deallocate
<1>23. CASE RequestCompletes
  BY <1>23 DEF RequestCompletes
<1>24. CASE ShutdownServer
  BY <1>24 DEF ShutdownServer
<1>25. CASE DestroyContext
  BY <1>25 DEF DestroyContext
<1>26. QED
  BY ONLY [Next]_vars, NextCases, <1>1, <1>2, <1>3, <1>4, <1>5, <1>6, <1>7,
     <1>8, <1>9, <1>10, <1>11, <1>12, <1>13, <1>14, <1>15, <1>16, <1>17,
     <1>18, <1>19, <1>20, <1>21, <1>22, <1>23, <1>24, <1>25

(* Nothing is started in the initial states.                                *)
LEMMA SenderInit == Init => SenderInvariant
<1> SUFFICES ASSUME Init PROVE SenderInvariant
  OBVIOUS
<1>0. /\ {stop_requested, engaged, stopped, draining} \subseteq BOOLEAN
      /\ {server_shutdown, is_repeated, alive} \subseteq BOOLEAN
      /\ ~engaged /\ alive
  BY Zenon DEF Init, StopInit
<1>1. TypeOK
  BY <1>0 DEF Init, StopInit, TypeOK, StopTypeOK
<1>2. LifetimeInvariant
  BY <1>0 DEF Init, StopInit, LifetimeInvariant, BeforeFirstRequest, OneEvent,
     CallbackLifetime, HeldContext
<1>3. ContextOwnership
  BY DEF Init, ContextOwnership
<1>4. WorkAccounting
  BY FS_EmptySet DEF Init, WorkAccounting
<1>5. QED
  BY <1>1, <1>2, <1>3, <1>4 DEF SenderInvariant

(* All of the invariant holds in every behaviour.                           *)
THEOREM SenderInvariantAlways == Spec => []SenderInvariant
<1>1. SenderInvariant /\ [Next]_vars => SenderInvariant'
  BY LifetimeStep, OwnershipStep, WorkStep, TypeStep DEF SenderInvariant
<1>2. QED
  BY SenderInit, <1>1, PTL DEF Spec

(* Every member has its type, and the counter of outstanding work is never  *)
(* negative.                                                                *)
THEOREM TypeCorrect == Spec => []TypeOK
<1>1. SenderInvariant => TypeOK
  BY DEF SenderInvariant
<1>2. QED
  BY <1>1, SenderInvariantAlways, PTL

(* When the receiver is completed, and the operation state may be gone,     *)
(* gRPC has no tag of it, start() has returned, no thread is about to use   *)
(* it in the stop callback and on_request_complete is leaving: whichever    *)
(* threads call start() and request_stop(), and whenever they do.           *)
THEOREM NoUseAfterCompletionAlways == Spec => []NoUseAfterCompletion
<1>1. SenderInvariant => NoUseAfterCompletion
  BY DEF SenderInvariant, LifetimeInvariant, BeforeFirstRequest, OneEvent,
     CallbackLifetime, NoUseAfterCompletion, TypeOK, StopTypeOK, InStart
<1>2. QED
  BY <1>1, SenderInvariantAlways, PTL

(* Every RequestHandlerOperation has exactly one owner at any time, and is  *)
(* freed by it, though one member serves all requests.                      *)
THEOREM ContextOwnershipAlways == Spec => []ContextOwnership
<1>1. SenderInvariant => ContextOwnership
  BY DEF SenderInvariant
<1>2. QED
  BY <1>1, SenderInvariantAlways, PTL

(* The GrpcContext counts the pending request, the event in hand and the    *)
(* handler operations that run, and nothing else.                           *)
THEOREM WorkAccountingAlways == Spec => []WorkAccounting
<1>1. SenderInvariant => WorkAccounting
  BY DEF SenderInvariant
<1>2. QED
  BY <1>1, SenderInvariantAlways, PTL
=============================================================================
