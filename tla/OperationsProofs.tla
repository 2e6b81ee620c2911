-------------------------- MODULE OperationsProofs --------------------------
(***************************************************************************)
(* Proofs about Operations, for any contexts and executors: a stop request  *)
(* never cancels the alarm of a wait whose receiver has been completed, and *)
(* the work of a context is what its executors, submitted operations, waits *)
(* and requests account for.                                                *)
(***************************************************************************)
EXTENDS Operations, FiniteSetTheorems, TLAPS

WaitStages == Starting \cup Completing
              \cup {"connected", "pending", "event", "completed"}

(* The part of TypeOK that the proof needs; only the first wait has a stop  *)
(* source.                                                                  *)
WaitTypes ==
    /\ via \in [Waits -> Ways]
    /\ via["second"] # "start"
    /\ stage \in [Waits -> WaitStages]
    /\ outcome \in [Waits -> {None, "expired", "cancelled", "error", "done",
                             "dropped"}]
    /\ alarm \in Waits \cup {None}
    /\ stopping \in [step : {"idle", "cancel", "return"}, thread : Threads]
    /\ engaged \in BOOLEAN

(* Who is inside start() or on_complete of GrpcSender has a stop callback.  *)
OnlyStartHasCallback ==
    \A w \in Waits : stage[w] \in {"emplace", "resetting"} => via[w] = "start"

(* The optional is engaged from emplace() to reset(), ...                   *)
EngagedWhileUnderWay ==
    engaged => /\ via["first"] = "start"
               /\ stage["first"] \in {"initiate", "pending", "event", "resetting"}

RegisteredIsEngaged == callback = "registered" => engaged

(* ... which waits for the thread that executes the callback, ...           *)
ExecutingHoldsCallback ==
    stopping.step # "idle" => callback = "executing" /\ engaged

(* ... and the receiver is told after that, once.                           *)
ToldIsOver ==
    outcome["first"] # None => stage["first"] \in {"handler", "completed"}

(* The alarm is set for a wait that has not been taken from the queue.      *)
AlarmIsPending == alarm \in Waits => stage[alarm] = "pending"

(* The inductive invariant.                                                 *)
CallbackInvariant ==
    /\ WaitTypes
    /\ OnlyStartHasCallback
    /\ EngagedWhileUnderWay
    /\ RegisteredIsEngaged
    /\ ExecutingHoldsCallback
    /\ ToldIsOver
    /\ AlarmIsPending

(* What a step of Next is for the waits.                                    *)
LEMMA WaitCases ==
    ASSUME [Next]_vars
    PROVE  \/ UNCHANGED waitVars
           \/ \E w \in Waits :
                 \/ \E t \in Threads : BeginWait(w, t)
                 \/ EmplaceStopCallback(w) \/ AlarmInitFunction(w)
                 \/ TakeEvent(w) \/ ResetStopCallback(w)
                 \/ Satisfy(w) \/ HandlerReturns(w)
           \/ StopCancels \/ StopReturns \/ AlarmExpires \/ EmitCancellation
           \/ \E t \in Threads : RequestStop(t)
<1>1. ASSUME ExecutorStep PROVE UNCHANGED waitVars
  BY <1>1 DEF ExecutorStep, GetExecutor, Require, CopyConstruct, ConstructFrom,
     MoveConstruct, CopyAssign, MoveAssign, Destroy, Submit, CopyAssigned,
     RunPosted, OnlyExecutors
<1>2. ASSUME RequestStep PROVE UNCHANGED waitVars
  BY <1>2 DEF RequestStep, ClientServerStreamingRequestConvenience,
     AssignPayload, RequestTagCompletes, CompleteWithPayload, OnlyRequest
<1>3. ASSUME Shutdown PROVE UNCHANGED waitVars
  BY <1>3 DEF Shutdown
<1>4. ASSUME UNCHANGED vars PROVE UNCHANGED waitVars
  BY <1>4 DEF vars
<1>5. QED
  BY <1>1, <1>2, <1>3, <1>4 DEF Next, WaitStep

(* A wait is cancelled or expires while it is pending.                      *)
LEMMA AlarmEnds ==
    ASSUME CallbackInvariant, alarm \in Waits,
           alarm' = None, At(alarm, "event"),
           UNCHANGED <<stopVars, via, outcome>>,
           \/ UNCHANGED stopping
           \/ /\ stopping.step = "cancel"
              /\ stopping' = [stopping EXCEPT !.step = "return"]
    PROVE  CallbackInvariant'
<1> USE DEF CallbackInvariant
<1>1. WaitTypes'
  BY DEF WaitTypes, At, WaitStages, stopVars
<1>2. OnlyStartHasCallback'
  BY DEF OnlyStartHasCallback, WaitTypes, At
<1>3. EngagedWhileUnderWay'
  BY DEF EngagedWhileUnderWay, WaitTypes, At, stopVars, Waits
<1>4. RegisteredIsEngaged'
  BY DEF RegisteredIsEngaged, stopVars
<1>5. ExecutingHoldsCallback'
  BY DEF ExecutingHoldsCallback, WaitTypes, stopVars
<1>6. ToldIsOver'
  BY DEF ToldIsOver, AlarmIsPending, WaitTypes, At, Waits
<1>7. AlarmIsPending'
  BY OperationsAssumption DEF AlarmIsPending, Waits
<1>8. QED
  BY <1>1, <1>2, <1>3, <1>4, <1>5, <1>6, <1>7

(* The steps of the waits, the stop source and the alarm preserve the       *)
(* invariant, and the others leave what it speaks of alone.                 *)
LEMMA CallbackStep ==
    ASSUME CallbackInvariant, [Next]_vars
    PROVE  CallbackInvariant'
<1> USE OperationsAssumption
    DEF CallbackInvariant, WaitTypes, OnlyStartHasCallback,
       EngagedWhileUnderWay, RegisteredIsEngaged, ExecutingHoldsCallback,
       ToldIsOver, AlarmIsPending,
       WaitStages, Waits, Starting, Completing, stopVars, At, Tell
<1>0. ASSUME UNCHANGED waitVars
       PROVE  CallbackInvariant'
  BY <1>0 DEF waitVars
<1>1. ASSUME NEW w \in Waits, NEW t \in Threads, StartAfterShutdown(w, t)
       PROVE  CallbackInvariant'
  BY <1>1 DEF StartAfterShutdown, MayStart
<1>2. ASSUME NEW w \in Waits, NEW t \in Threads, CheckStopToken(w, t)
       PROVE  CallbackInvariant'
  BY <1>2 DEF CheckStopToken, MayStart
<1>3. ASSUME NEW w \in Waits, NEW t \in Threads, GrpcSubmit(w, t)
       PROVE  CallbackInvariant'
  BY <1>3 DEF GrpcSubmit, MayStart
<1>4. ASSUME NEW w \in Waits, NEW t \in Threads, GrpcInitiator(w, t)
       PROVE  CallbackInvariant'
  BY <1>4 DEF GrpcInitiator, MayStart
<1>5. ASSUME NEW w \in Waits, NEW t \in Threads,
              Schedule(w, t) \/ ScheduleSubmit(w, t)
       PROVE  CallbackInvariant'
  BY <1>5 DEF Schedule, ScheduleSubmit, AddOperation, MayStart
<1>6. ASSUME NEW w \in Waits, EmplaceStopCallback(w)
       PROVE  CallbackInvariant'
  BY <1>6 DEF EmplaceStopCallback, EmplaceCallback
<1>7. ASSUME NEW w \in Waits, AlarmInitFunction(w)
       PROVE  CallbackInvariant'
  BY <1>7 DEF AlarmInitFunction
<1>8. ASSUME NEW w \in Waits, TakeEvent(w)
       PROVE  CallbackInvariant'
  BY <1>8 DEF TakeEvent
<1>9. ASSUME NEW w \in Waits, ResetStopCallback(w)
       PROVE  CallbackInvariant'
  BY <1>9 DEF ResetStopCallback, ResetCallback, MustWait
<1>10. ASSUME NEW w \in Waits, Satisfy(w)
       PROVE  CallbackInvariant'
  BY <1>10 DEF Satisfy, Signals
<1>11. ASSUME NEW w \in Waits, HandlerReturns(w)
       PROVE  CallbackInvariant'
  BY <1>11 DEF HandlerReturns
<1>12. ASSUME StopCancels
       PROVE  CallbackInvariant'
  BY <1>12, AlarmEnds DEF StopCancels, AlarmCancellationHandler
<1>13. ASSUME StopReturns
       PROVE  CallbackInvariant'
  BY <1>13 DEF StopReturns, ExecutionReturns
<1>14. ASSUME AlarmExpires
       PROVE  CallbackInvariant'
  BY <1>14, AlarmEnds DEF AlarmExpires
<1>15. ASSUME EmitCancellation
       PROVE  CallbackInvariant'
  BY <1>15, AlarmEnds DEF EmitCancellation, AlarmCancellationHandler
<1>16. ASSUME NEW t \in Threads, RequestStop(t)
       PROVE  CallbackInvariant'
  BY <1>16 DEF RequestStop, MarkStopRequested, Threads
<1>17. QED
  BY ONLY CallbackInvariant, [Next]_vars, WaitCases, <1>0, <1>1, <1>2, <1>3,
     <1>4, <1>5, <1>6, <1>7, <1>8, <1>9, <1>10, <1>11, <1>12, <1>13, <1>14,
     <1>15, <1>16
     DEF BeginWait

(* Before anything is started there is no callback and no outcome.          *)
LEMMA CallbackInit == Init => CallbackInvariant
<1> SUFFICES ASSUME Init PROVE CallbackInvariant
  OBVIOUS
<1>1. WaitTypes
  BY DEF Init, StopInit, WaitTypes, WaitStages, Threads
<1>2. OnlyStartHasCallback /\ ToldIsOver /\ AlarmIsPending
  BY OperationsAssumption
     DEF Init, OnlyStartHasCallback, ToldIsOver, AlarmIsPending, Waits
<1>3. EngagedWhileUnderWay /\ RegisteredIsEngaged /\ ExecutingHoldsCallback
  BY DEF Init, StopInit, EngagedWhileUnderWay, RegisteredIsEngaged,
     ExecutingHoldsCallback
<1>4. QED
  BY <1>1, <1>2, <1>3 DEF CallbackInvariant

(* The order of emplace(), the event, reset() and set_value or set_done in  *)
(* GrpcSender's operation state holds in every behaviour.                   *)
THEOREM CallbackInvariantAlways == Spec => []CallbackInvariant
<1>1. CallbackInvariant /\ [Next]_vars => CallbackInvariant'
  BY CallbackStep
<1>2. QED
  BY CallbackInit, <1>1, PTL DEF Spec

(* Whatever the interleaving of start(), the events of the loop and         *)
(* request_stop() of another thread: a receiver is completed only after     *)
(* reset() has taken the stop callback back, so no stop request cancels an  *)
(* alarm that may be gone or serve another wait.                            *)
THEOREM NoStaleCancelAlways == Spec => []NoStaleCancel
<1>1. CallbackInvariant => NoStaleCancel
  BY DEF CallbackInvariant, NoStaleCancel, ToldIsOver, EngagedWhileUnderWay,
     ExecutingHoldsCallback
<1>2. QED
  BY CallbackInvariantAlways, <1>1, PTL
-----------------------------------------------------------------------------
(* Work.  An executor counts for a context while it tracks it.              *)

ExecutorRecords == [context : Contexts \cup {None}, options : SUBSET Options]

Holds(x, c) ==
    /\ executor[x] # None
    /\ Tracked(executor[x]) /\ executor[x].context = c
    /\ assigning # None => x # assigning[1]

Tracking(c) == {x \in Executors : Holds(x, c)}

ExecutorTypes ==
    /\ executor \in [Executors -> ExecutorRecords \cup {None}]
    /\ assigning \in (Executors \X Executors) \cup {None}
    /\ work \in [Contexts -> Nat]

(* Who assigns uses two executors of one type; the assigned one is no       *)
(* moved-from one.                                                          *)
AssignmentUsesExecutors ==
    assigning # None =>
        /\ executor[assigning[1]] # None /\ executor[assigning[2]] # None
        /\ SameType(assigning[1], assigning[2])
        /\ executor[assigning[2]].context # None

TrackingFinite == \A c \in Contexts : IsFiniteSet(Tracking(c))

(* Executors come to a context, ...                                         *)
LEMMA TrackingAdd ==
    ASSUME NEW c, NEW y \in Executors, IsFiniteSet(Tracking(c)), ~Holds(y, c),
           \A z \in Executors : Holds(z, c)' <=> Holds(z, c) \/ z = y
    PROVE  /\ IsFiniteSet(Tracking(c)')
           /\ Cardinality(Tracking(c)') = Cardinality(Tracking(c)) + 1
<1>1. Tracking(c)' = Tracking(c) \cup {y} /\ y \notin Tracking(c)
  BY DEF Tracking
<1>2. QED
  BY <1>1, FS_AddElement

(* ... leave it, ...                                                        *)
LEMMA TrackingRemove ==
    ASSUME NEW c, NEW x \in Executors, IsFiniteSet(Tracking(c)), Holds(x, c),
           \A z \in Executors : Holds(z, c)' <=> Holds(z, c) /\ z # x
    PROVE  /\ IsFiniteSet(Tracking(c)')
           /\ Cardinality(Tracking(c)') = Cardinality(Tracking(c)) - 1
<1>1. Tracking(c)' = Tracking(c) \ {x} /\ x \in Tracking(c)
  BY DEF Tracking
<1>2. QED
  BY <1>1, FS_RemoveElement

(* ... hand it over, ...                                                    *)
LEMMA TrackingMove ==
    ASSUME NEW c, NEW x \in Executors, NEW y \in Executors,
           IsFiniteSet(Tracking(c)), Holds(x, c), ~Holds(y, c),
           \A z \in Executors : Holds(z, c)' <=> (Holds(z, c) /\ z # x) \/ z = y
    PROVE  /\ IsFiniteSet(Tracking(c)')
           /\ Cardinality(Tracking(c)') = Cardinality(Tracking(c))
<1>1. /\ Tracking(c)' = (Tracking(c) \ {x}) \cup {y}
      /\ x \in Tracking(c) /\ y \notin Tracking(c)
  BY DEF Tracking
<1>2. /\ IsFiniteSet(Tracking(c) \ {x})
      /\ Cardinality(Tracking(c) \ {x}) = Cardinality(Tracking(c)) - 1
  BY <1>1, FS_RemoveElement
<1>3. /\ IsFiniteSet((Tracking(c) \ {x}) \cup {y})
      /\ Cardinality((Tracking(c) \ {x}) \cup {y}) =
             Cardinality(Tracking(c) \ {x}) + 1
  BY <1>1, <1>2, FS_AddElement
<1>4. Cardinality(Tracking(c)) \in Nat
  BY FS_CardinalityType
<1>5. QED
  BY <1>1, <1>2, <1>3, <1>4

(* ... or stay.                                                             *)
LEMMA TrackingSame ==
    ASSUME NEW c, IsFiniteSet(Tracking(c)),
           \A z \in Executors : Holds(z, c)' <=> Holds(z, c)
    PROVE  /\ IsFiniteSet(Tracking(c)')
           /\ Cardinality(Tracking(c)') = Cardinality(Tracking(c))
<1>1. Tracking(c)' = Tracking(c)
  BY DEF Tracking
<1>2. QED
  BY <1>1

(* What a step does to the work of c is what it does to its executors.      *)
Balanced(c) ==
    /\ IsFiniteSet(Tracking(c)')
    /\ work'[c] - work[c] = Cardinality(Tracking(c)') - Cardinality(Tracking(c))

(* Base(&grpc_context, allocator), in get_executor(), require() and copies. *)
LEMMA ConstructBalanced ==
    ASSUME ExecutorTypes, AssignmentUsesExecutors, TrackingFinite,
           NEW c \in Contexts, NEW y \in Executors,
           NEW d \in Contexts, NEW options \in SUBSET Options,
           ConstructFrom(y, d, options)
    PROVE  Balanced(c)
<1> USE DEF ExecutorTypes
<1>0. IsFiniteSet(Tracking(c)) /\ Cardinality(Tracking(c)) \in Nat
  BY FS_CardinalityType DEF TrackingFinite
<1>1. /\ executor' = [executor EXCEPT ![y] = [context |-> d, options |-> options]]
      /\ executor[y] = None /\ assigning' = assigning
  BY DEF ConstructFrom
<1>2. [context |-> d, options |-> options] # None
  BY OperationsAssumption
     DEF Options, BLOCKING_NEVER, RELATIONSHIP_CONTINUATION,
         OUTSTANDING_WORK_TRACKED
<1>3. ~Holds(y, c) /\ (assigning # None => y # assigning[1])
  BY <1>1 DEF Holds, AssignmentUsesExecutors
<1>4. ASSUME NEW z \in Executors
      PROVE  Holds(z, c)' <=> \/ Holds(z, c)
                              \/ /\ z = y /\ d = c
                                 /\ OUTSTANDING_WORK_TRACKED \in options
  <2>1. CASE z = y
    BY <1>1, <1>2, <1>3, <2>1 DEF Holds, Tracked
  <2>2. CASE z # y
    BY <1>1, <2>2 DEF Holds
  <2>3. QED
    BY <2>1, <2>2
<1>5. CASE d = c /\ OUTSTANDING_WORK_TRACKED \in options
  <2>1. /\ IsFiniteSet(Tracking(c)')
        /\ Cardinality(Tracking(c)') = Cardinality(Tracking(c)) + 1
    BY <1>0, <1>3, <1>4, <1>5, TrackingAdd
  <2>2. work'[c] = work[c] + 1
    BY <1>5 DEF ConstructFrom, WorkStarted
  <2>3. QED
    BY <1>0, <2>1, <2>2 DEF Balanced
<1>6. CASE ~(d = c /\ OUTSTANDING_WORK_TRACKED \in options)
  <2>1. /\ IsFiniteSet(Tracking(c)')
        /\ Cardinality(Tracking(c)') = Cardinality(Tracking(c))
    BY <1>0, <1>4, <1>6, TrackingSame
  <2>2. work'[c] = work[c]
    BY <1>6 DEF ConstructFrom, WorkStarted
  <2>3. QED
    BY <1>0, <2>1, <2>2 DEF Balanced
<1>7. QED
  BY <1>5, <1>6

(* The work that the moved-from executor tracked goes with the pointer.     *)
LEMMA MoveConstructBalanced ==
    ASSUME ExecutorTypes, AssignmentUsesExecutors, TrackingFinite,
           NEW c \in Contexts, NEW x \in Executors, NEW y \in Executors,
           MoveConstruct(x, y)
    PROVE  Balanced(c)
<1> USE DEF ExecutorTypes
<1>0. IsFiniteSet(Tracking(c)) /\ Cardinality(Tracking(c)) \in Nat
  BY FS_CardinalityType DEF TrackingFinite
<1>1. /\ executor' = [executor EXCEPT ![y] = executor[x],
                                      ![x] = MovedFrom(executor[x])]
      /\ executor[x] # None /\ executor[y] = None
      /\ assigning' = assigning /\ work' = work
      /\ assigning # None => x # assigning[1] /\ y # assigning[1]
  BY DEF MoveConstruct, Usable, AssignmentUsesExecutors
<1>2. executor[x] \in ExecutorRecords
  BY <1>1
<1>3. ASSUME NEW z \in Executors \ {x, y}
      PROVE  Holds(z, c)' <=> Holds(z, c)
  BY <1>1 DEF Holds
<1>4. ~Holds(y, c) /\ (Holds(y, c)' <=> Holds(x, c)) /\ ~Holds(x, c)'
  <2>1. executor'[y] = executor[x] /\ executor'[x] = MovedFrom(executor[x])
    BY <1>1
  <2>2. Tracked(MovedFrom(executor[x])) => MovedFrom(executor[x]).context = None
    BY <1>2 DEF MovedFrom, Tracked, ExecutorRecords
  <2>3. ~Holds(x, c)'
    BY <2>1, <2>2, OperationsAssumption DEF Holds
  <2>4. QED
    BY <1>1, <2>1, <2>3 DEF Holds
<1>5. CASE Holds(x, c)
  <2>1. \A z \in Executors : Holds(z, c)' <=> (Holds(z, c) /\ z # x) \/ z = y
    BY <1>3, <1>4, <1>5
  <2>2. QED
    BY <1>0, <1>1, <1>4, <1>5, <2>1, TrackingMove DEF Balanced
<1>6. CASE ~Holds(x, c)
  <2>1. \A z \in Executors : Holds(z, c)' <=> Holds(z, c)
    BY <1>3, <1>4, <1>6
  <2>2. QED
    BY <1>0, <1>1, <2>1, TrackingSame DEF Balanced
<1>7. QED
  BY <1>5, <1>6

(* One executor stops counting and gives up its work: in its destructor and *)
(* in the first half of an assignment.                                      *)
LEMMA ReleaseBalanced ==
    ASSUME ExecutorTypes, TrackingFinite,
           NEW c \in Contexts, NEW x \in Executors, Usable(x),
           ReleaseWork(executor[x]),
           \A z \in Executors : Holds(z, c)' <=> Holds(z, c) /\ z # x
    PROVE  Balanced(c)
<1> USE DEF ExecutorTypes
<1>0. IsFiniteSet(Tracking(c)) /\ Cardinality(Tracking(c)) \in Nat
  BY FS_CardinalityType DEF TrackingFinite
<1>1. Holds(x, c) <=> Tracked(executor[x]) /\ executor[x].context = c
  BY DEF Holds, Usable
<1>2. CASE Holds(x, c)
  <2>1. work'[c] = work[c] - 1
    BY <1>1, <1>2, OperationsAssumption DEF ReleaseWork, WorkFinished
  <2>2. QED
    BY <1>0, <1>2, <2>1, TrackingRemove DEF Balanced
<1>3. CASE ~Holds(x, c)
  <2>1. work'[c] = work[c]
    BY <1>1, <1>3 DEF ReleaseWork, WorkFinished
  <2>2. \A z \in Executors : Holds(z, c)' <=> Holds(z, c)
    BY <1>3
  <2>3. QED
    BY <1>0, <2>1, <2>2, TrackingSame DEF Balanced
<1>4. QED
  BY <1>2, <1>3

(* The destructor.                                                          *)
LEMMA DestroyBalanced ==
    ASSUME ExecutorTypes, TrackingFinite,
           NEW c \in Contexts, NEW x \in Executors, Destroy(x)
    PROVE  Balanced(c)
<1>1. ASSUME NEW z \in Executors
      PROVE  Holds(z, c)' <=> Holds(z, c) /\ z # x
  BY DEF ExecutorTypes, Destroy, Holds
<1>2. QED
  BY <1>1, ReleaseBalanced DEF Destroy

(* The first half of operator=(const&): the assigned-to one counts no more. *)
LEMMA CopyAssignBalanced ==
    ASSUME ExecutorTypes, TrackingFinite, NEW c \in Contexts,
           NEW x \in Executors, NEW y \in Executors, CopyAssign(x, y)
    PROVE  Balanced(c)
<1>1. <<x, y>> # None
  BY OperationsAssumption
<1>2. ASSUME NEW z \in Executors
      PROVE  Holds(z, c)' <=> Holds(z, c) /\ z # x
  BY <1>1 DEF CopyAssign, Holds
<1>3. QED
  BY <1>2, ReleaseBalanced DEF CopyAssign

(* The second half: it counts for the context of the assigned one.          *)
LEMMA CopyAssignedBalanced ==
    ASSUME ExecutorTypes, AssignmentUsesExecutors, TrackingFinite,
           NEW c \in Contexts, CopyAssigned
    PROVE  Balanced(c)
<1> USE DEF ExecutorTypes
<1> DEFINE x == assigning[1]
           e == executor[assigning[2]]
<1>0. IsFiniteSet(Tracking(c)) /\ Cardinality(Tracking(c)) \in Nat
  BY FS_CardinalityType DEF TrackingFinite
<1>1. /\ x \in Executors /\ assigning[2] \in Executors
      /\ e \in ExecutorRecords /\ e # None /\ assigning # None
      /\ executor' = [executor EXCEPT ![x] = e] /\ assigning' = None
  BY DEF CopyAssigned, AssignmentUsesExecutors
<1>2. ~Holds(x, c)
  BY <1>1 DEF Holds
<1>3. ASSUME NEW z \in Executors
      PROVE  Holds(z, c)' <=> \/ Holds(z, c)
                              \/ z = x /\ Tracked(e) /\ e.context = c
  <2>1. CASE z = x
    BY <1>1, <1>2, <2>1 DEF Holds
  <2>2. CASE z # x
    BY <1>1, <2>2 DEF Holds
  <2>3. QED
    BY <2>1, <2>2
<1>4. IF Tracked(e) THEN WorkStarted(e.context) ELSE UNCHANGED work
  BY DEF CopyAssigned
<1> HIDE DEF x, e
<1>5. CASE Tracked(e) /\ e.context = c
  <2>1. work'[c] = work[c] + 1
    BY <1>4, <1>5 DEF WorkStarted
  <2>2. /\ IsFiniteSet(Tracking(c)')
        /\ Cardinality(Tracking(c)') = Cardinality(Tracking(c)) + 1
    BY <1>0, <1>1, <1>2, <1>3, <1>5, TrackingAdd
  <2>3. QED
    BY <1>0, <2>1, <2>2 DEF Balanced
<1>6. CASE ~(Tracked(e) /\ e.context = c)
  <2>1. work'[c] = work[c]
    BY <1>4, <1>6 DEF WorkStarted
  <2>2. QED
    BY <1>0, <1>3, <1>6, <2>1, TrackingSame DEF Balanced
<1>7. QED
  BY <1>5, <1>6

(* operator=(&&): the old work is finished, the new one changes hands.      *)
LEMMA MoveAssignBalanced ==
    ASSUME ExecutorTypes, AssignmentUsesExecutors, TrackingFinite,
           NEW c \in Contexts, NEW x \in Executors, NEW y \in Executors,
           MoveAssign(x, y)
    PROVE  Balanced(c)
<1> USE DEF ExecutorTypes
<1>0. IsFiniteSet(Tracking(c)) /\ Cardinality(Tracking(c)) \in Nat
  BY FS_CardinalityType DEF TrackingFinite
<1>1. /\ executor' = [executor EXCEPT ![x] = executor[y],
                                      ![y] = MovedFrom(executor[y])]
      /\ executor[x] # None /\ executor[y] # None /\ x # y
      /\ assigning' = assigning
      /\ assigning # None => x # assigning[1] /\ y # assigning[1]
  BY DEF MoveAssign, Usable, SameType
<1>2. executor[y] \in ExecutorRecords
  BY <1>1
<1>3. ASSUME NEW z \in Executors \ {x, y}
      PROVE  Holds(z, c)' <=> Holds(z, c)
  BY <1>1 DEF Holds
<1>4. (Holds(x, c)' <=> Holds(y, c)) /\ ~Holds(y, c)'
  <2>1. executor'[x] = executor[y] /\ executor'[y] = MovedFrom(executor[y])
    BY <1>1
  <2>2. Tracked(MovedFrom(executor[y])) => MovedFrom(executor[y]).context = None
    BY <1>2 DEF MovedFrom, Tracked, ExecutorRecords
  <2>3. ~Holds(y, c)'
    BY <2>1, <2>2, OperationsAssumption DEF Holds
  <2>4. QED
    BY <1>1, <2>1, <2>3 DEF Holds
<1>5. work'[c] = IF Holds(x, c) THEN work[c] - 1 ELSE work[c]
  BY <1>1, OperationsAssumption
     DEF MoveAssign, Usable, ReleaseWork, WorkFinished, Holds
<1>6. CASE Holds(x, c) /\ Holds(y, c)
  <2>1. \A z \in Executors : Holds(z, c)' <=> Holds(z, c) /\ z # y
    BY <1>3, <1>4, <1>6
  <2>2. QED
    BY <1>0, <1>5, <1>6, <2>1, TrackingRemove DEF Balanced
<1>7. CASE Holds(x, c) /\ ~Holds(y, c)
  <2>1. \A z \in Executors : Holds(z, c)' <=> Holds(z, c) /\ z # x
    BY <1>3, <1>4, <1>7
  <2>2. QED
    BY <1>0, <1>5, <1>7, <2>1, TrackingRemove DEF Balanced
<1>8. CASE ~Holds(x, c) /\ Holds(y, c)
  <2>1. \A z \in Executors : Holds(z, c)' <=> (Holds(z, c) /\ z # y) \/ z = x
    BY <1>1, <1>3, <1>4, <1>8
  <2>2. QED
    BY <1>0, <1>5, <1>8, <2>1, TrackingMove DEF Balanced
<1>9. CASE ~Holds(x, c) /\ ~Holds(y, c)
  <2>1. \A z \in Executors : Holds(z, c)' <=> Holds(z, c)
    BY <1>3, <1>4, <1>9
  <2>2. QED
    BY <1>0, <1>5, <1>9, <2>1, TrackingSame DEF Balanced
<1>10. QED
  BY <1>6, <1>7, <1>8, <1>9

-----------------------------------------------------------------------------
(* What a step of the executors is: get_executor(), require() and the copy  *)
(* constructor are all the construction from a context.                     *)
LEMMA ExecutorCases ==
    ASSUME ExecutorStep, ExecutorTypes
    PROVE  \/ /\ \/ \E y \in Executors, d \in Contexts, options \in SUBSET Options :
                       ConstructFrom(y, d, options)
                 \/ \E x, y \in Executors :
                       MoveConstruct(x, y) \/ CopyAssign(x, y) \/ MoveAssign(x, y)
                 \/ \E x \in Executors : Destroy(x)
                 \/ CopyAssigned
              /\ OnlyExecutors
           \/ /\ UNCHANGED <<scenario, shutdown, executor, assigning, waitVars, request>>
              /\ \/ \E x \in Executors, t \in Contexts \cup {None},
                       how \in {"dispatch", "post", "defer", "execute"} :
                          Submit(x, how, t)
                 \/ \E c \in Contexts : RunPosted(c)
<1>1. ASSUME NEW y \in Executors, NEW d \in Contexts, GetExecutor(y, d)
      PROVE  /\ \E options \in SUBSET Options : ConstructFrom(y, d, options)
             /\ OnlyExecutors
  BY <1>1 DEF GetExecutor, ConstructFrom, DEFAULT, Options
<1>2. ASSUME NEW x \in Executors, NEW y \in Executors,
             \/ \E o \in Options, value \in BOOLEAN : Require(x, y, o, value)
             \/ CopyConstruct(x, y)
      PROVE  /\ \E d \in Contexts, options \in SUBSET Options :
                   ConstructFrom(y, d, options)
             /\ OnlyExecutors
  <2>1. /\ executor[x].context \in Contexts
        /\ executor[x].options \in SUBSET Options
    BY <1>2 DEF ExecutorTypes, ExecutorRecords, Require, CopyConstruct, Usable
  <2>2. CASE CopyConstruct(x, y)
    BY <2>1, <2>2 DEF CopyConstruct, ConstructFrom
  <2>3. ASSUME NEW o \in Options, NEW value \in BOOLEAN, Require(x, y, o, value)
        PROVE  /\ \E d \in Contexts, options \in SUBSET Options :
                     ConstructFrom(y, d, options)
               /\ OnlyExecutors
    <3>1. set_option(executor[x].options, o, value) \in SUBSET Options
      BY <2>1 DEF set_option
    <3>2. QED
      BY <2>1, <2>3, <3>1 DEF Require, ConstructFrom
  <2>4. QED
    BY <1>2, <2>2, <2>3
<1>3. ASSUME NEW x \in Executors, NEW y \in Executors,
             MoveConstruct(x, y) \/ CopyAssign(x, y) \/ MoveAssign(x, y)
      PROVE  OnlyExecutors
  BY <1>3 DEF MoveConstruct, CopyAssign, MoveAssign
<1>4. ASSUME NEW x \in Executors, Destroy(x)
      PROVE  OnlyExecutors
  BY <1>4 DEF Destroy
<1>5. CopyAssigned => OnlyExecutors
  BY DEF CopyAssigned
<1>6. ASSUME NEW x \in Executors, NEW t \in Contexts \cup {None},
             NEW how \in {"dispatch", "post", "defer", "execute"},
             Submit(x, how, t)
      PROVE  UNCHANGED <<scenario, shutdown, executor, assigning, waitVars, request>>
  BY <1>6 DEF Submit
<1>7. ASSUME NEW c \in Contexts, RunPosted(c)
      PROVE  UNCHANGED <<scenario, shutdown, executor, assigning, waitVars, request>>
  BY <1>7 DEF RunPosted
<1>8. QED
  BY ONLY ExecutorStep, <1>1, <1>2, <1>3, <1>4, <1>5, <1>6, <1>7
     DEF ExecutorStep

(* The pointers of the executors stay within the contexts, and an           *)
(* assignment that is under way keeps its executors.                        *)
LEMMA ExecutorsStep ==
    ASSUME ExecutorTypes, AssignmentUsesExecutors, ExecutorStep
    PROVE  /\ executor' \in [Executors -> ExecutorRecords \cup {None}]
           /\ assigning' \in (Executors \X Executors) \cup {None}
           /\ AssignmentUsesExecutors'
<1> DEFINE Goal == /\ executor' \in [Executors -> ExecutorRecords \cup {None}]
                   /\ assigning' \in (Executors \X Executors) \cup {None}
                   /\ AssignmentUsesExecutors'
<1> USE OperationsAssumption
        DEF ExecutorTypes, AssignmentUsesExecutors, SameType
<1>1. ASSUME NEW y \in Executors, NEW d \in Contexts,
             NEW options \in SUBSET Options, ConstructFrom(y, d, options)
      PROVE  Goal
  <2>1. [context |-> d, options |-> options] \in ExecutorRecords
    BY DEF ExecutorRecords
  <2>2. executor[y] = None /\ assigning' = assigning
    BY <1>1 DEF ConstructFrom
  <2>3. executor' \in [Executors -> ExecutorRecords \cup {None}]
    BY <1>1, <2>1 DEF ConstructFrom
  <2>4. \A z \in Executors : z # y => executor'[z] = executor[z]
    BY <1>1 DEF ConstructFrom
  <2>5. QED
    BY <2>2, <2>3, <2>4
<1>2. ASSUME NEW e \in ExecutorRecords
      PROVE  MovedFrom(e) \in ExecutorRecords /\ MovedFrom(e).options = e.options
  BY DEF MovedFrom, ExecutorRecords
<1>3. ASSUME NEW x \in Executors, NEW y \in Executors, MoveConstruct(x, y)
      PROVE  Goal
  <2>1. /\ executor[x] \in ExecutorRecords /\ executor[y] = None
        /\ assigning' = assigning
        /\ assigning # None => x \notin {assigning[1], assigning[2]}
    BY <1>3 DEF MoveConstruct, Usable
  <2>2. executor' \in [Executors -> ExecutorRecords \cup {None}]
    BY <1>2, <1>3, <2>1 DEF MoveConstruct
  <2>3. \A z \in Executors : z # x /\ z # y => executor'[z] = executor[z]
    BY <1>3 DEF MoveConstruct
  <2>4. QED
    BY <2>1, <2>2, <2>3
<1>4. ASSUME NEW x \in Executors, NEW y \in Executors, CopyAssign(x, y)
      PROVE  Goal
  BY <1>4 DEF CopyAssign, Usable
<1>5. ASSUME NEW x \in Executors, NEW y \in Executors, MoveAssign(x, y)
      PROVE  Goal
  <2>1. /\ executor[x] \in ExecutorRecords /\ executor[y] \in ExecutorRecords
        /\ assigning' = assigning
        /\ assigning # None => /\ x \notin {assigning[1], assigning[2]}
                               /\ y \notin {assigning[1], assigning[2]}
    BY <1>5 DEF MoveAssign, Usable
  <2>2. executor' \in [Executors -> ExecutorRecords \cup {None}]
    BY <1>2, <1>5, <2>1 DEF MoveAssign
  <2>3. \A z \in Executors : z # x /\ z # y => executor'[z] = executor[z]
    BY <1>5 DEF MoveAssign
  <2>4. QED
    BY <2>1, <2>2, <2>3
<1>6. ASSUME NEW x \in Executors, Destroy(x)
      PROVE  Goal
  <2>1. /\ assigning' = assigning
        /\ assigning # None => x \notin {assigning[1], assigning[2]}
    BY <1>6 DEF Destroy, Usable
  <2>2. executor' \in [Executors -> ExecutorRecords \cup {None}]
    BY <1>6 DEF Destroy
  <2>3. \A z \in Executors : z # x => executor'[z] = executor[z]
    BY <1>6 DEF Destroy
  <2>4. QED
    BY <2>1, <2>2, <2>3
<1>7. ASSUME CopyAssigned
      PROVE  Goal
  BY <1>7 DEF CopyAssigned
<1>8. ASSUME UNCHANGED <<executor, assigning>>
      PROVE  Goal
  BY <1>8
<1>9. QED
  BY ONLY ExecutorTypes, ExecutorStep, ExecutorCases, <1>1, <1>3, <1>4, <1>5, <1>6,
     <1>7, <1>8

-----------------------------------------------------------------------------
(* Queues, waits and the request                                            *)

(* A receiver or handler is told at most once.                              *)
ToldOnce ==
    \A w \in Waits : stage[w] \notin {"handler", "completed"} => completions[w] = 0

(* The rest of TypeOK.                                                      *)
DetailTypes ==
    /\ scenario \in {"executors", "waits", "request"}
    /\ posted \in [Contexts -> 0..MaxPosted]
    /\ starter \in [Waits -> Threads]
    /\ completions \in [Waits -> 0..1]
    /\ request \in [call : {"idle", "calling", "returned"}, thread : Threads,
                    tag : {"none", "inflight", "event", "completed"},
                    payload : {"null", "responder"},
                    delivered : {None, "null", "responder"}]
    /\ callback \in {"none", "registered", "constructor", "executing",
                     "completed", "removed"}

FlagTypes ==
    /\ stop_requested \in BOOLEAN
    /\ shutdown \in BOOLEAN
    /\ ok \in [Waits -> BOOLEAN]
    /\ slot \in BOOLEAN

(* What WaitTypes says of it.                                               *)
SharedTypes ==
    /\ via \in [Waits -> Ways]
    /\ stage \in [Waits -> WaitStages]
    /\ outcome \in [Waits -> {None, "expired", "cancelled", "error", "done",
                             "dropped"}]
    /\ alarm \in Waits \cup {None}
    /\ stopping \in [step : {"idle", "cancel", "return"}, thread : Threads]
    /\ engaged \in BOOLEAN

(* TypeOK, by its parts.                                                    *)
LEMMA TypeParts ==
    /\ TypeOK <=> /\ DetailTypes /\ FlagTypes /\ ExecutorTypes /\ SharedTypes
    /\ TypeOK' <=> /\ DetailTypes' /\ FlagTypes' /\ ExecutorTypes' /\ SharedTypes'
  BY DEF TypeOK, StopTypeOK, DetailTypes, FlagTypes, ExecutorTypes,
     SharedTypes, ExecutorRecords, WaitStages

WaitUnit(w) == IF Counted(w) THEN 1 ELSE 0
RequestUnit == IF request.tag \in {"inflight", "event"} THEN 1 ELSE 0

(* What counts on c other than executors.                                   *)
OtherWork(c) ==
    posted[c]
    + (IF c = Home THEN WaitUnit("first") + WaitUnit("second") + RequestUnit
                   ELSE 0)

Accounted ==
    \A c \in Contexts : work[c] = Cardinality(Tracking(c)) + OtherWork(c)

(* The two waits are counted one by one.                                    *)
LEMMA CountWaits ==
    Cardinality({w \in Waits : Counted(w)}) = WaitUnit("first") + WaitUnit("second")
<1> DEFINE S == {w \in Waits : Counted(w)}
<1>0. /\ IsFiniteSet({"first"}) /\ Cardinality({"first"}) = 1
      /\ Cardinality({"second"}) = 1
  BY FS_Singleton
<1>1. Cardinality(S) = WaitUnit("first") + WaitUnit("second")
  <2>1. CASE Counted("first") /\ Counted("second")
    <3>1. S = {"first"} \cup {"second"}
      BY <2>1 DEF Waits
    <3>2. Cardinality({"first"} \cup {"second"}) = 1 + 1
      BY <1>0, FS_AddElement
    <3>3. QED
      BY <2>1, <3>1, <3>2 DEF WaitUnit
  <2>2. CASE Counted("first") /\ ~Counted("second")
    <3>1. S = {"first"}
      BY <2>2 DEF Waits
    <3> HIDE DEF S
    <3>2. QED
      BY <1>0, <2>2, <3>1 DEF WaitUnit
  <2>3. CASE ~Counted("first") /\ Counted("second")
    <3>1. S = {"second"}
      BY <2>3 DEF Waits
    <3> HIDE DEF S
    <3>2. QED
      BY <1>0, <2>3, <3>1 DEF WaitUnit
  <2>4. CASE ~Counted("first") /\ ~Counted("second")
    <3>1. S = {}
      BY <2>4 DEF Waits
    <3> HIDE DEF S
    <3>2. QED
      BY <2>4, <3>1, FS_EmptySet DEF WaitUnit
  <2>5. QED
    BY <2>1, <2>2, <2>3, <2>4
<1>2. QED
  BY <1>1

(* Accounted is what the run checks.                                        *)
LEMMA AccountedIsAccounting ==
    ASSUME TypeOK, TrackingFinite, Accounted
    PROVE  WorkAccounting
<1> SUFFICES ASSUME NEW c \in Contexts
    PROVE  work[c] =
            Cardinality({x \in Executors :
                            /\ executor[x] # None
                            /\ Tracked(executor[x]) /\ executor[x].context = c
                            /\ assigning # None => x # assigning[1]})
            + posted[c]
            + (IF c = Home THEN Cardinality({w \in Waits : Counted(w)}) ELSE 0)
            + (IF c = Home /\ request.tag \in {"inflight", "event"} THEN 1 ELSE 0)
  BY DEF WorkAccounting
<1>1. Tracking(c) = {x \in Executors :
                        /\ executor[x] # None
                        /\ Tracked(executor[x]) /\ executor[x].context = c
                        /\ assigning # None => x # assigning[1]}
  BY DEF Tracking, Holds
<1>2. Cardinality(Tracking(c)) \in Nat
  BY FS_CardinalityType DEF TrackingFinite
<1>3. posted[c] \in Nat
  BY OperationsAssumption DEF TypeOK
<1>4. WaitUnit("first") \in Nat /\ WaitUnit("second") \in Nat
  BY DEF WaitUnit
<1>5. work[c] = Cardinality(Tracking(c)) + OtherWork(c)
  BY DEF Accounted
<1>6. QED
  BY ONLY <1>1, <1>2, <1>3, <1>4, <1>5, CountWaits DEF OtherWork, RequestUnit

(* The work of Home follows the waits: Set and the queue count, the return  *)
(* from the handler uncounts, in between the event changes hands.           *)
WaitsBalanced ==
    /\ work' \in [Contexts -> Int]
    /\ \A c \in Contexts : c # Home => work'[c] = work[c]
    /\ work'[Home] - work[Home] =
          WaitUnit("first")' + WaitUnit("second")'
          - WaitUnit("first") - WaitUnit("second")

(* A step of the waits.                                                     *)
WaitAction ==
    \/ \E w \in Waits, t \in Threads : BeginWait(w, t)
    \/ WaitStep \/ AlarmExpires \/ EmitCancellation
    \/ \E t \in Threads : RequestStop(t)

(* Every step of the waits is balanced, and tells a receiver at most once.  *)
LEMMA WaitsStep ==
    ASSUME TypeOK, CallbackInvariant, ToldOnce, WaitAction
    PROVE  /\ WaitsBalanced
           /\ ToldOnce'
           /\ UNCHANGED <<executor, assigning, posted, request, scenario>>
<1> DEFINE Goal == /\ WaitsBalanced
                   /\ ToldOnce'
                   /\ UNCHANGED <<executor, assigning, posted, request, scenario>>
<1> USE OperationsAssumption
        DEF WaitsBalanced, ToldOnce, WaitUnit, Counted, At, Waits, Starting,
            Completing, OnlyWaits, WorkStarted, WorkFinished
<1>0. /\ stage \in [Waits -> WaitStages] /\ work \in [Contexts -> Nat]
      /\ completions \in [Waits -> 0..1] /\ alarm \in Waits \cup {None}
      /\ AlarmIsPending
  BY DEF TypeOK, WaitStages, CallbackInvariant
<1>1. ASSUME NEW w \in Waits, NEW t \in Threads, StartAfterShutdown(w, t)
      PROVE  Goal
  BY <1>0, <1>1 DEF StartAfterShutdown, MayStart, Tell
<1>2. ASSUME NEW w \in Waits, NEW t \in Threads, CheckStopToken(w, t)
      PROVE  Goal
  BY <1>0, <1>2 DEF CheckStopToken, MayStart, Tell
<1>3. ASSUME NEW w \in Waits, NEW t \in Threads, GrpcSubmit(w, t)
      PROVE  Goal
  BY <1>0, <1>3 DEF GrpcSubmit, MayStart
<1>4. ASSUME NEW w \in Waits, NEW t \in Threads, GrpcInitiator(w, t)
      PROVE  Goal
  BY <1>0, <1>4 DEF GrpcInitiator, MayStart
<1>5. ASSUME NEW w \in Waits, NEW t \in Threads, AddOperation(w, t)
      PROVE  Goal
  BY <1>0, <1>5 DEF AddOperation, MayStart
<1>6. ASSUME NEW w \in Waits, EmplaceStopCallback(w)
      PROVE  Goal
  BY <1>0, <1>6 DEF EmplaceStopCallback
<1>7. ASSUME NEW w \in Waits, AlarmInitFunction(w)
      PROVE  Goal
  BY <1>0, <1>7 DEF AlarmInitFunction
<1>8. ASSUME NEW w \in Waits, TakeEvent(w)
      PROVE  Goal
  BY <1>0, <1>8 DEF TakeEvent
<1>9. ASSUME NEW w \in Waits, ResetStopCallback(w)
      PROVE  Goal
  BY <1>0, <1>9 DEF ResetStopCallback
<1>10. ASSUME NEW w \in Waits, Satisfy(w)
      PROVE  Goal
  BY <1>0, <1>10 DEF Satisfy, Signals, Tell
<1>11. ASSUME NEW w \in Waits, HandlerReturns(w)
      PROVE  Goal
  BY <1>0, <1>11 DEF HandlerReturns
<1>12. ASSUME StopCancels
      PROVE  Goal
  BY <1>0, <1>12 DEF StopCancels, AlarmCancellationHandler, AlarmIsPending
<1>13. ASSUME StopReturns
      PROVE  Goal
  BY <1>0, <1>13 DEF StopReturns
<1>14. ASSUME AlarmExpires
      PROVE  Goal
  BY <1>0, <1>14 DEF AlarmExpires, AlarmIsPending
<1>15. ASSUME EmitCancellation
      PROVE  Goal
  BY <1>0, <1>15 DEF EmitCancellation, AlarmCancellationHandler, AlarmIsPending
<1>16. ASSUME NEW t \in Threads, RequestStop(t)
      PROVE  Goal
  BY <1>0, <1>16 DEF RequestStop
<1>17. QED
  BY ONLY WaitAction, <1>1, <1>2, <1>3, <1>4, <1>5, <1>6, <1>7, <1>8, <1>9,
     <1>10, <1>11, <1>12, <1>13, <1>14, <1>15, <1>16
     DEF WaitAction, WaitStep, BeginWait, Schedule, ScheduleSubmit

(* The rest of the types of the waits.                                      *)
LEMMA WaitDetailsStep ==
    ASSUME TypeOK, ToldOnce, WaitAction
    PROVE  /\ starter' \in [Waits -> Threads]
           /\ completions' \in [Waits -> 0..1]
           /\ callback' \in {"none", "registered", "constructor", "executing",
                             "completed", "removed"}
           /\ stop_requested' \in BOOLEAN /\ slot' \in BOOLEAN
           /\ shutdown' \in BOOLEAN /\ ok' \in [Waits -> BOOLEAN]
<1> DEFINE Goal == /\ starter' \in [Waits -> Threads]
                   /\ completions' \in [Waits -> 0..1]
                   /\ callback' \in {"none", "registered", "constructor",
                                     "executing", "completed", "removed"}
                   /\ stop_requested' \in BOOLEAN /\ slot' \in BOOLEAN
                   /\ shutdown' \in BOOLEAN /\ ok' \in [Waits -> BOOLEAN]
<1> USE DEF stopVars
<1>0. /\ stage \in [Waits -> WaitStages] /\ alarm \in Waits \cup {None}
      /\ starter \in [Waits -> Threads] /\ completions \in [Waits -> 0..1]
      /\ callback \in {"none", "registered", "constructor", "executing",
                       "completed", "removed"}
      /\ stop_requested \in BOOLEAN /\ slot \in BOOLEAN
      /\ shutdown \in BOOLEAN /\ ok \in [Waits -> BOOLEAN]
  BY DEF TypeOK, StopTypeOK, WaitStages
<1>told. ASSUME NEW w \in Waits, NEW what, Tell(w, what),
                stage[w] \notin {"handler", "completed"}
         PROVE  completions' \in [Waits -> 0..1]
  BY <1>0, <1>told DEF Tell, ToldOnce
<1>1. ASSUME NEW w \in Waits, NEW t \in Threads, StartAfterShutdown(w, t)
      PROVE  Goal
  BY <1>0, <1>1, <1>told DEF StartAfterShutdown, MayStart
<1>2. ASSUME NEW w \in Waits, NEW t \in Threads, CheckStopToken(w, t)
      PROVE  Goal
  BY <1>0, <1>2, <1>told DEF CheckStopToken, MayStart
<1>3. ASSUME NEW w \in Waits, NEW t \in Threads, GrpcSubmit(w, t)
      PROVE  Goal
  BY <1>0, <1>3 DEF GrpcSubmit
<1>4. ASSUME NEW w \in Waits, NEW t \in Threads, GrpcInitiator(w, t)
      PROVE  Goal
  BY <1>0, <1>4 DEF GrpcInitiator
<1>5. ASSUME NEW w \in Waits, NEW t \in Threads, AddOperation(w, t)
      PROVE  Goal
  BY <1>0, <1>5 DEF AddOperation
<1>6. ASSUME NEW w \in Waits, EmplaceStopCallback(w)
      PROVE  Goal
  BY <1>0, <1>6 DEF EmplaceStopCallback, EmplaceCallback
<1>7. ASSUME NEW w \in Waits, AlarmInitFunction(w)
      PROVE  Goal
  BY <1>0, <1>7 DEF AlarmInitFunction
<1>8. ASSUME NEW w \in Waits, TakeEvent(w)
      PROVE  Goal
  BY <1>0, <1>8 DEF TakeEvent
<1>9. ASSUME NEW w \in Waits, ResetStopCallback(w)
      PROVE  Goal
  BY <1>0, <1>9 DEF ResetStopCallback, ResetCallback
<1>10. ASSUME NEW w \in Waits, Satisfy(w)
      PROVE  Goal
  BY <1>0, <1>10, <1>told DEF Satisfy
<1>11. ASSUME NEW w \in Waits, HandlerReturns(w)
      PROVE  Goal
  BY <1>0, <1>11 DEF HandlerReturns
<1>12. ASSUME StopCancels
      PROVE  Goal
  BY <1>0, <1>12 DEF StopCancels, AlarmCancellationHandler
<1>13. ASSUME StopReturns
      PROVE  Goal
  BY <1>0, <1>13 DEF StopReturns, ExecutionReturns
<1>14. ASSUME AlarmExpires
      PROVE  Goal
  BY <1>0, <1>14 DEF AlarmExpires
<1>15. ASSUME EmitCancellation
      PROVE  Goal
  BY <1>0, <1>15 DEF EmitCancellation, AlarmCancellationHandler
<1>16. ASSUME NEW t \in Threads, RequestStop(t)
      PROVE  Goal
  BY <1>0, <1>16 DEF RequestStop, MarkStopRequested
<1>17. QED
  BY ONLY WaitAction, <1>1, <1>2, <1>3, <1>4, <1>5, <1>6, <1>7, <1>8, <1>9,
     <1>10, <1>11, <1>12, <1>13, <1>14, <1>15, <1>16
     DEF WaitAction, WaitStep, BeginWait, Schedule, ScheduleSubmit

(* There is no tag before the request is made.                              *)
NoTagBeforeCall == request.call = "idle" => request.tag = "none"

Requests == [call : {"idle", "calling", "returned"}, thread : Threads,
             tag : {"none", "inflight", "event", "completed"},
             payload : {"null", "responder"},
             delivered : {None, "null", "responder"}]

(* The tag of the request counts from the stub's function to its handler.   *)
LEMMA RequestBalanced ==
    ASSUME TypeOK, NoTagBeforeCall, RequestStep
    PROVE  /\ work' \in [Contexts -> Int]
           /\ \A c \in Contexts : c # Home => work'[c] = work[c]
           /\ work'[Home] - work[Home] = RequestUnit' - RequestUnit
<1> DEFINE Goal == /\ work' \in [Contexts -> Int]
                   /\ \A c \in Contexts : c # Home => work'[c] = work[c]
                   /\ work'[Home] - work[Home] = RequestUnit' - RequestUnit
<1> USE OperationsAssumption DEF RequestUnit, WorkStarted, WorkFinished, Requests
<1>0. work \in [Contexts -> Nat] /\ request \in Requests
  BY DEF TypeOK
<1>1. ASSUME NEW t \in RequestThreads, ClientServerStreamingRequestConvenience(t)
      PROVE  Goal
  <2>1. request.tag = "none" /\ request'.tag = "inflight"
    BY <1>0, <1>1 DEF ClientServerStreamingRequestConvenience, NoTagBeforeCall
  <2>2. QED
    BY <1>0, <1>1, <2>1 DEF ClientServerStreamingRequestConvenience
<1>2. CASE AssignPayload
  <2>1. request'.tag = request.tag
    BY <1>0, <1>2 DEF AssignPayload
  <2>2. QED
    BY <1>0, <1>2, <2>1 DEF AssignPayload
<1>3. CASE RequestTagCompletes
  <2>1. request.tag = "inflight" /\ request'.tag = "event"
    BY <1>0, <1>3 DEF RequestTagCompletes
  <2>2. QED
    BY <1>0, <1>3, <2>1 DEF RequestTagCompletes
<1>4. CASE CompleteWithPayload
  <2>1. request.tag = "event" /\ request'.tag = "completed"
    BY <1>0, <1>4 DEF CompleteWithPayload
  <2>2. QED
    BY <1>0, <1>4, <2>1 DEF CompleteWithPayload
<1>5. QED
  BY <1>1, <1>2, <1>3, <1>4 DEF RequestStep

(* The request stays a request, and nothing else changes.                   *)
LEMMA RequestTypes ==
    ASSUME TypeOK, NoTagBeforeCall, RequestStep
    PROVE  /\ request' \in Requests /\ NoTagBeforeCall'
           /\ UNCHANGED <<scenario, shutdown, executor, assigning, posted, waitVars>>
<1> USE OperationsAssumption DEF OnlyRequest, NoTagBeforeCall, Requests, Threads
<1>0. request \in Requests
  BY DEF TypeOK
<1>1. ASSUME NEW t \in RequestThreads, ClientServerStreamingRequestConvenience(t)
      PROVE  request' \in Requests /\ NoTagBeforeCall'
  BY <1>0, <1>1 DEF ClientServerStreamingRequestConvenience
<1>2. ASSUME AssignPayload
      PROVE  request' \in Requests /\ NoTagBeforeCall'
  <2>1. request' = [request EXCEPT !.call = "returned", !.payload = request'.payload]
    BY <1>0, <1>2 DEF AssignPayload
  <2>2. request'.payload \in {"null", "responder"}
    BY <1>0, <1>2 DEF AssignPayload
  <2>3. QED
    BY <1>0, <2>1, <2>2
<1>3. ASSUME RequestTagCompletes
      PROVE  request' \in Requests /\ NoTagBeforeCall'
  BY <1>0, <1>3 DEF RequestTagCompletes
<1>4. ASSUME CompleteWithPayload
      PROVE  request' \in Requests /\ NoTagBeforeCall'
  BY <1>0, <1>4 DEF CompleteWithPayload
<1>5. UNCHANGED <<scenario, shutdown, executor, assigning, posted, waitVars>>
  BY DEF RequestStep, ClientServerStreamingRequestConvenience, AssignPayload,
     RequestTagCompletes, CompleteWithPayload
<1>6. QED
  BY <1>1, <1>2, <1>3, <1>4, <1>5 DEF RequestStep

-----------------------------------------------------------------------------
(* The inductive invariant.                                                 *)
WorkInvariant ==
    /\ TypeOK
    /\ CallbackInvariant
    /\ ToldOnce
    /\ NoTagBeforeCall
    /\ AssignmentUsesExecutors
    /\ TrackingFinite
    /\ Accounted

(* The executors' steps: what they release and start is what they track,    *)
(* and a submitted function counts until it has run.                        *)
LEMMA ExecutorsAccounted ==
    ASSUME WorkInvariant, ExecutorStep
    PROVE  /\ work' \in [Contexts -> Int] /\ TrackingFinite' /\ Accounted'
           /\ posted' \in [Contexts -> 0..MaxPosted]
<1> DEFINE Goal == /\ work' \in [Contexts -> Int] /\ TrackingFinite' /\ Accounted'
                   /\ posted' \in [Contexts -> 0..MaxPosted]
<1>0. /\ ExecutorTypes /\ AssignmentUsesExecutors /\ TrackingFinite
      /\ posted \in [Contexts -> 0..MaxPosted]
      /\ \A c \in Contexts : /\ work[c] = Cardinality(Tracking(c)) + OtherWork(c)
                             /\ Cardinality(Tracking(c)) \in Nat
                             /\ OtherWork(c) \in Int
  <2>1. TrackingFinite /\ Accounted /\ posted \in [Contexts -> 0..MaxPosted]
    BY DEF WorkInvariant, TypeOK
  <2>2. \A c \in Contexts : OtherWork(c) \in Int
    BY <2>1, OperationsAssumption DEF OtherWork, WaitUnit, RequestUnit
  <2>3. \A c \in Contexts : Cardinality(Tracking(c)) \in Nat
    BY <2>1, FS_CardinalityType DEF TrackingFinite
  <2>4. QED
    BY <2>1, <2>2, <2>3, TypeParts DEF WorkInvariant, Accounted
<1>balanced. ASSUME \A c \in Contexts : Balanced(c), OnlyExecutors,
                    work' \in [Contexts -> Int]
             PROVE  Goal
  <2>1. posted' = posted /\ \A c \in Contexts : OtherWork(c)' = OtherWork(c)
    BY <1>balanced
       DEF OnlyExecutors, waitVars, OtherWork, WaitUnit, Counted, RequestUnit
  <2>2. TrackingFinite'
    BY <1>balanced DEF Balanced, TrackingFinite
  <2>3. \A c \in Contexts : Cardinality(Tracking(c)') \in Nat
    BY <1>balanced, FS_CardinalityType DEF Balanced
  <2>4. ASSUME NEW c \in Contexts
        PROVE  work'[c] = Cardinality(Tracking(c)') + OtherWork(c)'
    <3>1. /\ work'[c] - work[c] = Cardinality(Tracking(c)') - Cardinality(Tracking(c))
          /\ work'[c] \in Int /\ work[c] \in Int
      BY <1>0, <1>balanced DEF Balanced, ExecutorTypes
    <3>2. QED
      BY ONLY <1>0, <2>1, <2>3, <3>1
  <2>5. QED
    BY <1>0, <1>balanced, <2>1, <2>2, <2>4 DEF Accounted
<1> USE OperationsAssumption DEF WorkStarted, WorkFinished, ReleaseWork
<1>1. ASSUME NEW y \in Executors, NEW d \in Contexts,
             NEW options \in SUBSET Options, ConstructFrom(y, d, options)
      PROVE  Goal
  <2>1. work' \in [Contexts -> Int] /\ OnlyExecutors
    BY <1>0, <1>1 DEF ExecutorTypes, ConstructFrom
  <2>2. QED
    BY <1>0, <1>1, <1>balanced, <2>1, ConstructBalanced
<1>2. ASSUME NEW x \in Executors, NEW y \in Executors, MoveConstruct(x, y)
      PROVE  Goal
  <2>1. work' \in [Contexts -> Int] /\ OnlyExecutors
    BY <1>0, <1>2 DEF ExecutorTypes, MoveConstruct
  <2>2. QED
    BY <1>0, <1>2, <1>balanced, <2>1, MoveConstructBalanced
<1>3. ASSUME NEW x \in Executors, NEW y \in Executors, CopyAssign(x, y)
      PROVE  Goal
  <2>1. work' \in [Contexts -> Int] /\ OnlyExecutors
    BY <1>0, <1>3 DEF ExecutorTypes, CopyAssign
  <2>2. QED
    BY <1>0, <1>3, <1>balanced, <2>1, CopyAssignBalanced
<1>4. ASSUME NEW x \in Executors, NEW y \in Executors, MoveAssign(x, y)
      PROVE  Goal
  <2>1. work' \in [Contexts -> Int] /\ OnlyExecutors
    BY <1>0, <1>4 DEF ExecutorTypes, MoveAssign
  <2>2. QED
    BY <1>0, <1>4, <1>balanced, <2>1, MoveAssignBalanced
<1>5. ASSUME NEW x \in Executors, Destroy(x)
      PROVE  Goal
  <2>1. work' \in [Contexts -> Int] /\ OnlyExecutors
    BY <1>0, <1>5 DEF ExecutorTypes, Destroy
  <2>2. QED
    BY <1>0, <1>5, <1>balanced, <2>1, DestroyBalanced
<1>6. ASSUME CopyAssigned
      PROVE  Goal
  <2>1. work' \in [Contexts -> Int] /\ OnlyExecutors
    BY <1>0, <1>6 DEF ExecutorTypes, CopyAssigned
  <2>2. QED
    BY <1>0, <1>6, <1>balanced, <2>1, CopyAssignedBalanced
<1>queued. ASSUME UNCHANGED <<executor, assigning, waitVars, request>>,
                  posted' \in [Contexts -> 0..MaxPosted],
                  work' \in [Contexts -> Int],
                  \A c \in Contexts : work'[c] - work[c] = posted'[c] - posted[c]
           PROVE  Goal
  <2>1. \A c : Tracking(c)' = Tracking(c)
    BY <1>queued DEF Tracking, Holds
  <2>2. TrackingFinite'
    BY <1>0, <2>1 DEF TrackingFinite
  <2>3. ASSUME NEW c \in Contexts
        PROVE  work'[c] = Cardinality(Tracking(c)) + OtherWork(c)'
    <3>1. OtherWork(c)' - posted'[c] = OtherWork(c) - posted[c]
      BY <1>0, <1>queued
         DEF waitVars, OtherWork, WaitUnit, Counted, RequestUnit
    <3>2. /\ OtherWork(c)' \in Int /\ posted'[c] \in Int /\ posted[c] \in Int
          /\ work[c] \in Int /\ work'[c] \in Int
      BY <1>0, <1>queued DEF ExecutorTypes, OtherWork, WaitUnit, RequestUnit
    <3>3. /\ work'[c] - work[c] = posted'[c] - posted[c]
          /\ work[c] = Cardinality(Tracking(c)) + OtherWork(c)
          /\ Cardinality(Tracking(c)) \in Nat /\ OtherWork(c) \in Int
      BY <1>0, <1>queued
    <3>4. QED
      BY ONLY <3>1, <3>2, <3>3
  <2>4. QED
    BY <1>queued, <2>1, <2>2, <2>3 DEF Accounted
<1>7. ASSUME NEW x \in Executors, NEW t \in Contexts \cup {None},
             NEW how \in {"dispatch", "post", "defer", "execute"},
             Submit(x, how, t)
      PROVE  Goal
  <2>1. executor[x].context \in Contexts
    BY <1>0, <1>7 DEF ExecutorTypes, ExecutorRecords, Submit, Usable
  <2>2. QED
    BY <1>0, <1>7, <1>queued, <2>1 DEF ExecutorTypes, Submit
<1>8. ASSUME NEW c \in Contexts, RunPosted(c)
      PROVE  Goal
  BY <1>0, <1>8, <1>queued DEF ExecutorTypes, RunPosted
<1>9. QED
  BY ONLY <1>0, ExecutorStep, ExecutorCases, <1>1, <1>2, <1>3, <1>4, <1>5, <1>6,
     <1>7, <1>8

(* Every step keeps the accounts.                                           *)
LEMMA AccountedStep ==
    ASSUME WorkInvariant, [Next]_vars
    PROVE  /\ work' \in [Contexts -> Int] /\ TrackingFinite' /\ Accounted'
           /\ posted' \in [Contexts -> 0..MaxPosted]
<1> DEFINE Goal == /\ work' \in [Contexts -> Int] /\ TrackingFinite' /\ Accounted'
                   /\ posted' \in [Contexts -> 0..MaxPosted]
<1>0. /\ TypeOK /\ CallbackInvariant /\ ToldOnce /\ NoTagBeforeCall
      /\ TrackingFinite /\ Accounted
      /\ posted \in [Contexts -> 0..MaxPosted] /\ work \in [Contexts -> Nat]
  BY DEF WorkInvariant, TypeOK
<1>counted. \A c \in Contexts : Cardinality(Tracking(c)) \in Nat
  BY <1>0, FS_CardinalityType DEF TrackingFinite
<1>home. ASSUME UNCHANGED <<executor, assigning, posted>>,
                work' \in [Contexts -> Int],
                \A c \in Contexts : c # Home => work'[c] = work[c],
                work'[Home] - work[Home] = OtherWork(Home)' - OtherWork(Home)
         PROVE  Goal
  <2>1. \A c : Tracking(c)' = Tracking(c)
    BY <1>home DEF Tracking, Holds
  <2>2. TrackingFinite'
    BY <1>0, <2>1 DEF TrackingFinite
  <2>3. ASSUME NEW c \in Contexts
        PROVE  work'[c] = Cardinality(Tracking(c)) + OtherWork(c)'
    <3>1. work[c] = Cardinality(Tracking(c)) + OtherWork(c)
      BY <1>0 DEF Accounted
    <3>2. CASE c # Home
      BY <1>home, <3>1, <3>2 DEF OtherWork
    <3>3. CASE c = Home
      <4>1. /\ OtherWork(c) \in Int /\ OtherWork(c)' \in Int
            /\ work[c] \in Int /\ work'[c] \in Int
        BY <1>0, <1>home, OperationsAssumption
           DEF OtherWork, WaitUnit, RequestUnit
      <4>2. QED
        BY <1>counted, <1>home, <3>1, <3>3, <4>1
    <3>4. QED
      BY <3>2, <3>3
  <2>4. QED
    BY <1>0, <1>home, <2>1, <2>2, <2>3 DEF Accounted
<1>1. CASE ExecutorStep
  BY <1>1, ExecutorsAccounted
<1>2. CASE WaitAction
  <2>1. WaitsBalanced /\ UNCHANGED <<executor, assigning, posted, request>>
    BY <1>0, <1>2, WaitsStep
  <2>2. work'[Home] - work[Home] = OtherWork(Home)' - OtherWork(Home)
    <3>1. /\ posted[Home] \in Int /\ posted'[Home] = posted[Home]
          /\ RequestUnit \in Int /\ RequestUnit' = RequestUnit
          /\ WaitUnit("first") \in Int /\ WaitUnit("second") \in Int
          /\ WaitUnit("first")' \in Int /\ WaitUnit("second")' \in Int
      BY <1>0, <2>1, OperationsAssumption DEF RequestUnit, WaitUnit
    <3>2. QED
      BY <2>1, <3>1 DEF WaitsBalanced, OtherWork
  <2>3. QED
    BY <1>home, <2>1, <2>2 DEF WaitsBalanced
<1>3. CASE RequestStep
  <2>1. /\ work' \in [Contexts -> Int]
        /\ \A c \in Contexts : c # Home => work'[c] = work[c]
        /\ work'[Home] - work[Home] = RequestUnit' - RequestUnit
        /\ UNCHANGED <<executor, assigning, posted, waitVars>>
    BY <1>0, <1>3, RequestBalanced, RequestTypes
  <2>2. work'[Home] - work[Home] = OtherWork(Home)' - OtherWork(Home)
    <3>1. /\ posted[Home] \in Int /\ posted'[Home] = posted[Home]
          /\ RequestUnit \in Int /\ RequestUnit' \in Int
          /\ WaitUnit("first") \in Int /\ WaitUnit("second") \in Int
          /\ WaitUnit("first")' = WaitUnit("first")
          /\ WaitUnit("second")' = WaitUnit("second")
      BY <1>0, <2>1, OperationsAssumption
         DEF RequestUnit, WaitUnit, Counted, waitVars
    <3>2. QED
      BY <2>1, <3>1 DEF OtherWork
  <2>3. QED
    BY <1>home, <2>1, <2>2
<1>4. CASE Shutdown \/ UNCHANGED vars
  <2>1. UNCHANGED <<work, executor, assigning, posted, stage, request>>
    BY <1>4 DEF Shutdown, OnlyWaits, vars, workVars, waitVars
  <2>2. \A c \in Contexts : OtherWork(c)' = OtherWork(c) /\ OtherWork(c) \in Int
    BY <1>0, <2>1, OperationsAssumption
       DEF OtherWork, WaitUnit, Counted, RequestUnit
  <2>3. QED
    BY <1>0, <1>home, <2>1, <2>2, OperationsAssumption
<1>5. QED
  BY <1>1, <1>2, <1>3, <1>4 DEF Next, WaitAction

(* Every step preserves the invariant.                                      *)
LEMMA WorkStep ==
    ASSUME WorkInvariant, [Next]_vars
    PROVE  WorkInvariant'
<1>0. /\ TypeOK /\ CallbackInvariant /\ ToldOnce /\ NoTagBeforeCall
      /\ AssignmentUsesExecutors /\ ExecutorTypes
  BY TypeParts DEF WorkInvariant
<1>1. CallbackInvariant'
  BY <1>0, CallbackStep
<1>2. TrackingFinite' /\ Accounted' /\ posted' \in [Contexts -> 0..MaxPosted]
  BY AccountedStep
<1>3. work' \in [Contexts -> Nat]
  <2>1. work' \in [Contexts -> Int]
    BY AccountedStep
  <2>2. ASSUME NEW c \in Contexts
        PROVE  work'[c] >= 0
    <3>1. Cardinality(Tracking(c)') \in Nat
      BY <1>2, FS_CardinalityType DEF TrackingFinite
    <3>2. OtherWork(c)' \in Nat
      BY <1>2, OperationsAssumption DEF OtherWork, WaitUnit, RequestUnit
    <3>3. QED
      BY <1>2, <3>1, <3>2 DEF Accounted
  <2>3. QED
    BY <2>1, <2>2
<1>4. /\ executor' \in [Executors -> ExecutorRecords \cup {None}]
      /\ assigning' \in (Executors \X Executors) \cup {None}
      /\ AssignmentUsesExecutors'
  <2>1. CASE ExecutorStep
    BY <1>0, <2>1, ExecutorsStep
  <2>2. CASE UNCHANGED <<executor, assigning>>
    BY <1>0, <2>2 DEF ExecutorTypes, AssignmentUsesExecutors, SameType
  <2>3. WaitAction => UNCHANGED <<executor, assigning>>
    BY <1>0, WaitsStep
  <2>4. RequestStep => UNCHANGED <<executor, assigning>>
    BY <1>0, RequestTypes
  <2>5. Shutdown \/ UNCHANGED vars => UNCHANGED <<executor, assigning>>
    BY DEF Shutdown, OnlyWaits, vars, workVars
  <2>6. QED
    BY <2>1, <2>2, <2>3, <2>4, <2>5 DEF Next, WaitAction
<1>5. /\ ToldOnce' /\ NoTagBeforeCall'
      /\ scenario' \in {"executors", "waits", "request"}
      /\ request' \in Requests
      /\ starter' \in [Waits -> Threads] /\ completions' \in [Waits -> 0..1]
      /\ callback' \in {"none", "registered", "constructor", "executing",
                        "completed", "removed"}
      /\ FlagTypes'
  <2> USE DEF FlagTypes
  <2>0. /\ scenario \in {"executors", "waits", "request"}
        /\ request \in Requests
        /\ starter \in [Waits -> Threads] /\ completions \in [Waits -> 0..1]
        /\ callback \in {"none", "registered", "constructor", "executing",
                         "completed", "removed"}
        /\ FlagTypes
    BY <1>0 DEF TypeOK, StopTypeOK, Requests
  <2>1. CASE WaitAction
    <3>1. UNCHANGED <<request, scenario>> /\ ToldOnce'
      BY <1>0, <2>1, WaitsStep
    <3>2. NoTagBeforeCall'
      BY <1>0, <3>1 DEF NoTagBeforeCall
    <3>3. QED
      BY <1>0, <2>0, <2>1, <3>1, <3>2, WaitDetailsStep
  <2>2. CASE RequestStep
    <3>1. /\ UNCHANGED <<scenario, shutdown, waitVars>>
          /\ request' \in Requests /\ NoTagBeforeCall'
      BY <1>0, <2>2, RequestTypes
    <3>2. QED
      BY <1>0, <2>0, <3>1 DEF waitVars, stopVars, ToldOnce
  <2>3. CASE UNCHANGED <<scenario, waitVars, request>> /\ shutdown' \in BOOLEAN
    BY <1>0, <2>0, <2>3 DEF waitVars, stopVars, ToldOnce, NoTagBeforeCall
  <2>4. ExecutorStep => UNCHANGED <<scenario, shutdown, waitVars, request>>
    BY <1>0, ExecutorCases DEF OnlyExecutors
  <2>5. Shutdown \/ UNCHANGED vars =>
            UNCHANGED <<scenario, waitVars, request>> /\ shutdown' \in BOOLEAN
    BY <2>0 DEF Shutdown, OnlyWaits, vars
  <2>6. QED
    BY <2>0, <2>1, <2>2, <2>3, <2>4, <2>5 DEF Next, WaitAction
<1>6. DetailTypes' /\ ExecutorTypes'
  BY <1>2, <1>3, <1>4, <1>5 DEF DetailTypes, ExecutorTypes, Requests
<1>7. TypeOK'
  BY <1>1, <1>5, <1>6, TypeParts
     DEF CallbackInvariant, WaitTypes, SharedTypes
<1>8. QED
  BY <1>1, <1>2, <1>4, <1>5, <1>7 DEF WorkInvariant

(* At first there is no executor and no work.                               *)
LEMMA WorkInit ==
    ASSUME Init
    PROVE  WorkInvariant
<1> USE OperationsAssumption DEF Init
<1>1. CallbackInvariant
  BY CallbackInit
<1>2. DetailTypes /\ ExecutorTypes
  BY DEF DetailTypes, ExecutorTypes, Threads, StopInit
<1>3. FlagTypes
  BY DEF FlagTypes, StopInit
<1>4. TypeOK
  BY <1>1, <1>2, <1>3, TypeParts
     DEF CallbackInvariant, WaitTypes, SharedTypes
<1>5. ToldOnce /\ NoTagBeforeCall /\ AssignmentUsesExecutors
  BY DEF ToldOnce, NoTagBeforeCall, AssignmentUsesExecutors
<1>6. \A c : Tracking(c) = {}
  BY DEF Tracking, Holds
<1>7. TrackingFinite
  BY <1>6, FS_EmptySet DEF TrackingFinite
<1>8. Accounted
  <2>1. WaitUnit("first") = 0 /\ WaitUnit("second") = 0 /\ RequestUnit = 0
    BY DEF WaitUnit, Counted, RequestUnit, Waits, Completing
  <2>2. \A c \in Contexts : OtherWork(c) = 0 /\ work[c] = 0
    BY <2>1 DEF OtherWork
  <2>3. \A c \in Contexts : Cardinality(Tracking(c)) = 0
    BY <1>6, FS_EmptySet
  <2>4. QED
    BY ONLY <2>2, <2>3 DEF Accounted
<1>9. QED
  BY <1>1, <1>4, <1>5, <1>7, <1>8 DEF WorkInvariant

(* The invariant holds for any set of contexts, any number of executors and *)
(* any number of submitted functions.                                       *)
THEOREM WorkInvariantAlways == Spec => []WorkInvariant
<1>1. Init => WorkInvariant
  BY WorkInit
<1>2. WorkInvariant /\ [Next]_vars => WorkInvariant'
  BY WorkStep
<1>3. QED
  BY <1>1, <1>2, PTL DEF Spec

(* Type correctness: no counter goes below zero and no receiver or handler  *)
(* is told twice.                                                           *)
THEOREM TypeCorrect == Spec => []TypeOK
<1>1. WorkInvariant => TypeOK
  BY DEF WorkInvariant
<1>2. QED
  BY <1>1, WorkInvariantAlways, PTL

(* outstanding_work of every context is exactly the number of executors     *)
(* that track it, functions in its queues and operations under way, however *)
(* executors are copied, moved, assigned and destroyed: the context is not  *)
(* stopped while something counts on it, and is once nothing does.          *)
THEOREM WorkAccountingAlways == Spec => []WorkAccounting
<1>1. WorkInvariant => WorkAccounting
  BY AccountedIsAccounting DEF WorkInvariant
<1>2. QED
  BY <1>1, WorkInvariantAlways, PTL
=============================================================================
