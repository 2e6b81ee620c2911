---------------------------- MODULE StopCallback ----------------------------
(***************************************************************************)
(* External: a unifex::inplace_stop_source and the one stop callback that   *)
(* an operation state keeps in a boost::optional.  request_stop() executes  *)
(* a registered callback.  A callback that is constructed after the request *)
(* is executed by its constructor.  The destructor of a callback waits for  *)
(* its execution on another thread to be reported as completed, which does  *)
(* not happen if the execution has destroyed the callback itself.           *)
(***************************************************************************)
VARIABLES
    stop_requested,   \* of the source
    callback,         \* "none", "registered", "constructor", "executing",
                      \* "completed" or "removed" (destroyed while executing)
    engaged           \* the optional holds the callback

stopVars == <<stop_requested, callback, engaged>>

StopTypeOK ==
    /\ stop_requested \in BOOLEAN
    /\ callback \in {"none", "registered", "constructor", "executing",
                     "completed", "removed"}
    /\ engaged \in BOOLEAN

StopInit == stop_requested = FALSE /\ callback = "none" /\ engaged = FALSE

(* optional::emplace, which is not engaged until the constructor returns.   *)
EmplaceCallback ==
    /\ callback' = IF stop_requested THEN "constructor" ELSE "registered"
    /\ engaged' = TRUE
    /\ UNCHANGED stop_requested

MarkStopRequested ==
    /\ ~stop_requested
    /\ stop_requested' = TRUE
    /\ callback' = IF callback = "registered" THEN "executing" ELSE callback
    /\ UNCHANGED engaged

(* The destructor in the thread that executes the callback ...              *)
DestroyInExecution ==
    /\ callback' = "removed"
    /\ UNCHANGED <<stop_requested, engaged>>

Disengage == engaged' = FALSE /\ UNCHANGED <<stop_requested, callback>>

ExecutionReturns ==
    /\ callback' = IF callback = "executing" THEN "completed" ELSE callback
    /\ UNCHANGED <<stop_requested, engaged>>

(* ... and optional::reset in a thread that does not, which has to wait if  *)
(* the execution has begun and has not been reported as completed.          *)
MustWait == engaged /\ callback \in {"executing", "removed"}

ResetCallback ==
    /\ callback' = IF engaged THEN "none" ELSE callback
    /\ engaged' = FALSE
    /\ UNCHANGED stop_requested
=============================================================================
