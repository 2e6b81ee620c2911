---------------------------- MODULE PollContext ----------------------------
(***************************************************************************)
(* agrpc::PollContext: a GrpcContext that is polled from the handlers of    *)
(* another execution context, here one whose only thread is Main.           *)
(* async_poll evaluates the stop predicate (by default is_stopped) and      *)
(* submits a handler that polls once and calls async_poll again.  Between   *)
(* two of them the other context runs other handlers, which may call the    *)
(* GrpcContext as well.  Nothing else runs or destroys the GrpcContext.     *)
(***************************************************************************)
EXTENDS GrpcContext

VARIABLE polling   \* "none", "predicate", "submitted" or "poll"

pollVars == <<vars, polling>>

PollInit == Init /\ polling = "none"
-----------------------------------------------------------------------------
(* Main is in a handler of the other context, or in a handler of the        *)
(* GrpcContext that poll() invokes, and not in PollContext's own code.      *)
MainIsInUserCode == polling # "predicate" /\ (polling = "poll" => loop # "idle")

AsyncPoll ==
    /\ polling = "none"
    /\ LoopFrom("idle")
    /\ polling' = "predicate"
    /\ UNCHANGED vars

IsGrpcContextStoppedPredicate == stopped

(* The predicate, then execution::execute.                                  *)
CheckPredicate ==
    /\ polling = "predicate"
    /\ polling' = IF IsGrpcContextStoppedPredicate THEN "none" ELSE "submitted"
    /\ UNCHANGED vars

(* PollContextHandler::operator(): poll() ...                               *)
InvokePollHandler ==
    /\ polling = "submitted"
    /\ Poll
    /\ polling' = "poll"

(* ... and, when it has returned, async_poll().                             *)
PollAgain ==
    /\ polling = "poll"
    /\ LoopFrom("idle")
    /\ polling' = "predicate"
    /\ UNCHANGED vars

ContextStep ==
    /\ \/ \E t \in Threads : (t = Main => MainIsInUserCode) /\ UserStep(t)
       \/ \E t \in Threads : CallStep(t)
       \/ LoopStep
       \/ CompletionReturns
       \/ AlarmFires
       \/ \E tag \in Tags : TagCompletes(tag)
    /\ UNCHANGED polling

PollNext ==
    \/ AsyncPoll
    \/ CheckPredicate
    \/ InvokePollHandler
    \/ PollAgain
    \/ ContextStep

(* The other context runs its handlers one after the other, so the          *)
(* submitted one is invoked although others make calls before.              *)
PollFairness ==
    /\ WF_pollVars(CheckPredicate)
    /\ SF_pollVars(InvokePollHandler)
    /\ WF_pollVars(PollAgain)
    /\ \A t \in Threads : WF_pollVars(CallStep(t) /\ UNCHANGED polling)
    /\ WF_pollVars(LoopStep /\ UNCHANGED polling)
    /\ SF_pollVars(CompletionReturns /\ UNCHANGED polling)
    /\ WF_pollVars(AlarmFires /\ UNCHANGED polling)
    /\ \A tag \in Tags \cup {HAS_REMOTE_WORK_TAG} :
          SF_pollVars(GotEvent(tag) /\ UNCHANGED polling)

PollSpec == PollInit /\ [][PollNext]_pollVars /\ PollFairness
-----------------------------------------------------------------------------
(* Polling ends when the context is out of work, also if the last work was  *)
(* finished by another thread while a poll() was entering its loop and its  *)
(* stop() was erased: the next poll() finds no work.                        *)
PollingEndsWithoutWork ==
    (polling # "none" /\ outstanding_work = 0)
        ~> (polling = "none" \/ outstanding_work # 0)

(* Polling completes what is posted to the GrpcContext, though each poll()  *)
(* only handles the events that are ready, unless polling ends.             *)
PostedIsPolled ==
    \A op \in Ops : (op \in Queued /\ polling # "none")
                        ~> (op \notin Queued \/ polling = "none")

(* "Repeatedly call .poll() on the GrpcContext until it is stopped":        *)
(* a context that has been stopped is not polled for ever.  It does not     *)
(* hold if another thread may call stop(): see the README.                  *)
StopEndsPolling == (stopped /\ polling # "none") ~> (polling = "none")
=============================================================================
