------------------------------ MODULE Examples ------------------------------
(***************************************************************************)
(* The example programs: a client process and a server process whose        *)
(* coroutines talk through the functions of rpc.hpp.  A coroutine is a      *)
(* table from the points where it is suspended to what it awaits there and  *)
(* where it goes from there for each result; everything between two         *)
(* suspension points is one step of its GrpcContext.  The last four         *)
(* `examples` are users that may call whatever the comments of rpc.hpp      *)
(* allow them to call, so that every function is used.                      *)
(***************************************************************************)
EXTENDS RpcStreams, FiniteSets

CONSTANTS
    Rounds      \* of the ping-pong and number of streamed responses; 10

ASSUME RoundsAssumption == Rounds \in Nat \ {0}

(* What is awaited at a point, the coroutines that are started there, and   *)
(* for each result the possible targets: the next point and the effect on   *)
(* the way to it.                                                           *)
Await(fns, next) == [await |-> fns, starts |-> {}, next |-> next]
AwaitAll(frames, next) == [await |-> {"join"}, starts |-> frames, next |-> next]

Target(point, effect, again) ==
    {[point |-> point, effect |-> effect, again |-> again]}
Goto(point) == Target(point, "none", {TRUE, FALSE})
Do(effect, point) == Target(point, effect, {TRUE, FALSE})
More(point) == Target(point, "none", {TRUE})     \* fewer than Rounds so far
Last(point) == Target(point, "none", {FALSE})
Return == Goto("end")
Abort == Do("abort", "aborted")                  \* abort_if_not
Expect(point) == Do("expect", point)      \* abort_if_not(AsExpected), goto

AnyOf(targets) == [r \in Results |-> targets]
Always(point) == AnyOf(Goto(point))
IfOk(then, else) ==
    [r \in Results |-> IF r \in {"true", "OK"} THEN then ELSE else]

-----------------------------------------------------------------------------
(* streaming-server.cpp                                                     *)

(* The pending request of repeatedly_request; each request that it gets     *)
(* starts the handler and the next request.                                 *)
register_client_streaming_handler ==
    [start |-> Goto("request"),
     request |-> Await({"Request"}, IfOk(Goto("handle"), Return)),
     handle |-> AwaitAll({"handle_client_streaming_request",
                          "next_client_streaming_request"}, Always("end"))]

next_client_streaming_request ==
    [start |-> Goto("request"),
     request |-> Await({"Request"}, Always("end"))]

(* Mutant: the client is answered only after its stream was read.           *)
HandlerWithoutMetadata ==
    [start |-> Goto("read"),
     read |-> Await({"Read"}, IfOk(Goto("read"), Goto("finish"))),
     finish |-> Await({"Finish"}, Always("end"))]

handle_client_streaming_request ==
    [start |-> Goto("send_initial_metadata"),
     send_initial_metadata |-> Await({"SendInitialMetadata"}, Always("read")),
     read |-> Await({"Read"}, IfOk(Goto("read"), Goto("finish"))),
     finish |-> Await({"Finish"}, Always("end"))]

reader ==
    [start |-> Goto("read"),
     read |-> Await({"Read"}, IfOk(Do("send", "read"), Do("close", "end")))]

writer ==
    [start |-> Goto("receive"),
     receive |-> Await({"receive"}, IfOk(Goto("post"), Return)),
     post |-> Await({"post"}, Always("write")),
     write |-> Await({"Write"}, IfOk(Goto("receive"), Goto("failed")))]

handle_bidirectional_streaming_request ==
    [start |-> Goto("request"),
     request |-> Await({"Request"}, IfOk(Goto("reader_and_writer"), Return)),
     reader_and_writer |->
        AwaitAll({"reader", "writer"}, IfOk(Goto("finish"), Return)),
     finish |-> Await({"Finish"}, Always("end"))]

handle_slow_unary_request ==
    [start |-> Goto("request"),
     request |-> Await({"Request"}, IfOk(Goto("wait"), Return)),
     wait |-> Await({"wait"}, Always("finish")),
     finish |-> Await({"Finish"}, Always("end"))]

handle_shutdown_request ==
    [start |-> Goto("request"),
     request |-> Await({"Request"}, IfOk(Goto("finish"), Return)),
     finish |-> Await({"Finish"}, IfOk(Do("shutdown", "end"), Return))]

(* signals.async_wait in the constructor of ServerShutdown: its handler     *)
(* ignores the error code.                                                  *)
signals ==
    [start |-> Goto("signal"),
     signal |-> Await({"signal"}, AnyOf(Do("shutdown", "end")))]

-----------------------------------------------------------------------------
(* streaming-client.cpp                                                     *)

make_client_streaming_request ==
    [start |-> Goto("request"),
     request |-> Await({"Request"}, Always("read_initial_metadata")),
     read_initial_metadata |-> Await({"ReadInitialMetadata"}, Always("write")),
     write |-> Await({"Write"}, Always("writes_done")),
     writes_done |-> Await({"WritesDone"}, Always("finish")),
     finish |-> Await({"Finish"}, IfOk(Return, Abort))]

(* Mutant: the next request is not held back until the response is read.    *)
PingWithoutPong ==
    [start |-> Goto("request"),
     request |-> Await({"Request"}, IfOk(Goto("ping"), Return)),
     ping |-> Await({"Write"}, IfOk(More("ping") \cup Last("writes_done"),
                                    Goto("writes_done"))),
     writes_done |-> Await({"WritesDone"}, Always("read")),
     read |-> Await({"Read"}, IfOk(Goto("read"), Goto("finish"))),
     finish |-> Await({"Finish"}, IfOk(Return, Abort))]

make_bidirectional_streaming_request ==
    [start |-> Goto("request"),
     request |-> Await({"Request"}, IfOk(Goto("ping_pong"), Return)),
     ping_pong |-> Await({"Read", "Write"},
        IfOk(More("ping_pong") \cup Last("writes_done"), Goto("writes_done"))),
     writes_done |-> Await({"WritesDone"}, Always("finish")),
     finish |-> Await({"Finish"}, IfOk(Return, Abort))]

(* run_with_deadline awaits the alarm and finish at the same time.  What is *)
(* expected: not_too_exceed has not passed.                                 *)
make_and_cancel_unary_request ==
    [start |-> Do("AsyncUnary", "deadline"),
     deadline |-> Await({"wait", "Finish"},
        [r \in Results |-> IF r = "CANCELLED" THEN Expect("end") ELSE Abort])]

make_shutdown_request ==
    [start |-> Do("AsyncUnary", "finish"),
     finish |-> Await({"Finish"}, IfOk(Return, Abort))]

(* The two streams at the same time, then the other two calls; `part` are   *)
(* the ones that are looked at.                                             *)
streaming_client_main(part) ==
    [start |-> Goto("both"),
     both |-> AwaitAll(part \cap {"make_client_streaming_request",
                                  "make_bidirectional_streaming_request"},
                       Always("cancel")),
     cancel |-> AwaitAll(part \cap {"make_and_cancel_unary_request"},
                         Always("shutdown")),
     shutdown |-> AwaitAll({"make_shutdown_request"}, Always("end"))]

-----------------------------------------------------------------------------
(* unifex-server.cpp and unifex-client.cpp                                  *)

(* Its handler stops the repeatedly_request before the next request is      *)
(* initiated (RepeatedlyRequestSender), which makes it a single request.    *)
register_unary_request_handler ==
    [start |-> Goto("request"),
     request |-> Await({"Request"}, IfOk(Goto("finish"), Return)),
     finish |-> Await({"Finish"}, Always("end"))]

handle_server_streaming_request ==
    [start |-> Goto("request"),
     request |-> Await({"Request"}, IfOk(Goto("write"), Return)),
     write |-> Await({"Write"},
                     AnyOf(More("write") \cup Last("finish"))),
     finish |-> Await({"Finish"}, Always("end"))]

unifex_handle_slow_unary_request == handle_slow_unary_request

make_unary_request ==
    [start |-> Do("AsyncUnary", "finish"),
     finish |-> Await({"Finish"}, IfOk(Return, Abort))]

make_server_streaming_request ==
    [start |-> Goto("request"),
     request |-> Await({"Request"}, IfOk(Goto("read"), Abort)),
     read |-> Await({"Read"}, IfOk(Goto("read"), Goto("finish"))),
     finish |-> Await({"Finish"}, IfOk(Return, Abort))]

(* Here nobody looks at the time.                                           *)
unifex_make_and_cancel_unary_request ==
    [start |-> Do("AsyncUnary", "deadline"),
     deadline |-> Await({"wait", "Finish"},
        [r \in Results |-> IF r = "CANCELLED" THEN Return ELSE Abort])]

-----------------------------------------------------------------------------
(* hello-world-*.cpp and share-io-context-*.cpp.  The server of the former  *)
(* does not look at the result of request: it is shut down after run().     *)

hello_world_client == make_unary_request

hello_world_server ==
    [start |-> Goto("request"),
     request |-> Await({"Request"}, Always("finish")),
     finish |-> Await({"Finish"}, Always("end"))]

(* What is expected: the integer that was sent.                             *)
make_grpc_request ==
    [start |-> Do("AsyncUnary", "finish"),
     finish |-> Await({"Finish"}, IfOk(Expect("end"), Abort))]

handle_grpc_request ==
    [start |-> Goto("request"),
     request |-> Await({"Request"}, IfOk(Goto("finish"), Return)),
     finish |-> Await({"Finish"}, Always("end"))]

-----------------------------------------------------------------------------
(* Users that follow the comments of rpc.hpp: a client that streams writes  *)
(* until it half-closes, reads until a read fails and then finishes, and a  *)
(* server that reads until a read fails, writes, and finishes once.         *)

ReadsOf(side, kind) ==
    kind = "bidirectional"
    \/ kind = (IF side = "client" THEN "server_streaming" ELSE "client_streaming")

AnyClient(kind) ==
    LET rest == IF ReadsOf("client", kind) THEN Goto("read") ELSE Goto("finish")
        closing == Goto("writes_done") \cup Goto("write_last")
        body == IF kind = "server_streaming" THEN rest
                ELSE closing \cup Goto("write")
        metadata == IF kind = "server_streaming"
                    THEN Goto("read_initial_metadata") ELSE {}
    IN [start |-> IF kind = "unary"
                  THEN Do("AsyncUnary", "read_initial_metadata")
                       \cup Do("AsyncUnary", "finish")
                  ELSE Goto("request"),
        request |-> Await({"Request"}, IfOk(body \cup metadata, Goto("finish"))),
        read_initial_metadata |-> Await({"ReadInitialMetadata"}, AnyOf(rest)),
        write |-> Await({"Write"}, IfOk(closing \cup More("write"),
                                        Goto("finish"))),
        write_last |-> Await({"WriteLast"}, AnyOf(rest)),
        writes_done |-> Await({"WritesDone"}, AnyOf(rest)),
        read |-> Await({"Read"}, IfOk(Goto("read"), Goto("finish"))),
        finish |-> Await({"Finish"}, Always("end"))]

AnyServer(kind) ==
    LET single == kind \in {"unary", "client_streaming"}
        closing == Goto("finish")
                   \cup (IF single THEN Goto("finish_with_error")
                         ELSE Goto("write_last") \cup Goto("write_and_finish"))
        answer == IF single THEN closing ELSE closing \cup Goto("write")
        body == IF ReadsOf("server", kind) THEN Goto("read") ELSE answer
    IN [start |-> Goto("request"),
        request |-> Await({"Request"},
                          IfOk(body \cup Goto("send_initial_metadata"), Return)),
        send_initial_metadata |-> Await({"SendInitialMetadata"}, AnyOf(body)),
        read |-> Await({"Read"}, IfOk(Goto("read"), answer)),
        write |-> Await({"Write"}, AnyOf(closing \cup More("write"))),
        write_last |-> Await({"WriteLast"}, Always("finish")),
        write_and_finish |-> Await({"WriteAndFinish"}, Always("end")),
        finish |-> Await({"Finish"}, Always("end")),
        finish_with_error |-> Await({"FinishWithError"}, Always("end"))]

-----------------------------------------------------------------------------
(* The coroutines of the two processes and the call that each works on.     *)

Client(call, program) == [side |-> "client", call |-> call, program |-> program]
Server(call, program) == [side |-> "server", call |-> call, program |-> program]

(* The calls of streaming-server.cpp share nothing but the shutdown, so     *)
(* that each is run with the shutdown request and the signal.               *)
streaming(frames) ==
    LET shared ==
          [main |-> Client("never", streaming_client_main(DOMAIN frames)),
           make_shutdown_request |-> Client("shutdown", make_shutdown_request),
           handle_shutdown_request |->
                Server("shutdown", handle_shutdown_request),
           signals |-> Server("never", signals)]
    IN [f \in DOMAIN frames \cup DOMAIN shared |->
            IF f \in DOMAIN frames THEN frames[f] ELSE shared[f]]

streaming_client_streaming ==
    [register_client_streaming_handler |->
        Server("client_streaming", register_client_streaming_handler),
     next_client_streaming_request |->
        Server("never", next_client_streaming_request),
     handle_client_streaming_request |->
        Server("client_streaming", handle_client_streaming_request),
     make_client_streaming_request |->
        Client("client_streaming", make_client_streaming_request)]

streaming_bidirectional ==
    [handle_bidirectional_streaming_request |->
        Server("bidirectional", handle_bidirectional_streaming_request),
     reader |-> Server("bidirectional", reader),
     writer |-> Server("bidirectional", writer),
     make_bidirectional_streaming_request |->
        Client("bidirectional", make_bidirectional_streaming_request)]

streaming_slow_unary ==
    [handle_slow_unary_request |->
        Server("slow_unary", handle_slow_unary_request),
     make_and_cancel_unary_request |->
        Client("slow_unary", make_and_cancel_unary_request)]

unifex ==
    [register_unary_request_handler |->
        Server("unary", register_unary_request_handler),
     handle_server_streaming_request |->
        Server("server_streaming", handle_server_streaming_request),
     handle_slow_unary_request |->
        Server("slow_unary", unifex_handle_slow_unary_request),
     make_unary_request |-> Client("unary", make_unary_request),
     make_server_streaming_request |->
        Client("server_streaming", make_server_streaming_request),
     make_and_cancel_unary_request |->
        Client("slow_unary", unifex_make_and_cancel_unary_request)]

Programs ==
    [streaming_client_streaming |-> streaming(streaming_client_streaming),
     streaming_bidirectional |-> streaming(streaming_bidirectional),
     streaming_slow_unary |-> streaming(streaming_slow_unary),
     unifex |-> unifex,
     hello_world |-> [server |-> Server("unary", hello_world_server),
                      client |-> Client("unary", hello_world_client)],
     share_io_context |-> [server |-> Server("unary", handle_grpc_request),
                           client |-> Client("unary", make_grpc_request)],
     unary |-> [server |-> Server("unary", AnyServer("unary")),
                client |-> Client("unary", AnyClient("unary"))],
     client_streaming |->
        [server |-> Server("client_streaming", AnyServer("client_streaming")),
         client |-> Client("client_streaming", AnyClient("client_streaming"))],
     server_streaming |->
        [server |-> Server("server_streaming", AnyServer("server_streaming")),
         client |-> Client("server_streaming", AnyClient("server_streaming"))],
     bidirectional |->
        [server |-> Server("bidirectional", AnyServer("bidirectional")),
         client |-> Client("bidirectional", AnyClient("bidirectional"))]]

KindOf(call) ==
    IF call \in {"slow_unary", "shutdown", "never"} THEN "unary" ELSE call


-----------------------------------------------------------------------------
VARIABLES
    example,    \* which programs are run
    calls,      \* the state of each gRPC call
    at,         \* the point where a coroutine is suspended, ...
    pending,    \* what it still waits for there, ...
    result,     \* the result of what it has waited for, ...
    rounds,     \* how often it has been there in a row ...
    message,    \* and the last message that it has got
    begun,      \* the methods called so far on each call, by each side
    channel,    \* the asio::experimental::channel from reader to writer
    cancelled,  \* the alarm of run_with_deadline has been cancelled
    shutdown,   \* of ServerShutdown and of the server
    threads,    \* number of shutdown threads
    signalled,  \* SIGINT or SIGTERM has been delivered
    failed      \* a call has failed that nobody cancelled

vars == <<example, calls, at, pending, result, rounds, message, begun, channel,
          cancelled, shutdown, threads, signalled, failed>>

Frames == DOMAIN Programs[example]
FramesOf(side) == {f \in Frames : Programs[example][f].side = side}
SideOf(f) == Programs[example][f].side
CallOf(f) == Programs[example][f].call
CallsOf(x) == {Programs[x][f].call : f \in DOMAIN Programs[x]}
TableOf(f) == Programs[example][f].program
PointsOf(f) == DOMAIN TableOf(f) \ {"start"}
ChildrenOf(f) == UNION {TableOf(f)[l].starts : l \in PointsOf(f)}

Ended == {"end", "failed", "aborted"}

RpcMethods ==
    UNION {Methods("client", k) \cup Methods("server", k) : k \in Kinds}

(* The server runs each coroutine to its first point, where it waits for a  *)
(* call or for the signal, before it looks at its completion queue.         *)
FirstPoint(f) == (CHOOSE t \in TableOf(f).start : TRUE).point

Init ==
    /\ example \in DOMAIN Programs
    /\ calls = [c \in CallsOf(example) |-> NewCall(KindOf(c))]
    /\ at = [f \in Frames |->
               IF \E g \in Frames : f \in ChildrenOf(g) THEN "idle"
               ELSE IF SideOf(f) = "client" THEN "start" ELSE FirstPoint(f)]
    /\ pending = [f \in Frames |->
                    CASE at[f] = "idle" -> {}
                      [] at[f] = "start" -> {"start"}
                      [] OTHER -> TableOf(f)[at[f]].await]
    /\ result = [f \in Frames |-> "true"]
    /\ rounds = [f \in Frames |-> 0]
    /\ message = [f \in Frames |-> 1]
    /\ begun = [c \in CallsOf(example) |-> [x \in Sides |-> {}]]
    /\ channel = [queue |-> <<>>, closed |-> FALSE]
    /\ cancelled = FALSE
    /\ shutdown = "no"
    /\ threads = 0
    /\ signalled = FALSE
    /\ failed = FALSE

-----------------------------------------------------------------------------
(* The results of what a coroutine waits for, each with the call after it.  *)

(* The delays of the alarms are 2 s in the server and at most 100 ms in the *)
(* client, which learns of the end of a call that it has cancelled within   *)
(* the remaining 1.9 s.                                                     *)
WaitResults(f) ==
    LET client == pending["make_and_cancel_unary_request"]
    IN IF SideOf(f) = "client"
       THEN {"true"} \cup (IF cancelled THEN {"false"} ELSE {})
       ELSE {r \in {"true"} : /\ "wait" \notin client
                              /\ Dead(calls[CallOf(f)]) => "Finish" \notin client}

(* Mutant: either of them.                                                  *)
JoinAnyResults(f) ==
    {"true" : g \in {h \in TableOf(f)[at[f]].starts : at[h] \in Ended}}

(* operator&& of two awaitables: both have completed.                       *)
JoinResults(f) ==
    LET children == TableOf(f)[at[f]].starts
    IN IF \A g \in children : at[g] \in Ended
       THEN {IF \E g \in children : at[g] = "failed" THEN "false" ELSE "true"}
       ELSE {}

ReceiveResults ==
    CASE channel.queue # <<>> -> {"true"}
      [] channel.queue = <<>> /\ channel.closed -> {"false"}
      [] OTHER -> {}

(* Mutant: signals.cancel() is missing.                                     *)
SignalNeverCancelled == IF signalled THEN {"true"} ELSE {}

SignalResults ==
    IF signalled \/ shutdown \in {"cancelled", "shut_down"} THEN {"true"} ELSE {}

ResultsOf(f, fn) ==
    IF fn \in RpcMethods
    THEN Complete(SideOf(f), fn, calls[CallOf(f)], shutdown = "shut_down")
    ELSE (CASE fn \in {"start", "post"} -> {"true"}
            [] fn = "wait" -> WaitResults(f)
            [] fn = "join" -> JoinResults(f)
            [] fn = "receive" -> ReceiveResults
            [] fn = "signal" -> SignalResults) \X {calls[CallOf(f)]}

(* What the coroutine learns: the message that was read, or the outcome of  *)
(* everything it waits for; that of an alarm is not looked at.              *)
Got(f, fn, r, s) ==
    CASE r = "true" /\ fn = "Read" /\ SideOf(f) = "server" -> s.up[s.up_read]
      [] r = "true" /\ fn = "Read" /\ SideOf(f) = "client" ->
            s.down[s.down_read]
      [] r = "true" /\ fn = "Request" /\ s.up_read = 1 -> s.up[1]
      [] r = "true" /\ fn = "receive" -> Head(channel.queue)
      [] OTHER -> message[f]

Combined(f, fn, r) ==
    IF fn = "wait" \/ result[f] = "false" THEN result[f] ELSE r

(* What the coroutine sends next: the writer twice the request, the server  *)
(* stream its index and the others the message that they have got.          *)
Payload(f, n, m) ==
    CASE f = "writer" -> 2 * m
      [] f = "handle_server_streaming_request" -> n
      [] OTHER -> m

-----------------------------------------------------------------------------
(* Mutant: TryCancel is missing.                                            *)
RunWithDeadlineOnly(f, fn, r, s) ==
    /\ calls' = [calls EXCEPT ![CallOf(f)] = s]
    /\ cancelled' = (cancelled \/ (fn = "Finish" /\ "wait" \in pending[f]))

(* run_with_deadline, with || or stop_when: the first of the two to finish  *)
(* cancels the other one, and both are waited for.                          *)
RunWithDeadline(f, fn, r, s) ==
    /\ calls' = [calls EXCEPT ![CallOf(f)] =
                    IF fn = "wait" /\ r = "true" /\ "Finish" \in pending[f]
                    THEN Kill(s, "CANCELLED") ELSE s]
    /\ cancelled' = (cancelled \/ (fn = "Finish" /\ "wait" \in pending[f]))

(* Mutant: the ping-pong awaits read or write instead of both.              *)
ResumesOnFirst(f, left) == left = {} \/ at[f] = "ping_pong"

(* The coroutine is resumed once everything it awaits has completed.        *)
Resumes(f, left) == left = {}

(* Part of what it awaits has completed.                                    *)
CompletePart(f, fn) ==
    \E outcome \in ResultsOf(f, fn) :
        LET r == outcome[1]
            s == outcome[2]
        IN /\ ~Resumes(f, pending[f] \ {fn})
           /\ pending' = [pending EXCEPT ![f] = @ \ {fn}]
           /\ result' = [result EXCEPT ![f] = Combined(f, fn, r)]
           /\ message' = [message EXCEPT ![f] = Got(f, fn, r, s)]
           /\ RunWithDeadline(f, fn, r, s)
           /\ UNCHANGED <<example, at, rounds, begun, channel, shutdown,
                          threads, signalled, failed>>

(* Mutant: without the test of shutdown_thread.                             *)
StartShutdownAgain == threads' = threads + 1 /\ shutdown' = "thread"

(* ServerShutdown::shutdown                                                 *)
StartShutdown ==
    IF threads = 0
    THEN threads' = 1 /\ shutdown' = "thread"
    ELSE UNCHANGED <<threads, shutdown>>

(* async_send, async_receive and close on a channel without a buffer.  The  *)
(* sends that are still pending when it is closed are lost or delivered.    *)
ChannelEffect(effect, fn, m) ==
    \/ effect = "send" /\ channel' = [channel EXCEPT !.queue = Append(@, m)]
    \/ effect = "close" /\ \E q \in {<<>>, channel.queue} :
                              channel' = [queue |-> q, closed |-> TRUE]
    \/ fn = "receive" /\ channel.queue # <<>>
       /\ channel' = [channel EXCEPT !.queue = Tail(@)]
    \/ effect \notin {"send", "close"}
       /\ ~(fn = "receive" /\ channel.queue # <<>>)
       /\ UNCHANGED channel

(* It suspends at its next point: what it awaits there is initiated.  Of    *)
(* these at most one is not a read, an alarm or the finish of a client,     *)
(* which do nothing to the call when they are initiated.                    *)
Initiated(f, effect, fns, m, s) ==
    LET side == SideOf(f)
        first == IF effect \in RpcMethods THEN Initiate(side, effect, m, s)
                 ELSE {s}
        sends == IF "Write" \in fns THEN "Write" ELSE CHOOSE fn \in fns : TRUE
    IN IF Cardinality(fns) = 1 \/ "Write" \in fns
       THEN UNION {Initiate(side, sends, m, t) : t \in first} ELSE first

(* What the second abort_if_not of a client asks for.  The time left until  *)
(* not_too_exceed is abstracted: it has not passed as long as the 2 s of    *)
(* the server have not.                                                     *)
AsExpected(f, s) ==
    IF f = "make_and_cancel_unary_request"
    THEN "Finish" \notin begun[CallOf(f)]["server"]
    ELSE s.down[s.down_read] = s.up[1]

TargetsOf(f, r) ==
    IF at[f] = "start" THEN TableOf(f).start ELSE TableOf(f)[at[f]].next[r]

(* The coroutine f has everything it waits for and continues to its next    *)
(* suspension point or to its end.                                          *)
ResumeTo(f, fn, outcome, target) ==
    LET point == target.point
        effect == target.effect
        n == IF point # at[f] THEN 0
             ELSE IF rounds[f] < Rounds THEN rounds[f] + 1 ELSE Rounds
        m == Got(f, fn, outcome[1], outcome[2])
        fns == IF point \in Ended THEN {} ELSE TableOf(f)[point].await
        starts == IF point \in Ended THEN {} ELSE TableOf(f)[point].starts
        methods == (fns \cup {effect}) \cap RpcMethods
    IN /\ (rounds[f] + 1 < Rounds) \in target.again
       /\ effect # "abort"
       /\ effect = "expect" => AsExpected(f, outcome[2])
       /\ at' = [g \in Frames |-> IF g = f THEN point
                                   ELSE IF g \in starts THEN "start" ELSE at[g]]
       /\ pending' = [g \in Frames |->
                        IF g = f THEN fns \cup (pending[f] \ {fn})
                        ELSE IF g \in starts THEN {"start"} ELSE pending[g]]
       /\ result' = [result EXCEPT ![f] = "true"]
       /\ rounds' = [rounds EXCEPT ![f] = n]
       /\ message' = [message EXCEPT ![f] = m]
       /\ begun' = [begun EXCEPT ![CallOf(f)][SideOf(f)] = @ \cup methods]
       /\ \E s \in (IF fns = {} THEN {outcome[2]}
                     ELSE Initiated(f, effect, fns, Payload(f, n, m),
                                    outcome[2])) :
             calls' = [calls EXCEPT ![CallOf(f)] = s]
       /\ ChannelEffect(effect, fn, m)
       /\ IF effect = "shutdown" THEN StartShutdown
          ELSE UNCHANGED <<threads, shutdown>>
       /\ UNCHANGED <<example, cancelled, signalled, failed>>

Resume(f, fn) ==
    \E outcome \in ResultsOf(f, fn) :
        /\ Resumes(f, pending[f] \ {fn})
        /\ \E target \in TargetsOf(f, Combined(f, fn, outcome[1])) :
              ResumeTo(f, fn, outcome, target)

(* abort_if_not: the process ends and with it its calls.                    *)
AbortClient(f, fn) ==
    \E outcome \in ResultsOf(f, fn) :
        /\ Resumes(f, pending[f] \ {fn})
        /\ \E target \in TargetsOf(f, Combined(f, fn, outcome[1])) :
              \/ target.effect = "abort"
              \/ target.effect = "expect" /\ ~AsExpected(f, outcome[2])
        /\ at' = [g \in Frames |-> IF SideOf(g) = "client" THEN "aborted"
                                   ELSE at[g]]
        /\ pending' = [g \in Frames |-> IF SideOf(g) = "client" THEN {}
                                        ELSE pending[g]]
        /\ calls' = [c \in DOMAIN calls |-> Kill(calls[c], "ERROR")]
        /\ UNCHANGED <<example, result, rounds, message, begun, channel,
                       cancelled, shutdown, threads, signalled, failed>>

Step(f) ==
    /\ f \in Frames
    /\ \E fn \in pending[f] :
          CompletePart(f, fn) \/ Resume(f, fn) \/ AbortClient(f, fn)

(* The shutdown thread of ServerShutdown.  server.Shutdown() fails the      *)
(* pending requests and refuses calls that were not accepted by then.       *)
CancelSignals ==
    /\ shutdown = "thread"
    /\ shutdown' = "cancelled"
    /\ UNCHANGED <<example, calls, at, pending, result, rounds, message, begun,
                   channel, cancelled, threads, signalled, failed>>

ShutdownServer ==
    /\ shutdown = "cancelled"
    /\ shutdown' = "shut_down"
    /\ UNCHANGED <<example, calls, at, pending, result, rounds, message, begun,
                   channel, cancelled, threads, signalled, failed>>

RefuseCall(c) ==
    /\ shutdown = "shut_down"
    /\ calls[c].started /\ ~calls[c].accepted /\ ~Dead(calls[c])
    /\ calls' = [calls EXCEPT ![c] = Kill(@, "ERROR")]
    /\ UNCHANGED <<example, at, pending, result, rounds, message, begun,
                   channel, cancelled, shutdown, threads, signalled, failed>>

(* A deadline expires or a connection breaks; for one call of a behaviour.  *)
CallFails(c) ==
    /\ ~failed
    /\ calls[c].started /\ ~Dead(calls[c]) /\ calls[c].received = "none"
    /\ calls' = [calls EXCEPT ![c] = Kill(@, "ERROR")]
    /\ failed' = TRUE
    /\ UNCHANGED <<example, at, pending, result, rounds, message, begun,
                   channel, cancelled, shutdown, threads, signalled>>

Signal ==
    /\ "signals" \in Frames /\ ~signalled
    /\ signalled' = TRUE
    /\ UNCHANGED <<example, calls, at, pending, result, rounds, message, begun,
                   channel, cancelled, shutdown, threads, failed>>

EndedOn(side) == \A f \in FramesOf(side) : at[f] \in Ended \cup {"idle"}

(* The client has ended; the server has too or waits for another one.       *)
Done ==
    /\ EndedOn("client")
    /\ \A f \in FramesOf("server") :
          pending[f] \subseteq {"Request", "join", "signal"}
    /\ UNCHANGED vars

Progress ==
    \/ \E f \in Frames : Step(f)
    \/ CancelSignals
    \/ ShutdownServer
    \/ \E c \in DOMAIN calls : RefuseCall(c)

Next ==
    \/ Progress
    \/ \E c \in DOMAIN calls : CallFails(c)
    \/ Signal
    \/ Done

(* A GrpcContext and a thread pool that run complete what can be completed, *)
(* and gRPC ends what it refuses; nothing makes a call fail or a signal     *)
(* arrive.                                                                  *)
Fairness == WF_vars(Progress)

Spec == Init /\ [][Next]_vars /\ Fairness

-----------------------------------------------------------------------------
(* Every variable has its type; in particular ServerShutdown starts one     *)
(* thread, whichever of the signal, its cancellation and the shutdown       *)
(* request comes first.                                                     *)
TypeOK ==
    /\ example \in DOMAIN Programs
    /\ \A c \in DOMAIN calls : /\ calls[c].up_read \in 0 .. Len(calls[c].up)
                        /\ calls[c].down_read \in 0 .. Len(calls[c].down)
    /\ \A f \in Frames : at[f] \in Ended \cup {"idle", "start"} \cup PointsOf(f)
    /\ result \in [Frames -> Results]
    /\ rounds \in [Frames -> 0 .. Rounds]
    /\ message \in [Frames -> Nat]
    /\ cancelled \in BOOLEAN /\ signalled \in BOOLEAN /\ failed \in BOOLEAN
    /\ shutdown \in {"no", "thread", "cancelled", "shut_down"}
    /\ threads \in 0 .. 1

Finishing == {"Finish", "FinishWithError", "WriteAndFinish"}
Sending == {"Write", "WriteLast", "WritesDone", "SendInitialMetadata"}
Exclusive == Finishing \cup {"Request", "ReadInitialMetadata"}

(* The examples use rpc.hpp the way its comments demand: a method that the  *)
(* responder has, one read and one write at a time, finish and request      *)
(* alone, nothing after finish and no write after the half-close; also when *)
(* a coroutine goes round a loop and begins the same method again.          *)
ContractRespected ==
    [][\A f \in Frames : \A fn \in pending[f] : Resume(f, fn) =>
         LET new == IF at'[f] \in Ended THEN {}
                    ELSE TableOf(f)[at'[f]].await \cap RpcMethods
             peers == {g \in Frames : /\ CallOf(g) = CallOf(f)
                                      /\ SideOf(g) = SideOf(f)}
             others == RpcMethods
                       \cap ((UNION {pending'[g] : g \in peers \ {f}})
                             \cup (pending[f] \ {fn}))
             before == begun[CallOf(f)][SideOf(f)]
         IN new # {} =>
            /\ new \subseteq Methods(SideOf(f), calls[CallOf(f)].kind)
            /\ ~({"Read"} \subseteq new \cap others)
            /\ ~(new \cap Sending # {} /\ others \cap Sending # {})
            /\ (new \cup others) \cap Exclusive # {} =>
                  Cardinality(new) = 1 /\ others = {}
            /\ Finishing \cap before = {}
            /\ (SideOf(f) = "client" /\ before \cap {"WritesDone", "WriteLast"} # {})
                  => new \cap Sending = {}]_vars

(* The responder, the contexts, the alarm and the messages live in the      *)
(* coroutine: when it ends, neither it nor a coroutine that it has started  *)
(* has an operation pending that gRPC would complete into them.             *)
NoDanglingOperation ==
    \A f \in Frames :
        at[f] \in Ended =>
            /\ pending[f] = {}
            /\ \A g \in ChildrenOf(f) : at[g] \in Ended \cup {"idle"}

(* When a client has received the status OK, each side has read all that    *)
(* the other one has sent.  handle_bidirectional_streaming_request has      *)
(* answered every request of the ping-pong, in order, with its double,      *)
(* although reader does not wait for writer before it closes the channel.   *)
DeliveredWhole ==
    \A c \in DOMAIN calls :
        LET s == calls[c]
        IN /\ s.received = "OK" => /\ s.up_read = Len(s.up)
                                  /\ s.down_read = Len(s.down)
                                  /\ s.held = <<>>
           /\ c = "bidirectional" /\ "writer" \in Frames =>
                 /\ \A i \in 1 .. Len(s.down) : s.down[i] = 2 * s.up[i]
                 /\ s.status = "OK" => Len(s.down) = Len(s.up)

(* abort_if_not does not abort a client unless a call has failed or the     *)
(* server was told to shut down by a signal: the slow request ends with     *)
(* CANCELLED and in time, and share-io-context-client.cpp gets its integer  *)
(* back.                                                                    *)
AbortsOnlyOnFailure ==
    (\E f \in Frames : at[f] = "aborted") => failed \/ signalled

Healthy ==
    /\ ~failed /\ ~signalled
    /\ \A c \in DOMAIN calls : Dead(calls[c]) => calls[c].accepted

(* The client coroutines always end.  If no call fails or is cancelled      *)
(* before it has reached the server, the server ends too: run() runs out    *)
(* of work.                                                                 *)
RunsEnd == <>EndedOn("client") /\ ([]Healthy => <>EndedOn("server"))

(* Once a shutdown was requested, by RPC or by signal, the server ends:     *)
(* all its coroutines "run to completion normally".                         *)
ShutdownEnds == (shutdown # "no") ~> EndedOn("server")
=============================================================================
