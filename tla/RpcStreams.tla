----------------------------- MODULE RpcStreams -----------------------------
(***************************************************************************)
(* The RPC functions of rpc.hpp.  Each one initiates one asynchronous step  *)
(* of a gRPC call by calling a method of a responder with a tag; the        *)
(* completion queue later delivers that tag with a bool.  gRPC itself is    *)
(* external: one call is a record, what a method does when it is called is  *)
(* a set of possible next records, and what its tag is completed with is a  *)
(* set of <<result, next record>>.  The results are the ones that the       *)
(* comments of rpc.hpp promise.                                             *)
(***************************************************************************)
EXTENDS Naturals, Sequences

Kinds == {"unary", "client_streaming", "server_streaming", "bidirectional"}
Sides == {"client", "server"}

(* A bool, or the status that the finish of a client received (its bool is  *)
(* always true).                                                            *)
Statuses == {"OK", "CANCELLED", "ERROR"}
Results == {"true", "false"} \cup Statuses

(* `up` and `down` are the messages sent so far in each direction, `held`   *)
(* the one that write_last of a server keeps back until finish, `dead` why  *)
(* the library ended the call and `received` the status seen by the client. *)
NewCall(kind) ==
    [kind |-> kind, started |-> FALSE, accepted |-> FALSE, up |-> <<>>,
     up_read |-> 0, half_closed |-> FALSE, down |-> <<>>, down_read |-> 0,
     held |-> <<>>, metadata |-> FALSE, status |-> "none", dead |-> "none",
     received |-> "none"]

Dead(s) == s.dead # "none"

(* The call fails: deadline, TryCancel, broken channel, ...                 *)
Kill(s, why) == IF s.started /\ ~Dead(s) THEN [s EXCEPT !.dead = why] ELSE s

-----------------------------------------------------------------------------
(* detail/rpc.hpp: which methods a responder has.                           *)

BaseAsyncReaderInitFunctions == {"Read"}
BaseAsyncWriterInitFunctions == {"Write", "WriteLast"}
BaseClientAsyncStreamingInitFunctions == {"WritesDone", "Finish"}
ReadInitialMetadataInitFunction == {"ReadInitialMetadata"}
BaseServerAsyncReaderInitFunctions == {"Finish", "FinishWithError"}
BaseServerAsyncWriterInitFunctions == {"WriteAndFinish", "Finish"}
SendInitialMetadataInitFunction == {"SendInitialMetadata"}

ClientAsyncResponders(kind) ==
    CASE kind = "bidirectional" -> BaseClientAsyncStreamingInitFunctions
            \cup BaseAsyncReaderInitFunctions \cup BaseAsyncWriterInitFunctions
      [] kind = "client_streaming" ->
            BaseClientAsyncStreamingInitFunctions
            \cup BaseAsyncWriterInitFunctions
      [] kind = "server_streaming" ->
            BaseClientAsyncStreamingInitFunctions
            \cup BaseAsyncReaderInitFunctions
      [] kind = "unary" -> {"Finish"}

ServerAsyncResponders(kind) ==
    CASE kind = "bidirectional" -> BaseAsyncReaderInitFunctions
            \cup BaseAsyncWriterInitFunctions
            \cup BaseServerAsyncWriterInitFunctions
      [] kind = "client_streaming" ->
            BaseAsyncReaderInitFunctions \cup BaseServerAsyncReaderInitFunctions
      [] kind = "server_streaming" ->
            BaseAsyncWriterInitFunctions \cup BaseServerAsyncWriterInitFunctions
      [] kind = "unary" -> BaseServerAsyncReaderInitFunctions

(* The ones that start a call: a request message accompanies the call in    *)
(* ClientUnaryRequest and ClientServerStreamingRequest, and the server gets *)
(* it with the call in ServerMultiArgRequest.                               *)
ClientRequestInitFunctions ==
    {"server_streaming", "client_streaming", "bidirectional"}
ServerMultiArgRequestInitFunction == {"unary", "server_streaming"}
ServerSingleArgRequestInitFunction == {"client_streaming", "bidirectional"}

Methods(side, kind) ==
    IF side = "client"
    THEN ClientAsyncResponders(kind) \cup ReadInitialMetadataInitFunction
         \cup (IF kind \in ClientRequestInitFunctions
               THEN {"Request"} ELSE {"AsyncUnary"})
    ELSE ServerAsyncResponders(kind) \cup SendInitialMetadataInitFunction
         \cup (IF kind \in ServerMultiArgRequestInitFunction
                           \cup ServerSingleArgRequestInitFunction
               THEN {"Request"} ELSE {})

-----------------------------------------------------------------------------
(* rpc.hpp: what a step does when it is initiated with message m.           *)

(* The unary request has no tag; agrpc::request only saves the caller from  *)
(* naming the completion queue.                                             *)
ClientUnaryRequest(m, s) ==
    {[s EXCEPT !.started = TRUE, !.up = <<m>>, !.half_closed = TRUE]}

ClientServerStreamingRequest(m, s) ==
    {[s EXCEPT !.started = TRUE, !.up = <<m>>, !.half_closed = TRUE]}

ClientClientStreamingRequest(s) == {[s EXCEPT !.started = TRUE]}

ClientBidirectionalStreamingRequest(s) == {[s EXCEPT !.started = TRUE]}

SendUp(m, s) == IF Dead(s) THEN s ELSE [s EXCEPT !.up = Append(@, m)]

ClientWrite(m, s) == {SendUp(m, s)}

ClientWritesDone(s) ==
    {IF Dead(s) THEN s ELSE [s EXCEPT !.half_closed = TRUE]}

(* write and writes_done in a single step.                                  *)
ClientWriteLast(m, s) == ClientWritesDone(SendUp(m, s))

SendDown(ms, s) ==
    IF Dead(s) THEN s ELSE [s EXCEPT !.down = @ \o ms, !.metadata = TRUE]

ServerSendInitialMetadata(s) == {SendDown(<<>>, s)}

ServerWrite(m, s) == {SendDown(<<m>>, s)}

(* Buffers up to the flow control window: held until finish, or sent.       *)
ServerWriteLast(m, s) == {[s EXCEPT !.held = <<m>>], SendDown(<<m>>, s)}

(* Sends what was held back, the initial metadata if it was not sent and    *)
(* the status; with a response if the client does not stream its reads.     *)
SendStatus(ms, status, s) ==
    LET sent == SendDown(s.held \o ms, s)
    IN IF Dead(s) THEN s ELSE [sent EXCEPT !.held = <<>>, !.status = status]

ServerFinish(m, s) ==
    {SendStatus(IF s.kind \in {"unary", "client_streaming"}
                THEN <<m>> ELSE <<>>, "OK", s)}

ServerWriteAndFinish(m, s) ==
    {SendStatus(<<>>, "OK", t) : t \in ServerWriteLast(m, s)}

ServerFinishWithError(s) == {SendStatus(<<>>, "ERROR", s)}

Initiate(side, fn, m, s) ==
    CASE fn = "AsyncUnary" -> ClientUnaryRequest(m, s)
      [] side = "client" /\ fn = "Request" ->
            (CASE s.kind = "server_streaming" ->
                    ClientServerStreamingRequest(m, s)
               [] s.kind = "client_streaming" -> ClientClientStreamingRequest(s)
               [] s.kind = "bidirectional" ->
                    ClientBidirectionalStreamingRequest(s))
      [] side = "client" /\ fn = "Write" -> ClientWrite(m, s)
      [] side = "client" /\ fn = "WriteLast" -> ClientWriteLast(m, s)
      [] fn = "WritesDone" -> ClientWritesDone(s)
      [] fn = "SendInitialMetadata" -> ServerSendInitialMetadata(s)
      [] side = "server" /\ fn = "Write" -> ServerWrite(m, s)
      [] side = "server" /\ fn = "WriteLast" -> ServerWriteLast(m, s)
      [] side = "server" /\ fn = "Finish" -> ServerFinish(m, s)
      [] fn = "WriteAndFinish" -> ServerWriteAndFinish(m, s)
      [] fn = "FinishWithError" -> ServerFinishWithError(s)
      [] OTHER -> {s}

-----------------------------------------------------------------------------
(* rpc.hpp: what the tag of a step is completed with; none yet if empty.    *)

(* True: the RPC has been started.  False: the server has been shut down    *)
(* before this particular call got matched to an incoming RPC.              *)
ServerRequestResults(s, shut_down) ==
    LET read == IF s.kind \in ServerMultiArgRequestInitFunction THEN 1 ELSE 0
    IN CASE shut_down -> {<<"false", s>>}
         [] ~shut_down /\ s.started /\ ~s.accepted /\ ~Dead(s) ->
               {<<"true", [s EXCEPT !.accepted = TRUE, !.up_read = read]>>}
         [] OTHER -> {}

(* False: it is not going to the wire because the call is already dead.     *)
SendResults(s) ==
    {<<"true", s>>} \cup (IF Dead(s) THEN {<<"false", s>>} ELSE {})

(* A client stream may also be ended early by the status of the server.     *)
ClientSendResults(s) ==
    {<<"true", s>>}
    \cup (IF Dead(s) \/ s.status # "none" THEN {<<"false", s>>} ELSE {})

(* True: a valid message was read.  False: no more messages can ever be     *)
(* read from this stream, or the call is dead.                              *)
ServerReadResults(s) ==
    (IF s.up_read < Len(s.up)
     THEN {<<"true", [s EXCEPT !.up_read = @ + 1]>>}
     ELSE IF s.half_closed THEN {<<"false", s>>} ELSE {})
    \cup (IF Dead(s) THEN {<<"false", s>>} ELSE {})

ClientReadResults(s) ==
    (IF s.down_read < Len(s.down)
     THEN {<<"true", [s EXCEPT !.down_read = @ + 1, !.metadata = TRUE]>>}
     ELSE IF s.status # "none" THEN {<<"false", s>>} ELSE {})
    \cup (IF Dead(s) THEN {<<"false", s>>} ELSE {})

ReadInitialMetadataResults(s) ==
    (IF s.metadata THEN {<<"true", s>>} ELSE {})
    \cup (IF Dead(s) THEN {<<"false", s>>} ELSE {})

(* The status has been received and, unless it is an error or finish itself *)
(* receives the response, every message has been read; or the call failed.  *)
ClientFinishResults(s) ==
    LET single == s.kind \in {"unary", "client_streaming"}
        whole == single \/ s.down_read = Len(s.down)
        read == IF single THEN Len(s.down) ELSE s.down_read
    IN (IF s.status # "none" /\ (whole \/ s.status # "OK")
        THEN {<<s.status, [s EXCEPT !.received = s.status,
                                    !.down_read = read]>>}
        ELSE {})
       \cup (IF Dead(s) THEN {<<s.dead, [s EXCEPT !.received = s.dead]>>}
             ELSE {})

Complete(side, fn, s, shut_down) ==
    IF side = "server"
    THEN CASE fn = "Request" -> ServerRequestResults(s, shut_down)
           [] fn = "Read" -> ServerReadResults(s)
           [] OTHER -> SendResults(s)
    ELSE CASE fn = "Request" -> SendResults(s)
           [] fn = "Read" -> ClientReadResults(s)
           [] fn = "ReadInitialMetadata" -> ReadInitialMetadataResults(s)
           [] fn = "Finish" -> ClientFinishResults(s)
           [] OTHER -> ClientSendResults(s)
=============================================================================
