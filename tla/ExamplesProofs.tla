--------------------------- MODULE ExamplesProofs ---------------------------
(***************************************************************************)
(* Proofs about the example programs, for any number of rounds.  First what *)
(* one step of rpc.hpp does to a call, then what the tables of the          *)
(* coroutines have in common, then the invariants.                          *)
(***************************************************************************)
EXTENDS Examples, FiniteSetTheorems, TLAPS

Multi == ServerMultiArgRequestInitFunction

CallRecord ==
    [kind : Kinds, started : BOOLEAN, accepted : BOOLEAN, up : Seq(Nat),
     up_read : Nat, half_closed : BOOLEAN, down : Seq(Nat), down_read : Nat,
     held : Seq(Nat), metadata : BOOLEAN, status : {"none", "OK", "ERROR"},
     dead : {"none", "CANCELLED", "ERROR"}, received : {"none"} \cup Statuses]

(* The server has read all that the client will ever send.                  *)
Whole(s) == s.accepted /\ s.half_closed /\ s.up_read = Len(s.up)
ReadAll(s) == Dead(s) \/ Whole(s)

CallOK(s) ==
    /\ s \in CallRecord
    /\ s.up_read <= Len(s.up)
    /\ s.down_read <= Len(s.down)
    /\ s.kind \in Multi => Len(s.up) <= 1
    /\ s.kind \in Multi /\ s.started => Len(s.up) = 1 /\ s.half_closed
    /\ s.kind \in Multi /\ s.accepted => s.up_read = 1
    /\ s.accepted \/ Dead(s) => s.started
    /\ s.status # "none" => s.held = <<>>
    /\ s.status = "OK" => Whole(s)
    /\ s.received = "OK" => s.status = "OK" /\ s.down_read = Len(s.down)

(* What no step takes back.                                                 *)
CallStep(s, t) ==
    /\ t.kind = s.kind
    /\ s.started => t.started
    /\ s.accepted => t.accepted
    /\ s.half_closed => t.half_closed
    /\ Dead(s) => t.dead = s.dead
    /\ Whole(s) => Whole(t)
    /\ s.status # "none" => t.status = s.status

(* The methods that send something upstream, and those that open a call.    *)
Opening == {"Request", "AsyncUnary"}
Closing == {"WritesDone", "WriteLast"}
Upstream == Opening \cup Closing \cup {"Write"}

(* When a step may be initiated.                                            *)
MayInitiate(side, fn, s) ==
    /\ fn \in RpcMethods => fn \in Methods(side, s.kind)
    /\ side = "server" /\ fn \in RpcMethods \ {"Request"} => s.status = "none"
    /\ side = "server" /\ fn \in Finishing => ReadAll(s)
    /\ side = "client" /\ fn \in Upstream => ~s.half_closed

(* What a step does when it is initiated ...                                *)
Initiates(side, fn, s, t) ==
    /\ CallOK(t) /\ CallStep(s, t)
    /\ t.accepted = s.accepted /\ t.up_read = s.up_read
    /\ t.down_read = s.down_read /\ t.dead = s.dead /\ t.received = s.received
    /\ side = "client" => /\ t.down = s.down /\ t.status = s.status
                          /\ t.held = s.held
    /\ side = "server" => /\ t.up = s.up /\ t.half_closed = s.half_closed
                          /\ t.started = s.started
    /\ t.status # s.status => side = "server" /\ fn \in Finishing
    /\ t.status = "ERROR" => s.status = "ERROR" \/ fn = "FinishWithError"
    /\ t.half_closed /\ ~s.half_closed =>
          side = "client" /\ fn \in Closing \cup (IF s.kind \in Multi THEN Opening ELSE {})
    /\ t.started /\ ~s.started => side = "client" /\ fn \in Opening
    /\ side = "client" /\ fn \in Opening => t.started

(* ... and when it is completed with r.                                     *)
Completes(side, fn, s, shut_down, r, t) ==
    /\ CallOK(t) /\ CallStep(s, t)
    /\ r \in Results
    /\ t.started = s.started /\ t.half_closed = s.half_closed /\ t.up = s.up
    /\ t.down = s.down /\ t.status = s.status /\ t.dead = s.dead
    /\ t.held = s.held
    /\ t.accepted # s.accepted => side = "server" /\ fn = "Request" /\ r = "true"
    /\ t.up_read # s.up_read => side = "server" /\ fn \in {"Request", "Read"}
    /\ t.down_read # s.down_read => side = "client" /\ fn \in {"Read", "Finish"}
    /\ side = "server" => r \in {"true", "false"}
    /\ side = "server" /\ fn = "Request" =>
          IF r = "true" THEN t.accepted /\ ~s.accepted ELSE shut_down
    /\ side = "server" /\ fn = "Request" /\ s.kind \notin Multi =>
          t.up_read = IF r = "true" THEN 0 ELSE s.up_read
    /\ fn = "Read" =>
          IF side = "server"
          THEN t.up_read = IF r = "true" THEN s.up_read + 1 ELSE s.up_read
          ELSE t.down_read = IF r = "true" THEN s.down_read + 1 ELSE s.down_read
    /\ side = "server" /\ fn = "Read" /\ r # "true" =>
          Dead(s) \/ (s.half_closed /\ s.up_read = Len(s.up))
    /\ side = "client" /\ fn # "Finish" =>
          /\ r \in {"true", "false"}
          /\ r = "true" \/ Dead(s) \/ (fn # "Request" /\ s.status # "none")
    /\ side = "client" /\ fn = "Finish" =>
          /\ (Dead(s) /\ r = s.dead) \/ (s.status # "none" /\ r = s.status)
          /\ t.received = r

-----------------------------------------------------------------------------
(* RpcMethods, element by element.                                          *)
LEMMA RpcMethodsList ==
    RpcMethods = {"Request", "AsyncUnary", "ReadInitialMetadata",
                  "SendInitialMetadata", "Read", "Write", "WriteLast",
                  "WritesDone", "WriteAndFinish", "Finish", "FinishWithError"}
<1> DEFINE up == {"Request", "AsyncUnary", "ReadInitialMetadata", "Read",
                  "Write", "WriteLast", "WritesDone", "Finish"}
           down == {"Request", "SendInitialMetadata", "Read", "Write",
                    "WriteLast", "WriteAndFinish", "Finish", "FinishWithError"}
<1>1. \A k \in Kinds : Methods("client", k) \subseteq up
  BY DEF Methods, ClientAsyncResponders, Kinds, BaseAsyncReaderInitFunctions,
     BaseAsyncWriterInitFunctions, BaseClientAsyncStreamingInitFunctions,
     ReadInitialMetadataInitFunction, ClientRequestInitFunctions
<1>2. \A k \in Kinds : Methods("server", k) \subseteq down
  BY DEF Methods, ServerAsyncResponders, Kinds, BaseAsyncReaderInitFunctions,
     BaseAsyncWriterInitFunctions, BaseServerAsyncReaderInitFunctions,
     BaseServerAsyncWriterInitFunctions, SendInitialMetadataInitFunction,
     ServerMultiArgRequestInitFunction, ServerSingleArgRequestInitFunction
<1>3. up \ {"AsyncUnary"} \subseteq Methods("client", "bidirectional")
  BY DEF Methods, ClientAsyncResponders, Kinds, BaseAsyncReaderInitFunctions,
     BaseAsyncWriterInitFunctions, BaseClientAsyncStreamingInitFunctions,
     ReadInitialMetadataInitFunction, ClientRequestInitFunctions
<1>4. "AsyncUnary" \in Methods("client", "unary")
  BY DEF Methods, ClientAsyncResponders, ClientRequestInitFunctions
<1>5. /\ {"SendInitialMetadata", "WriteAndFinish"}
            \subseteq Methods("server", "bidirectional")
      /\ "FinishWithError" \in Methods("server", "unary")
  BY DEF Methods, ServerAsyncResponders, Kinds, BaseAsyncReaderInitFunctions,
     BaseAsyncWriterInitFunctions, BaseServerAsyncReaderInitFunctions,
     BaseServerAsyncWriterInitFunctions, SendInitialMetadataInitFunction
<1>6. /\ \A fn \in RpcMethods : \E k \in Kinds :
            fn \in Methods("client", k) \cup Methods("server", k)
      /\ \A k \in Kinds :
            Methods("client", k) \cup Methods("server", k) \subseteq RpcMethods
  BY Zenon DEF RpcMethods
<1>7. {"unary", "bidirectional"} \subseteq Kinds
  BY DEF Kinds
<1> QED BY <1>1, <1>2, <1>3, <1>4, <1>5, <1>6, <1>7

(* The methods that the responders do not have.                             *)
LEMMA MethodsOfKinds ==
    ASSUME NEW k \in Kinds
    PROVE  /\ "AsyncUnary" \notin Methods("server", k)
           /\ "WritesDone" \notin Methods("server", k)
           /\ "ReadInitialMetadata" \notin Methods("server", k)
           /\ "SendInitialMetadata" \notin Methods("client", k)
           /\ "WriteAndFinish" \notin Methods("client", k)
           /\ "FinishWithError" \notin Methods("client", k)
           /\ "AsyncUnary" \in Methods("client", k) => k = "unary"
           /\ "Request" \in Methods("client", k) => k # "unary"
           /\ k \in Multi => {"Write", "WriteLast"} \cap Methods("client", k) = {}
           /\ k \in Multi => "Read" \notin Methods("server", k)
           /\ "Read" \in Methods("client", k) => k \in {"server_streaming", "bidirectional"}
  BY DEF Methods, ClientAsyncResponders, ServerAsyncResponders, Kinds, Multi,
     BaseAsyncReaderInitFunctions, BaseAsyncWriterInitFunctions,
     BaseClientAsyncStreamingInitFunctions, ReadInitialMetadataInitFunction,
     ClientRequestInitFunctions, BaseServerAsyncReaderInitFunctions,
     BaseServerAsyncWriterInitFunctions, SendInitialMetadataInitFunction,
     ServerMultiArgRequestInitFunction, ServerSingleArgRequestInitFunction

-----------------------------------------------------------------------------
(* The steps of a call.                                                     *)

(* The first message goes with the call.                                    *)
LEMMA OpenWithMessage ==
    ASSUME NEW s, CallOK(s), NEW m \in Nat, s.kind \in Multi, ~s.half_closed,
           NEW fn \in Opening,
           NEW t, t = [s EXCEPT !.started = TRUE, !.up = <<m>>, !.half_closed = TRUE]
    PROVE  Initiates("client", fn, s, t)
<1>1. s \in CallRecord
  BY DEF CallOK
<1>2. /\ t.kind = s.kind /\ t.started /\ t.accepted = s.accepted
      /\ t.up = <<m>> /\ t.up_read = s.up_read /\ t.half_closed
      /\ t.down = s.down /\ t.down_read = s.down_read /\ t.held = s.held
      /\ t.status = s.status /\ t.dead = s.dead /\ t.received = s.received
  BY <1>1 DEF CallRecord
<1>3. Len(t.up) = 1 /\ Len(s.up) \in Nat /\ s.up_read \in Nat
  BY <1>1, <1>2 DEF CallRecord
<1>4. ~s.started /\ ~s.accepted /\ s.status # "OK" /\ s.received # "OK"
  BY DEF CallOK, Whole
<1>5. t \in CallRecord
  <2>1. <<m>> \in Seq(Nat)
    OBVIOUS
  <2> QED BY <1>1, <2>1 DEF CallRecord
<1>6. CallOK(t)
  BY <1>2, <1>3, <1>4, <1>5 DEF CallOK, Whole, Dead
<1>7. CallStep(s, t)
  BY <1>2, <1>3, <1>4 DEF CallStep, Whole, Dead
<1> QED BY <1>2, <1>4, <1>6, <1>7 DEF Initiates, Opening

(* The call is opened without one.                                          *)
LEMMA OpenStream ==
    ASSUME NEW s, CallOK(s), s.kind \notin Multi, NEW fn \in Opening,
           NEW t, t = [s EXCEPT !.started = TRUE]
    PROVE  Initiates("client", fn, s, t) /\ t.up = s.up
<1>1. s \in CallRecord
  BY DEF CallOK
<1>2. /\ t \in CallRecord
      /\ t.kind = s.kind /\ t.started /\ t.accepted = s.accepted
      /\ t.up = s.up /\ t.up_read = s.up_read /\ t.half_closed = s.half_closed
      /\ t.down = s.down /\ t.down_read = s.down_read /\ t.held = s.held
      /\ t.status = s.status /\ t.dead = s.dead /\ t.received = s.received
  BY <1>1 DEF CallRecord
<1>3. CallOK(t)
  BY <1>2 DEF CallOK, Whole, Dead
<1>4. CallStep(s, t)
  BY <1>2 DEF CallStep, Whole, Dead
<1> QED BY <1>2, <1>3, <1>4 DEF Initiates, Opening

(* A message goes upstream.                                                 *)
LEMMA SendUpInitiates ==
    ASSUME NEW s, CallOK(s), NEW m \in Nat, ~s.half_closed,
           s.kind \notin Multi, NEW fn \in {"Write", "WriteLast"},
           NEW t, t = SendUp(m, s)
    PROVE  /\ Initiates("client", fn, s, t)
           /\ ~t.half_closed
           /\ t.up = IF Dead(s) THEN s.up ELSE Append(s.up, m)
<1>1. CASE Dead(s)
  BY <1>1 DEF SendUp, CallStep, Initiates, Opening
<1>2. CASE ~Dead(s)
  <2>1. s \in CallRecord
    BY DEF CallOK
  <2>2. t = [s EXCEPT !.up = Append(@, m)]
    BY <1>2 DEF SendUp
  <2>3. Append(s.up, m) \in Seq(Nat) /\ Len(Append(s.up, m)) = Len(s.up) + 1
    BY <2>1 DEF CallRecord
  <2>4. t \in CallRecord
    BY <2>1, <2>2, <2>3 DEF CallRecord
  <2>5. /\ t.kind = s.kind /\ t.started = s.started /\ t.accepted = s.accepted
        /\ t.up = Append(s.up, m) /\ t.up_read = s.up_read
        /\ t.half_closed = s.half_closed
        /\ t.down = s.down /\ t.down_read = s.down_read /\ t.held = s.held
        /\ t.status = s.status /\ t.dead = s.dead /\ t.received = s.received
    BY <2>1, <2>2 DEF CallRecord
  <2>6. Len(t.up) = Len(s.up) + 1 /\ Len(s.up) \in Nat /\ s.up_read \in Nat
    BY <2>1, <2>3, <2>5 DEF CallRecord
  <2>7. CallOK(t)
    BY <2>4, <2>5, <2>6 DEF CallOK, Whole, Dead
  <2>8. CallStep(s, t)
    BY <2>5, <2>6 DEF CallStep, Whole, Dead
  <2> QED BY <1>2, <2>5, <2>7, <2>8 DEF Initiates, Opening
<1> QED BY <1>1, <1>2

(* The client closes its stream.                                            *)
LEMMA CloseInitiates ==
    ASSUME NEW s, CallOK(s), ~s.half_closed, NEW fn \in Closing,
           NEW t \in ClientWritesDone(s)
    PROVE  /\ Initiates("client", fn, s, t)
           /\ t.up = s.up
           /\ t.half_closed <=> ~Dead(s)
<1>1. CASE Dead(s)
  BY <1>1 DEF ClientWritesDone, CallStep, Initiates, Opening, Closing
<1>2. CASE ~Dead(s)
  <2>1. s \in CallRecord
    BY DEF CallOK
  <2>2. t = [s EXCEPT !.half_closed = TRUE]
    BY <1>2 DEF ClientWritesDone
  <2>3. /\ t \in CallRecord
        /\ t.kind = s.kind /\ t.started = s.started /\ t.accepted = s.accepted
        /\ t.up = s.up /\ t.up_read = s.up_read /\ t.half_closed
        /\ t.down = s.down /\ t.down_read = s.down_read /\ t.held = s.held
        /\ t.status = s.status /\ t.dead = s.dead /\ t.received = s.received
    BY <2>1, <2>2 DEF CallRecord
  <2>4. CallOK(t)
    BY <2>3 DEF CallOK, Whole, Dead
  <2>5. CallStep(s, t)
    BY <2>3 DEF CallStep, Whole, Dead
  <2> QED BY <1>2, <2>3, <2>4, <2>5 DEF Initiates, Opening, Closing
<1> QED BY <1>1, <1>2

(* Messages go downstream.                                                  *)
LEMMA SendDownInitiates ==
    ASSUME NEW s, CallOK(s), NEW ms \in Seq(Nat), s.status = "none", NEW fn,
           NEW t, t = SendDown(ms, s)
    PROVE  /\ Initiates("server", fn, s, t)
           /\ t.down = IF Dead(s) THEN s.down ELSE s.down \o ms
           /\ t.status = "none" /\ t.held = s.held
<1>1. CASE Dead(s)
  BY <1>1 DEF SendDown, CallStep, Initiates, Opening
<1>2. CASE ~Dead(s)
  <2>1. s \in CallRecord
    BY DEF CallOK
  <2>2. t = [s EXCEPT !.down = @ \o ms, !.metadata = TRUE]
    BY <1>2 DEF SendDown
  <2>3. s.down \o ms \in Seq(Nat) /\ Len(s.down \o ms) = Len(s.down) + Len(ms)
    BY <2>1 DEF CallRecord
  <2>4. t \in CallRecord
    BY <2>1, <2>2, <2>3 DEF CallRecord
  <2>5. /\ t.kind = s.kind /\ t.started = s.started /\ t.accepted = s.accepted
        /\ t.up = s.up /\ t.up_read = s.up_read /\ t.half_closed = s.half_closed
        /\ t.down = s.down \o ms /\ t.down_read = s.down_read /\ t.held = s.held
        /\ t.status = s.status /\ t.dead = s.dead /\ t.received = s.received
    BY <2>1, <2>2 DEF CallRecord
  <2>6. /\ Len(t.down) = Len(s.down) + Len(ms) /\ Len(s.down) \in Nat
        /\ Len(ms) \in Nat /\ s.down_read \in Nat
    BY <2>1, <2>3, <2>5 DEF CallRecord
  <2>7. CallOK(t)
    BY <2>4, <2>5, <2>6 DEF CallOK, Whole, Dead
  <2>8. CallStep(s, t)
    BY <2>5 DEF CallStep, Whole, Dead
  <2> QED BY <1>2, <2>5, <2>7, <2>8 DEF Initiates, Opening
<1> QED BY <1>1, <1>2

(* The last message is kept back.                                           *)
LEMMA HoldInitiates ==
    ASSUME NEW s, CallOK(s), NEW m \in Nat, s.status = "none", NEW fn,
           NEW t, t = [s EXCEPT !.held = <<m>>]
    PROVE  Initiates("server", fn, s, t) /\ t.status = "none"
<1>1. s \in CallRecord
  BY DEF CallOK
<1>2. t \in CallRecord
  <2>1. <<m>> \in Seq(Nat)
    OBVIOUS
  <2> QED BY <1>1, <2>1 DEF CallRecord
<1>3. /\ t.kind = s.kind /\ t.started = s.started /\ t.accepted = s.accepted
      /\ t.up = s.up /\ t.up_read = s.up_read /\ t.half_closed = s.half_closed
      /\ t.down = s.down /\ t.down_read = s.down_read
      /\ t.status = s.status /\ t.dead = s.dead /\ t.received = s.received
  BY <1>1 DEF CallRecord
<1>4. CallOK(t)
  BY <1>2, <1>3 DEF CallOK, Whole, Dead
<1>5. CallStep(s, t)
  BY <1>3 DEF CallStep, Whole, Dead
<1> QED BY <1>3, <1>4, <1>5 DEF Initiates, Opening

(* The status is sent, after what was held back.                            *)
LEMMA SendStatusInitiates ==
    ASSUME NEW s, CallOK(s), NEW ms \in Seq(Nat), s.status = "none",
           ReadAll(s), NEW status \in {"OK", "ERROR"}, NEW fn \in Finishing,
           status = "ERROR" => fn = "FinishWithError"
    PROVE  /\ Initiates("server", fn, s, SendStatus(ms, status, s))
           /\ Dead(s) => SendStatus(ms, status, s) = s
           /\ ~Dead(s) =>
                /\ SendStatus(ms, status, s).down = s.down \o (s.held \o ms)
                /\ SendStatus(ms, status, s).held = <<>>
<1> DEFINE t == SendStatus(ms, status, s)
<1>1. CASE Dead(s)
  BY <1>1 DEF SendStatus, CallStep, Initiates, Opening
<1>2. CASE ~Dead(s)
  <2> DEFINE u == SendDown(s.held \o ms, s)
  <2>1. s \in CallRecord
    BY DEF CallOK
  <2>2. s.held \o ms \in Seq(Nat)
    BY <2>1 DEF CallRecord
  <2>3. /\ Initiates("server", fn, s, u) /\ u.status = "none"
        /\ u.down = s.down \o (s.held \o ms)
    BY <1>2, <2>2, SendDownInitiates
  <2>4. t = [u EXCEPT !.held = <<>>, !.status = status]
    BY <1>2 DEF SendStatus
  <2> HIDE DEF u, t
  <2>5. u \in CallRecord /\ CallOK(u)
    BY <2>3 DEF Initiates, CallOK
  <2>6. t \in CallRecord
    <3>1. <<>> \in Seq(Nat)
      OBVIOUS
    <3> QED BY <2>4, <2>5, <3>1 DEF CallRecord
  <2>7. /\ t.kind = u.kind /\ t.started = u.started /\ t.accepted = u.accepted
        /\ t.up = u.up /\ t.up_read = u.up_read /\ t.half_closed = u.half_closed
        /\ t.down = u.down /\ t.down_read = u.down_read /\ t.held = <<>>
        /\ t.status = status /\ t.dead = u.dead /\ t.received = u.received
    BY <2>4, <2>5 DEF CallRecord
  <2>8. Whole(s) /\ Whole(t)
    BY <1>2, <2>3, <2>7 DEF ReadAll, Initiates, CallStep, Whole
  <2>9. CallOK(t)
    BY <2>5, <2>6, <2>7, <2>8, <2>3 DEF CallOK, Dead
  <2>10. CallStep(s, t)
    BY <2>3, <2>7, <2>8 DEF CallStep, Dead, Initiates
  <2> QED BY <1>2, <2>3, <2>7, <2>9, <2>10 DEF Initiates, t
<1> QED BY <1>1, <1>2

(* A step that changes nothing.                                             *)
LEMMA NothingInitiated ==
    ASSUME NEW s, CallOK(s), NEW side, NEW fn,
           side = "client" => fn \notin Opening
    PROVE  Initiates(side, fn, s, s)
  BY DEF Initiates, CallStep, CallOK

(* Steps compose.                                                           *)
LEMMA InitiatesTwice ==
    ASSUME NEW s, NEW t, NEW u, NEW side, NEW fn, side = "client" => fn \notin Opening,
           Initiates(side, fn, s, t), Initiates(side, fn, t, u)
    PROVE  Initiates(side, fn, s, u)
  BY DEF Initiates, CallStep, Dead

(* What Initiate does to a call, for each step of a client ...              *)
LEMMA ClientInitiate ==
    ASSUME NEW s, CallOK(s), NEW m \in Nat, NEW fn,
           MayInitiate("client", fn, s), NEW t \in Initiate("client", fn, m, s)
    PROVE  /\ Initiates("client", fn, s, t)
           /\ fn \notin Upstream => t = s
           /\ s.kind = "bidirectional" /\ fn # "WriteLast" =>
                t.up = IF fn = "Write" /\ ~Dead(s) THEN Append(s.up, m) ELSE s.up
<1>0. s.kind \in Kinds
  BY DEF CallOK, CallRecord
<1>1. CASE fn = "AsyncUnary"
  <2>1. s.kind = "unary" /\ ~s.half_closed
    BY <1>0, <1>1, MethodsOfKinds, RpcMethodsList DEF MayInitiate, Upstream, Opening
  <2>2. t = [s EXCEPT !.started = TRUE, !.up = <<m>>, !.half_closed = TRUE]
    BY <1>1 DEF Initiate, ClientUnaryRequest
  <2> QED BY <1>1, <2>1, <2>2, OpenWithMessage
        DEF Multi, ServerMultiArgRequestInitFunction, Upstream, Opening
<1>2. CASE fn = "Request"
  <2>1. s.kind \in Kinds \ {"unary"} /\ ~s.half_closed
    BY <1>0, <1>2, MethodsOfKinds, RpcMethodsList DEF MayInitiate, Upstream, Opening
  <2>2. CASE s.kind = "server_streaming"
    <3>1. t = [s EXCEPT !.started = TRUE, !.up = <<m>>, !.half_closed = TRUE]
      BY <1>2, <2>2 DEF Initiate, ClientServerStreamingRequest
    <3> QED BY <1>2, <2>1, <2>2, <3>1, OpenWithMessage
          DEF Multi, ServerMultiArgRequestInitFunction, Upstream, Opening
  <2>3. CASE s.kind \in {"client_streaming", "bidirectional"}
    <3>1. t = [s EXCEPT !.started = TRUE]
      BY <1>2, <2>3 DEF Initiate, ClientClientStreamingRequest,
                        ClientBidirectionalStreamingRequest
    <3> QED BY <1>2, <2>3, <3>1, OpenStream
          DEF Multi, ServerMultiArgRequestInitFunction, Upstream, Opening
  <2> QED BY <2>1, <2>2, <2>3 DEF Kinds
<1>3. CASE fn = "Write"
  <2>1. s.kind \notin Multi /\ ~s.half_closed
    BY <1>0, <1>3, MethodsOfKinds, RpcMethodsList DEF MayInitiate, Upstream
  <2>2. t = SendUp(m, s)
    BY <1>3 DEF Initiate, ClientWrite
  <2> QED BY <1>3, <2>1, <2>2, SendUpInitiates DEF Upstream
<1>4. CASE fn = "WriteLast"
  <2>1. s.kind \notin Multi /\ ~s.half_closed
    BY <1>0, <1>4, MethodsOfKinds, RpcMethodsList DEF MayInitiate, Upstream, Closing
  <2>2. t \in ClientWritesDone(SendUp(m, s))
    BY <1>4 DEF Initiate, ClientWriteLast
  <2>3. /\ Initiates("client", fn, s, SendUp(m, s))
        /\ ~SendUp(m, s).half_closed
        /\ CallOK(SendUp(m, s))
    BY <1>4, <2>1, SendUpInitiates DEF Initiates
  <2>4. Initiates("client", fn, SendUp(m, s), t)
    BY <1>4, <2>2, <2>3, CloseInitiates DEF Closing
  <2> QED BY <1>4, <2>3, <2>4, InitiatesTwice DEF Upstream, Closing, Opening
<1>5. CASE fn = "WritesDone"
  <2>1. ~s.half_closed
    BY <1>5, RpcMethodsList DEF MayInitiate, Upstream, Closing
  <2>2. t \in ClientWritesDone(s)
    BY <1>5 DEF Initiate
  <2> QED BY <1>5, <2>1, <2>2, CloseInitiates DEF Upstream, Closing
<1>6. CASE fn \notin Upstream
  <2>1. fn \notin {"SendInitialMetadata", "WriteAndFinish", "FinishWithError"}
    BY <1>0, MethodsOfKinds, RpcMethodsList DEF MayInitiate
  <2>2. t = s
    BY <1>6, <2>1 DEF Initiate, Upstream, Opening, Closing
  <2> QED BY <1>6, <2>2, NothingInitiated DEF Upstream
<1> QED BY <1>1, <1>2, <1>3, <1>4, <1>5, <1>6 DEF Upstream, Opening, Closing

(* ... and of a server.                                                     *)
LEMMA ServerInitiate ==
    ASSUME NEW s, CallOK(s), NEW m \in Nat, NEW fn,
           MayInitiate("server", fn, s), NEW t \in Initiate("server", fn, m, s)
    PROVE  /\ Initiates("server", fn, s, t)
           /\ fn \notin RpcMethods \/ fn \in {"Request", "Read"} => t = s
           /\ fn \in Finishing /\ Dead(s) => t.status = s.status
           /\ (s.kind = "bidirectional" /\ s.held = <<>> /\ fn \in {"Write", "Finish"}) =>
                /\ t.held = <<>>
                /\ t.down = IF fn = "Write" /\ ~Dead(s) THEN s.down \o <<m>> ELSE s.down
           /\ s.kind = "unary" /\ s.held = <<>> /\ s.down = <<>> /\ fn = "Finish" =>
                t.held = <<>> /\ t.down = IF Dead(s) THEN <<>> ELSE <<m>>
<1>0. s.kind \in Kinds /\ <<m>> \in Seq(Nat) /\ <<>> \in Seq(Nat) /\ s.down \in Seq(Nat)
  BY DEF CallOK, CallRecord
<1>1. fn \notin {"AsyncUnary", "WritesDone", "ReadInitialMetadata"}
  BY <1>0, MethodsOfKinds, RpcMethodsList DEF MayInitiate
<1>2. CASE fn = "SendInitialMetadata"
  <2>1. t = SendDown(<<>>, s) /\ s.status = "none"
    BY <1>2, RpcMethodsList DEF Initiate, ServerSendInitialMetadata, MayInitiate
  <2> QED BY <1>0, <1>2, <2>1, SendDownInitiates, RpcMethodsList DEF Finishing
<1>3. CASE fn = "Write"
  <2>1. t = SendDown(<<m>>, s) /\ s.status = "none"
    BY <1>3, RpcMethodsList DEF Initiate, ServerWrite, MayInitiate
  <2> QED BY <1>0, <1>3, <2>1, SendDownInitiates, RpcMethodsList DEF Finishing
<1>4. ASSUME fn \in {"WriteLast", "WriteAndFinish"}, NEW u \in ServerWriteLast(m, s)
      PROVE  Initiates("server", fn, s, u) /\ u.status = "none"
  <2>1. s.status = "none"
    BY <1>4, RpcMethodsList DEF MayInitiate
  <2>2. CASE u = SendDown(<<m>>, s)
    BY <1>0, <2>1, <2>2, SendDownInitiates
  <2>3. CASE u = [s EXCEPT !.held = <<m>>]
    BY <2>1, <2>3, HoldInitiates
  <2> QED BY <1>4, <2>2, <2>3 DEF ServerWriteLast
<1>5. CASE fn = "WriteLast"
  <2>1. t \in ServerWriteLast(m, s) /\ s.status = "none"
    BY <1>5, RpcMethodsList DEF Initiate, MayInitiate
  <2> QED BY <1>4, <1>5, <2>1, RpcMethodsList DEF Finishing
<1>6. CASE fn = "Finish"
  <2> DEFINE ms == IF s.kind \in {"unary", "client_streaming"} THEN <<m>> ELSE <<>>
  <2>1. t = SendStatus(ms, "OK", s) /\ s.status = "none" /\ ReadAll(s)
    BY <1>6, RpcMethodsList DEF Initiate, ServerFinish, MayInitiate, Finishing
  <2>2. ms \in Seq(Nat)
    BY <1>0
  <2>3. /\ Initiates("server", fn, s, t)
        /\ Dead(s) => t = s
        /\ ~Dead(s) => t.down = s.down \o (s.held \o ms) /\ t.held = <<>>
    <3> HIDE DEF ms
    <3> QED BY <1>6, <2>1, <2>2, SendStatusInitiates DEF Finishing
  <2>4. s.down \o (<<>> \o <<>>) = s.down /\ <<>> \o (<<>> \o <<m>>) = <<m>>
    BY <1>0
  <2> QED BY <1>6, <2>3, <2>4, RpcMethodsList DEF Finishing
<1>7. CASE fn = "FinishWithError"
  <2>1. t = SendStatus(<<>>, "ERROR", s) /\ s.status = "none" /\ ReadAll(s)
    BY <1>7, RpcMethodsList DEF Initiate, ServerFinishWithError, MayInitiate, Finishing
  <2> QED BY <1>0, <1>7, <2>1, SendStatusInitiates, RpcMethodsList DEF Finishing
<1>8. CASE fn = "WriteAndFinish"
  <2>1. /\ \E u \in ServerWriteLast(m, s) : t = SendStatus(<<>>, "OK", u)
        /\ s.status = "none" /\ ReadAll(s)
    BY <1>8, RpcMethodsList DEF Initiate, ServerWriteAndFinish, MayInitiate, Finishing
  <2>2. PICK u \in ServerWriteLast(m, s) : t = SendStatus(<<>>, "OK", u)
    BY <2>1
  <2>3. Initiates("server", fn, s, u) /\ u.status = "none"
    BY <1>4, <1>8
  <2>4. CallOK(u) /\ ReadAll(u) /\ (Dead(s) => Dead(u))
    BY <2>1, <2>3 DEF Initiates, ReadAll, CallStep, Dead
  <2>5. Initiates("server", fn, u, t) /\ (Dead(u) => t = u)
    BY <1>0, <1>8, <2>2, <2>3, <2>4, SendStatusInitiates DEF Finishing
  <2> QED BY <1>8, <2>1, <2>3, <2>4, <2>5, InitiatesTwice, RpcMethodsList
<1>9. CASE fn \notin RpcMethods \/ fn \in {"Request", "Read"}
  <2>1. t = s
    BY <1>1, <1>9, RpcMethodsList DEF Initiate
  <2> QED BY <1>9, <2>1, NothingInitiated, RpcMethodsList DEF Finishing
<1> QED BY <1>1, <1>2, <1>3, <1>5, <1>6, <1>7, <1>8, <1>9, RpcMethodsList

(* What the completion of a step does to a call.                            *)
LEMMA ServerRequestCompletes ==
    ASSUME NEW s, CallOK(s), NEW shut_down \in BOOLEAN, NEW r, NEW t,
           <<r, t>> \in ServerRequestResults(s, shut_down)
    PROVE  Completes("server", "Request", s, shut_down, r, t)
<1> DEFINE read == IF s.kind \in ServerMultiArgRequestInitFunction THEN 1 ELSE 0
<1>1. CASE shut_down
  <2>1. r = "false" /\ t = s
    BY <1>1 DEF ServerRequestResults
  <2> QED BY <1>1, <2>1 DEF Completes, CallStep, Results
<1>2. CASE ~shut_down
  <2>1. /\ s.started /\ ~s.accepted /\ ~Dead(s)
        /\ r = "true" /\ t = [s EXCEPT !.accepted = TRUE, !.up_read = read]
    BY <1>2 DEF ServerRequestResults
  <2>2. s \in CallRecord
    BY DEF CallOK
  <2>3. read \in Nat
    OBVIOUS
  <2>4. /\ t \in CallRecord
        /\ t.kind = s.kind /\ t.started = s.started /\ t.accepted
        /\ t.up = s.up /\ t.up_read = read /\ t.half_closed = s.half_closed
        /\ t.down = s.down /\ t.down_read = s.down_read /\ t.held = s.held
        /\ t.status = s.status /\ t.dead = s.dead /\ t.received = s.received
    BY <2>1, <2>2, <2>3 DEF CallRecord
  <2>5. Len(s.up) \in Nat
    BY <2>2 DEF CallRecord
  <2>6. /\ s.kind \in Multi => read = 1 /\ Len(s.up) = 1
        /\ s.kind \notin Multi => read = 0
        /\ s.status # "OK"
    BY <2>1 DEF Multi, CallOK, Whole
  <2> HIDE DEF read
  <2>7. CallOK(t)
    <3>1. t.up_read <= Len(t.up) /\ (t.kind \in Multi => t.up_read = 1)
      <4>1. CASE s.kind \in Multi
        <5>1. t.up_read = 1 /\ t.up = s.up /\ Len(s.up) = 1
          BY <2>4, <2>6, <4>1
        <5>2. Len(t.up) = 1
          BY <5>1
        <5> QED BY <5>1, <5>2
      <4>2. CASE s.kind \notin Multi
        <5>1. t.up_read = 0 /\ t.up = s.up /\ t.kind = s.kind
          BY <2>4, <2>6, <4>2
        <5> QED BY <2>5, <4>2, <5>1
      <4> QED BY <4>1, <4>2
    <3>2. t.received # "OK" /\ t.status # "OK"
      BY <2>4, <2>6 DEF CallOK
    <3> QED BY <2>1, <2>4, <3>1, <3>2 DEF CallOK, Dead
  <2>8. CallStep(s, t)
    BY <2>1, <2>4 DEF CallStep, Whole, Dead
  <2> QED BY <2>1, <2>4, <2>6, <2>7, <2>8 DEF Completes, Results
<1> QED BY <1>1, <1>2

(* A tag that only tells whether the step went to the wire.                 *)
LEMMA NothingCompleted ==
    ASSUME NEW s, CallOK(s), NEW shut_down, NEW r \in {"true", "false"}, NEW side, NEW fn,
           fn # "Read", side = "server" => fn # "Request",
           side = "client" =>
                /\ fn # "Finish"
                /\ r = "true" \/ Dead(s) \/ (fn # "Request" /\ s.status # "none")
    PROVE  Completes(side, fn, s, shut_down, r, s)
  BY DEF Completes, CallStep, Results

(* A read of the server.                                                    *)
LEMMA ServerReadCompletes ==
    ASSUME NEW s, CallOK(s), NEW shut_down, NEW r, NEW t,
           <<r, t>> \in ServerReadResults(s)
    PROVE  Completes("server", "Read", s, shut_down, r, t)
<1>1. s \in CallRecord /\ s.up_read \in Nat /\ Len(s.up) \in Nat
  BY DEF CallOK, CallRecord
<1>2. CASE r = "false" /\ t = s /\ (Dead(s) \/ (s.half_closed /\ ~(s.up_read < Len(s.up))))
  BY <1>1, <1>2 DEF Completes, CallStep, Results, CallOK
<1>3. CASE r = "true" /\ s.up_read < Len(s.up) /\ t = [s EXCEPT !.up_read = @ + 1]
  <2>1. s.up_read + 1 \in Nat
    BY <1>1
  <2>2. /\ t \in CallRecord
        /\ t.kind = s.kind /\ t.started = s.started /\ t.accepted = s.accepted
        /\ t.up = s.up /\ t.up_read = s.up_read + 1 /\ t.half_closed = s.half_closed
        /\ t.down = s.down /\ t.down_read = s.down_read /\ t.held = s.held
        /\ t.status = s.status /\ t.dead = s.dead /\ t.received = s.received
    BY <1>1, <1>3, <2>1 DEF CallRecord
  <2>3. ~Whole(s)
    BY <1>1, <1>3 DEF Whole
  <2>4. CallOK(t)
    BY <1>1, <1>3, <2>2, <2>3 DEF CallOK, Whole, Dead
  <2>5. CallStep(s, t)
    BY <2>2, <2>3 DEF CallStep, Dead
  <2> QED BY <1>1, <1>3, <2>2, <2>4, <2>5 DEF Completes, Results
<1> QED BY <1>2, <1>3 DEF ServerReadResults

(* A read of the client.                                                    *)
LEMMA ClientReadCompletes ==
    ASSUME NEW s, CallOK(s), NEW shut_down, NEW r, NEW t,
           <<r, t>> \in ClientReadResults(s)
    PROVE  Completes("client", "Read", s, shut_down, r, t)
<1>1. s \in CallRecord /\ s.down_read \in Nat /\ Len(s.down) \in Nat
  BY DEF CallOK, CallRecord
<1>2. CASE r = "false" /\ t = s /\ (Dead(s) \/ s.status # "none")
  BY <1>1, <1>2 DEF Completes, CallStep, Results, CallOK
<1>3. CASE /\ r = "true" /\ s.down_read < Len(s.down)
           /\ t = [s EXCEPT !.down_read = @ + 1, !.metadata = TRUE]
  <2>1. s.down_read + 1 \in Nat
    BY <1>1
  <2>2. /\ t \in CallRecord
        /\ t.kind = s.kind /\ t.started = s.started /\ t.accepted = s.accepted
        /\ t.up = s.up /\ t.up_read = s.up_read /\ t.half_closed = s.half_closed
        /\ t.down = s.down /\ t.down_read = s.down_read + 1 /\ t.held = s.held
        /\ t.status = s.status /\ t.dead = s.dead /\ t.received = s.received
    BY <1>1, <1>3, <2>1 DEF CallRecord
  <2>3. CallOK(t)
    BY <1>1, <1>3, <2>2 DEF CallOK, Whole, Dead
  <2>4. CallStep(s, t)
    BY <2>2 DEF CallStep, Dead, Whole
  <2> QED BY <1>1, <1>3, <2>2, <2>3, <2>4 DEF Completes, Results
<1> QED BY <1>2, <1>3 DEF ClientReadResults

(* The status arrives.                                                      *)
LEMMA ClientFinishCompletes ==
    ASSUME NEW s, CallOK(s), NEW shut_down, NEW r, NEW t,
           <<r, t>> \in ClientFinishResults(s)
    PROVE  Completes("client", "Finish", s, shut_down, r, t)
<1> DEFINE single == s.kind \in {"unary", "client_streaming"}
           read == IF single THEN Len(s.down) ELSE s.down_read
<1>1. s \in CallRecord /\ s.down_read \in Nat /\ Len(s.down) \in Nat
  BY DEF CallOK, CallRecord
<1>2. CASE Dead(s) /\ r = s.dead /\ t = [s EXCEPT !.received = s.dead]
  <2>1. s.dead \in {"CANCELLED", "ERROR"}
    BY <1>1, <1>2 DEF CallRecord, Dead
  <2>2. /\ t \in CallRecord
        /\ t.kind = s.kind /\ t.started = s.started /\ t.accepted = s.accepted
        /\ t.up = s.up /\ t.up_read = s.up_read /\ t.half_closed = s.half_closed
        /\ t.down = s.down /\ t.down_read = s.down_read /\ t.held = s.held
        /\ t.status = s.status /\ t.dead = s.dead /\ t.received = s.dead
    BY <1>1, <1>2, <2>1 DEF CallRecord, Statuses
  <2>3. CallOK(t)
    BY <1>1, <2>1, <2>2 DEF CallOK, Whole, Dead
  <2>4. CallStep(s, t)
    BY <2>2 DEF CallStep, Dead, Whole
  <2> QED BY <1>1, <1>2, <2>1, <2>2, <2>3, <2>4 DEF Completes, Results, Statuses
<1>3. CASE /\ s.status # "none" /\ r = s.status
           /\ s.status = "OK" => read = Len(s.down)
           /\ t = [s EXCEPT !.received = s.status, !.down_read = read]
  <2>1. s.status \in {"OK", "ERROR"} /\ read \in Nat /\ read <= Len(s.down)
    BY <1>1, <1>3 DEF CallRecord, CallOK
  <2> HIDE DEF read
  <2>2. /\ t \in CallRecord
        /\ t.kind = s.kind /\ t.started = s.started /\ t.accepted = s.accepted
        /\ t.up = s.up /\ t.up_read = s.up_read /\ t.half_closed = s.half_closed
        /\ t.down = s.down /\ t.down_read = read /\ t.held = s.held
        /\ t.status = s.status /\ t.dead = s.dead /\ t.received = s.status
    BY <1>1, <1>3, <2>1 DEF CallRecord, Statuses
  <2>3. CallOK(t)
    BY <1>1, <1>3, <2>1, <2>2 DEF CallOK, Whole, Dead
  <2>4. CallStep(s, t)
    BY <2>2 DEF CallStep, Dead, Whole
  <2> QED BY <1>1, <1>3, <2>1, <2>2, <2>3, <2>4 DEF Completes, Results, Statuses
<1>4. s.kind \in Kinds
  BY <1>1 DEF CallRecord
<1> QED BY <1>2, <1>3, <1>4 DEF ClientFinishResults

(* What Complete does to a call.                                            *)
LEMMA CompleteCall ==
    ASSUME NEW s, CallOK(s), NEW shut_down \in BOOLEAN, NEW side \in Sides,
           NEW fn \in Methods(side, s.kind) \cap RpcMethods, NEW r, NEW t,
           <<r, t>> \in Complete(side, fn, s, shut_down)
    PROVE  Completes(side, fn, s, shut_down, r, t)
<1>1. s.kind \in Kinds
  BY DEF CallOK, CallRecord
<1>2. CASE side = "server" /\ fn = "Request"
  BY <1>2, ServerRequestCompletes DEF Complete
<1>3. CASE side = "server" /\ fn = "Read"
  BY <1>3, ServerReadCompletes DEF Complete
<1>4. CASE side = "server" /\ fn \notin {"Request", "Read"}
  <2>1. fn # "ReadInitialMetadata"
    BY <1>1, <1>4, MethodsOfKinds
  <2>2. <<r, t>> \in SendResults(s)
    BY <1>4, <2>1 DEF Complete
  <2>3. r \in {"true", "false"} /\ t = s
    BY <2>2 DEF SendResults
  <2> QED BY <1>4, <2>3, NothingCompleted
<1>5. CASE side = "client" /\ fn = "Request"
  <2>1. <<r, t>> \in SendResults(s)
    BY <1>5 DEF Complete
  <2>2. r \in {"true", "false"} /\ t = s /\ (r = "true" \/ Dead(s))
    BY <2>1 DEF SendResults
  <2> QED BY <1>5, <2>2, NothingCompleted
<1>6. CASE side = "client" /\ fn = "Read"
  BY <1>6, ClientReadCompletes DEF Complete
<1>7. CASE side = "client" /\ fn = "Finish"
  BY <1>7, ClientFinishCompletes DEF Complete
<1>8. CASE side = "client" /\ fn = "ReadInitialMetadata"
  <2>1. <<r, t>> \in ReadInitialMetadataResults(s)
    BY <1>8 DEF Complete
  <2>2. r \in {"true", "false"} /\ t = s /\ (r = "true" \/ Dead(s))
    BY <2>1 DEF ReadInitialMetadataResults
  <2> QED BY <1>8, <2>2, NothingCompleted
<1>9. CASE side = "client" /\ fn \notin {"Request", "Read", "Finish", "ReadInitialMetadata"}
  <2>1. <<r, t>> \in ClientSendResults(s)
    BY <1>9 DEF Complete
  <2>2. /\ r \in {"true", "false"} /\ t = s
        /\ r = "true" \/ Dead(s) \/ s.status # "none"
    BY <2>1 DEF ClientSendResults
  <2> QED BY <1>9, <2>2, NothingCompleted
<1> QED BY <1>2, <1>3, <1>4, <1>5, <1>6, <1>7, <1>8, <1>9 DEF Sides

(* A call that fails keeps everything but that.                             *)
LEMMA KillCall ==
    ASSUME NEW s, CallOK(s), NEW why \in {"CANCELLED", "ERROR"}
    PROVE  /\ CallOK(Kill(s, why)) /\ CallStep(s, Kill(s, why))
           /\ \A t : t = Kill(s, why) =>
                /\ t.started = s.started /\ t.accepted = s.accepted
                /\ t.up = s.up /\ t.up_read = s.up_read
                /\ t.half_closed = s.half_closed /\ t.down = s.down
                /\ t.down_read = s.down_read /\ t.held = s.held
                /\ t.status = s.status
                /\ t.dead = IF s.started /\ ~Dead(s) THEN why ELSE s.dead
<1> DEFINE t == Kill(s, why)
<1>1. CASE ~(s.started /\ ~Dead(s))
  BY <1>1 DEF Kill, CallStep
<1>2. CASE s.started /\ ~Dead(s)
  <2>1. s \in CallRecord
    BY DEF CallOK
  <2>2. t = [s EXCEPT !.dead = why]
    BY <1>2 DEF Kill
  <2> HIDE DEF t
  <2>3. /\ t \in CallRecord
        /\ t.kind = s.kind /\ t.started = s.started /\ t.accepted = s.accepted
        /\ t.up = s.up /\ t.up_read = s.up_read /\ t.half_closed = s.half_closed
        /\ t.down = s.down /\ t.down_read = s.down_read /\ t.held = s.held
        /\ t.status = s.status /\ t.dead = why /\ t.received = s.received
    BY <2>1, <2>2 DEF CallRecord
  <2>4. CallOK(t)
    BY <1>2, <2>1, <2>3 DEF CallOK, Whole, Dead
  <2>5. CallStep(s, t)
    BY <1>2, <2>3 DEF CallStep, Dead, Whole
  <2> QED BY <1>2, <2>3, <2>4, <2>5 DEF t
<1> QED BY <1>1, <1>2

-----------------------------------------------------------------------------
(* What the tables have in common.                                          *)

(* The name of a point says what is awaited there.                          *)
AwaitAt(l) ==
    CASE l = "request" -> {"Request"}
      [] l = "read_initial_metadata" -> {"ReadInitialMetadata"}
      [] l = "send_initial_metadata" -> {"SendInitialMetadata"}
      [] l = "read" -> {"Read"}
      [] l = "write" -> {"Write"}
      [] l = "ping_pong" -> {"Read", "Write"}
      [] l = "write_last" -> {"WriteLast"}
      [] l = "writes_done" -> {"WritesDone"}
      [] l = "write_and_finish" -> {"WriteAndFinish"}
      [] l = "finish" -> {"Finish"}
      [] l = "finish_with_error" -> {"FinishWithError"}
      [] l = "deadline" -> {"wait", "Finish"}
      [] l = "wait" -> {"wait"}
      [] l = "post" -> {"post"}
      [] l = "receive" -> {"receive"}
      [] l = "signal" -> {"signal"}
      [] OTHER -> {"join"}

Joins == {"handle", "reader_and_writer", "both", "cancel", "shutdown"}
Points == Joins \cup
    {"request", "read_initial_metadata", "send_initial_metadata", "read",
     "write", "ping_pong", "write_last", "writes_done", "write_and_finish",
     "finish", "finish_with_error", "deadline", "wait", "post", "receive",
     "signal"}

(* The side has called a method that finishes the call.                     *)
FinalPoints ==
    {"finish", "deadline", "finish_with_error", "write_and_finish", "handle"}
    \cup Ended

(* The client has closed its stream.                                        *)
ClosedPoints(kind) ==
    {"writes_done", "write_last", "read", "finish", "deadline"}
    \cup (IF kind \in Multi THEN {"request", "read_initial_metadata"} ELSE {})

(* The server has read the stream to its end.                               *)
ReadyPoints(f) ==
    IF f = "writer" THEN {}
    ELSE {"write", "write_last", "write_and_finish", "finish",
          "finish_with_error"}
         \cup (IF f = "reader" THEN {"end"} ELSE {})

Ok == {"true", "OK"}
Streaming == {"streaming_client_streaming", "streaming_bidirectional",
              "streaming_slow_unary"}

(* A coroutine does not come back to where it starts others.                *)
Rank(l) ==
    CASE l \in {"idle", "start", "request", "signal"} -> 0
      [] l \in {"both", "handle", "reader_and_writer"} -> 1
      [] l = "cancel" -> 2
      [] l = "shutdown" -> 3
      [] OTHER -> 4

(* What is common to the transitions of servers ...                         *)
ServerEdge(x, call, ready, l, r, p, e) ==
    /\ p # "aborted" /\ e \in {"none", "send", "close", "shutdown"}
    /\ e = "shutdown" => x \in Streaming
    /\ l \in FinalPoints => p \in Ended
    /\ l = "request" /\ p \notin Ended => r \in Ok \/ x = "hello_world"
    /\ l # "start" => p \notin {"request", "signal"}
    /\ call = "never" => p \in {"request", "signal"} \cup Ended /\ p \notin ready
    /\ p = "signal" => call = "never"
    /\ p \in {"finish", "finish_with_error", "write_and_finish"} => p \in ready
    /\ p \in ready => \/ KindOf(call) \in Multi /\ l # "start" /\ p \notin Ended
                      \/ l \in ready
                      \/ l = "read" /\ r \notin Ok
                      \/ l = "reader_and_writer" /\ r \in Ok /\ x = "streaming_bidirectional"

(* ... and of clients.                                                      *)
ClientEdge(call, l, r, p, e) ==
    /\ e \in {"none", "AsyncUnary", "abort", "expect"}
    /\ e = "abort" <=> p = "aborted"
    /\ e = "expect" => p = "end"
    /\ p # "failed"
    /\ e = "AsyncUnary" =>
         /\ l = "start" /\ KindOf(call) = "unary"
         /\ p \in {"finish", "deadline", "read_initial_metadata"}
    /\ p = "request" => l = "start"
    /\ l \in FinalPoints => p \in Ended
    /\ l \in ClosedPoints(KindOf(call)) =>
         p \in {"read", "finish"} \cup Ended
               \cup (IF KindOf(call) \in Multi THEN {"read_initial_metadata"} ELSE {})

(* The way of a server through its table ...                                *)
ServerCourse(x, f, call, l, r, p, e) ==
    /\ e = "shutdown" => l = "signal" \/ (l = "finish" /\ call = "shutdown")
    /\ p = "finish_with_error" => x \in {"unary", "client_streaming"}
    /\ call = "slow_unary" /\ p = "finish" => l = "wait"
    /\ f # "reader" => e \notin {"send", "close"}
    /\ f = "reader" => /\ l \in {"start", "read"} /\ p \in {"read"} \cup Ended
                       /\ e = "send" <=> (l = "read" /\ r \in Ok)
                       /\ e = "close" => l = "read" /\ r \notin Ok
    /\ l = "receive" => f = "writer"
    /\ f = "writer" => /\ l \in {"start", "receive", "post", "write"}
                       /\ p \in {"receive", "post", "write"} \cup Ended
                       /\ p = "post" <=> (l = "receive" /\ r \in Ok)
                       /\ p = "write" <=> l = "post"
    /\ x = "streaming_bidirectional" /\ call = "bidirectional" /\ f \notin {"reader", "writer"} =>
          /\ l \in {"start", "request", "reader_and_writer", "finish"}
          /\ p \in {"request", "reader_and_writer", "finish"} \cup Ended

(* ... and of a client.                                                     *)
ClientCourse(x, call, l, r, p, e) ==
    /\ e = "abort" => /\ x \notin {"unary", "client_streaming"}
                      /\ \/ l \in {"finish", "request"} /\ r \notin Ok
                         \/ l = "deadline" /\ r # "CANCELLED"
    /\ e = "expect" => \/ l = "deadline" /\ call = "slow_unary"
                       \/ l = "finish" /\ r \in Ok /\ x = "share_io_context"
    /\ x \in Streaming /\ call # "never" /\ p = "end" =>
          \/ l = "finish" /\ r \in Ok
          \/ l = "request" /\ r \notin Ok
          \/ l = "deadline" /\ r = "CANCELLED"
    /\ call = "slow_unary" => /\ p \in {"deadline"} \cup Ended
                              /\ p = "deadline" <=> l = "start"
                              /\ p = "deadline" => e = "AsyncUnary"
                              /\ p = "end" => r = "CANCELLED"
    /\ call = "never" => Rank(p) <= Rank(l) + 1
    /\ x = "streaming_bidirectional" /\ call = "bidirectional" =>
          /\ l \in {"start", "request", "ping_pong", "writes_done", "finish"}
          /\ p \in {"request", "ping_pong", "writes_done", "finish"} \cup Ended
          /\ p = "ping_pong" => l \in {"request", "ping_pong"}
          /\ p = "writes_done" => l = "ping_pong"

Course(x, f, side, call, l, r, p, e) ==
    IF side = "server" THEN ServerCourse(x, f, call, l, r, p, e)
    ELSE ClientCourse(x, call, l, r, p, e)

Edge(x, f, side, call, l, r, p, e) ==
    /\ Rank(l) <= Rank(p) /\ (p \in Joins => Rank(l) < Rank(p))
    /\ IF side = "server" THEN ServerEdge(x, call, ReadyPoints(f), l, r, p, e)
       ELSE ClientEdge(call, l, r, p, e)
    /\ Course(x, f, side, call, l, r, p, e)

(* The points whose methods the responder has; no others are reached.       *)
Live(side, call, T) ==
    {l \in DOMAIN T \ {"start"} :
        AwaitAt(l) \cap RpcMethods \subseteq Methods(side, KindOf(call))}

(* What is common to all tables.                                            *)
TableOK(x, f, side, call, T) ==
    /\ DOMAIN T \ {"start"} \subseteq Points /\ "start" \in DOMAIN T
    /\ "ping_pong" \in DOMAIN T => side = "client" /\ call = "bidirectional"
    /\ "deadline" \in DOMAIN T => side = "client" /\ call = "slow_unary"
    /\ side = "server" => \E p : T.start = Goto(p)
    /\ \A t \in T.start :
          /\ t.point \in Live(side, call, T)
          /\ Edge(x, f, side, call, "start", "true", t.point, t.effect)
    /\ \A l \in DOMAIN T \ {"start"} :
          /\ T[l].await = AwaitAt(l)
          /\ T[l].starts # {} => l \in Joins
    /\ \A l \in Live(side, call, T) : \A r \in Results : \A t \in T[l].next[r] :
          /\ t.point \in Live(side, call, T) \cup Ended
          /\ Edge(x, f, side, call, l, r, t.point, t.effect)

(* The fields of targets ...                                                *)
LEMMA Targets ==
    /\ \A p : \A t \in Goto(p) : t.point = p /\ t.effect = "none"
    /\ \A e, p : \A t \in Do(e, p) : t.point = p /\ t.effect = e
    /\ \A p : \A t \in More(p) : t.point = p /\ t.effect = "none"
    /\ \A p : \A t \in Last(p) : t.point = p /\ t.effect = "none"
    /\ \A t \in Return : t.point = "end" /\ t.effect = "none"
    /\ \A t \in Abort : t.point = "aborted" /\ t.effect = "abort"
    /\ \A p : \A t \in Expect(p) : t.point = p /\ t.effect = "expect"
  BY DEF Goto, Do, More, Last, Target, Return, Abort, Expect

(* ... and of rows.                                                        *)
LEMMA Nodes ==
    /\ \A fns, next : LET n == Await(fns, next)
                      IN n.await = fns /\ n.starts = {} /\ n.next = next
    /\ \A frames, next : LET n == AwaitAll(frames, next)
                         IN n.await = {"join"} /\ n.starts = frames /\ n.next = next
    /\ \A p : \A r \in Results : Always(p)[r] = Goto(p)
    /\ \A ts : \A r \in Results : AnyOf(ts)[r] = ts
    /\ \A a, b : \A r \in Results : IfOk(a, b)[r] = IF r \in Ok THEN a ELSE b
  BY DEF Await, AwaitAll, Always, AnyOf, IfOk, Ok

(* The methods of the eight responders.                                     *)
LEMMA MethodsLists ==
    /\ Methods("client", "unary") = {"AsyncUnary", "ReadInitialMetadata", "Finish"}
    /\ Methods("client", "client_streaming") =
          {"Request", "ReadInitialMetadata", "Write", "WriteLast", "WritesDone", "Finish"}
    /\ Methods("client", "server_streaming") =
          {"Request", "ReadInitialMetadata", "Read", "WritesDone", "Finish"}
    /\ Methods("client", "bidirectional") =
          {"Request", "ReadInitialMetadata", "Read", "Write", "WriteLast", "WritesDone", "Finish"}
    /\ Methods("server", "unary") =
          {"Request", "SendInitialMetadata", "Finish", "FinishWithError"}
    /\ Methods("server", "client_streaming") =
          {"Request", "SendInitialMetadata", "Read", "Finish", "FinishWithError"}
    /\ Methods("server", "server_streaming") =
          {"Request", "SendInitialMetadata", "Write", "WriteLast", "WriteAndFinish", "Finish"}
    /\ Methods("server", "bidirectional") =
          {"Request", "SendInitialMetadata", "Read", "Write", "WriteLast", "WriteAndFinish", "Finish"}
  BY DEF Methods, ClientAsyncResponders, ServerAsyncResponders,
     BaseAsyncReaderInitFunctions, BaseAsyncWriterInitFunctions,
     BaseClientAsyncStreamingInitFunctions, ReadInitialMetadataInitFunction,
     ClientRequestInitFunctions, BaseServerAsyncReaderInitFunctions,
     BaseServerAsyncWriterInitFunctions, SendInitialMetadataInitFunction,
     ServerMultiArgRequestInitFunction, ServerSingleArgRequestInitFunction

(* The table next_client_streaming_request.                                 *)
LEMMA Table_next_client_streaming_request ==
    ASSUME NEW x, NEW f, f \notin {"reader", "writer"}
    PROVE  TableOK(x, f, "server", "never", next_client_streaming_request)
  BY Nodes, Targets, MethodsLists, RpcMethodsList
  DEF next_client_streaming_request, TableOK, Edge, Rank, ServerEdge, Course, ServerCourse, Streaming, KindOf,
     Live, AwaitAt, Joins, Points, FinalPoints, ReadyPoints, Ok, Ended,
     Multi, ServerMultiArgRequestInitFunction

(* The table handle_client_streaming_request.                               *)
LEMMA Table_handle_client_streaming_request ==
    ASSUME NEW x, NEW f, f \notin {"reader", "writer"}
    PROVE  TableOK(x, f, "server", "client_streaming", handle_client_streaming_request)
  BY Nodes, Targets, MethodsLists, RpcMethodsList
  DEF handle_client_streaming_request, TableOK, Edge, Rank, ServerEdge, Course, ServerCourse, Streaming, KindOf,
     Live, AwaitAt, Joins, Points, FinalPoints, ReadyPoints, Ok, Ended,
     Multi, ServerMultiArgRequestInitFunction

(* The table reader.                                                        *)
LEMMA Table_reader ==
    ASSUME NEW x, NEW f, f = "reader"
    PROVE  TableOK(x, f, "server", "bidirectional", reader)
  BY Nodes, Targets, MethodsLists, RpcMethodsList
  DEF reader, TableOK, Edge, Rank, ServerEdge, Course, ServerCourse, Streaming, KindOf,
     Live, AwaitAt, Joins, Points, FinalPoints, ReadyPoints, Ok, Ended,
     Multi, ServerMultiArgRequestInitFunction

(* The table writer.                                                        *)
LEMMA Table_writer ==
    ASSUME NEW x, NEW f, f = "writer"
    PROVE  TableOK(x, f, "server", "bidirectional", writer)
  BY Nodes, Targets, MethodsLists, RpcMethodsList
  DEF writer, TableOK, Edge, Rank, ServerEdge, Course, ServerCourse, Streaming, KindOf,
     Live, AwaitAt, Joins, Points, FinalPoints, ReadyPoints, Ok, Ended,
     Multi, ServerMultiArgRequestInitFunction

(* The table handle_slow_unary_request.                                     *)
LEMMA Table_handle_slow_unary_request ==
    ASSUME NEW x, NEW f, f \notin {"reader", "writer"}
    PROVE  TableOK(x, f, "server", "slow_unary", handle_slow_unary_request)
  BY Nodes, Targets, MethodsLists, RpcMethodsList
  DEF handle_slow_unary_request, TableOK, Edge, Rank, ServerEdge, Course, ServerCourse, Streaming, KindOf,
     Live, AwaitAt, Joins, Points, FinalPoints, ReadyPoints, Ok, Ended,
     Multi, ServerMultiArgRequestInitFunction

(* The table handle_shutdown_request.                                       *)
LEMMA Table_handle_shutdown_request ==
    ASSUME NEW x, NEW f, f \notin {"reader", "writer"}, x \in Streaming
    PROVE  TableOK(x, f, "server", "shutdown", handle_shutdown_request)
  BY Nodes, Targets, MethodsLists, RpcMethodsList
  DEF handle_shutdown_request, TableOK, Edge, Rank, ServerEdge, Course, ServerCourse, Streaming, KindOf,
     Live, AwaitAt, Joins, Points, FinalPoints, ReadyPoints, Ok, Ended,
     Multi, ServerMultiArgRequestInitFunction

(* The table signals.                                                       *)
LEMMA Table_signals ==
    ASSUME NEW x, NEW f, f \notin {"reader", "writer"}, x \in Streaming
    PROVE  TableOK(x, f, "server", "never", signals)
  BY Nodes, Targets, MethodsLists, RpcMethodsList
  DEF signals, TableOK, Edge, Rank, ServerEdge, Course, ServerCourse, Streaming, KindOf,
     Live, AwaitAt, Joins, Points, FinalPoints, ReadyPoints, Ok, Ended,
     Multi, ServerMultiArgRequestInitFunction

(* The table register_unary_request_handler.                                *)
LEMMA Table_register_unary_request_handler ==
    ASSUME NEW x, NEW f, f \notin {"reader", "writer"}
    PROVE  TableOK(x, f, "server", "unary", register_unary_request_handler)
  BY Nodes, Targets, MethodsLists, RpcMethodsList
  DEF register_unary_request_handler, TableOK, Edge, Rank, ServerEdge, Course, ServerCourse, Streaming, KindOf,
     Live, AwaitAt, Joins, Points, FinalPoints, ReadyPoints, Ok, Ended,
     Multi, ServerMultiArgRequestInitFunction

(* The table handle_server_streaming_request.                               *)
LEMMA Table_handle_server_streaming_request ==
    ASSUME NEW x, NEW f, f \notin {"reader", "writer"}
    PROVE  TableOK(x, f, "server", "server_streaming", handle_server_streaming_request)
  BY Nodes, Targets, MethodsLists, RpcMethodsList
  DEF handle_server_streaming_request, TableOK, Edge, Rank, ServerEdge, Course, ServerCourse, Streaming, KindOf,
     Live, AwaitAt, Joins, Points, FinalPoints, ReadyPoints, Ok, Ended,
     Multi, ServerMultiArgRequestInitFunction

(* The table hello_world_server.                                            *)
LEMMA Table_hello_world_server ==
    ASSUME NEW x, NEW f, f \notin {"reader", "writer"}, x = "hello_world"
    PROVE  TableOK(x, f, "server", "unary", hello_world_server)
  BY Nodes, Targets, MethodsLists, RpcMethodsList
  DEF hello_world_server, TableOK, Edge, Rank, ServerEdge, Course, ServerCourse, Streaming, KindOf,
     Live, AwaitAt, Joins, Points, FinalPoints, ReadyPoints, Ok, Ended,
     Multi, ServerMultiArgRequestInitFunction

(* The table handle_grpc_request.                                           *)
LEMMA Table_handle_grpc_request ==
    ASSUME NEW x, NEW f, f \notin {"reader", "writer"}
    PROVE  TableOK(x, f, "server", "unary", handle_grpc_request)
  BY Nodes, Targets, MethodsLists, RpcMethodsList
  DEF handle_grpc_request, TableOK, Edge, Rank, ServerEdge, Course, ServerCourse, Streaming, KindOf,
     Live, AwaitAt, Joins, Points, FinalPoints, ReadyPoints, Ok, Ended,
     Multi, ServerMultiArgRequestInitFunction

(* The table make_client_streaming_request.                                 *)
LEMMA Table_make_client_streaming_request ==
    ASSUME NEW x, NEW f, x \notin {"unary", "client_streaming"}
    PROVE  TableOK(x, f, "client", "client_streaming", make_client_streaming_request)
  BY Nodes, Targets, MethodsLists, RpcMethodsList
  DEF make_client_streaming_request, TableOK, Edge, Rank, ClientEdge, Course, ClientCourse, Streaming, KindOf,
     Live, AwaitAt, Joins, Points, FinalPoints, ClosedPoints, Ok, Ended,
     Multi, ServerMultiArgRequestInitFunction

(* The table make_bidirectional_streaming_request.                          *)
LEMMA Table_make_bidirectional_streaming_request ==
    ASSUME NEW x, NEW f, x \notin {"unary", "client_streaming"}
    PROVE  TableOK(x, f, "client", "bidirectional", make_bidirectional_streaming_request)
  BY Nodes, Targets, MethodsLists, RpcMethodsList
  DEF make_bidirectional_streaming_request, TableOK, Edge, Rank, ClientEdge, Course, ClientCourse, Streaming, KindOf,
     Live, AwaitAt, Joins, Points, FinalPoints, ClosedPoints, Ok, Ended,
     Multi, ServerMultiArgRequestInitFunction

(* The table make_and_cancel_unary_request.                                 *)
LEMMA Table_make_and_cancel_unary_request ==
    ASSUME NEW x, NEW f, x \notin {"unary", "client_streaming"}
    PROVE  TableOK(x, f, "client", "slow_unary", make_and_cancel_unary_request)
  BY Nodes, Targets, MethodsLists, RpcMethodsList
  DEF make_and_cancel_unary_request, TableOK, Edge, Rank, ClientEdge, Course, ClientCourse, Streaming, KindOf,
     Live, AwaitAt, Joins, Points, FinalPoints, ClosedPoints, Ok, Ended,
     Multi, ServerMultiArgRequestInitFunction

(* The table unifex_make_and_cancel_unary_request.                                        *)
LEMMA Table_unifex_make_and_cancel_unary_request ==
    ASSUME NEW x, NEW f, x \notin {"unary", "client_streaming"}
    PROVE  TableOK(x, f, "client", "slow_unary", unifex_make_and_cancel_unary_request)
  BY Nodes, Targets, MethodsLists, RpcMethodsList
  DEF unifex_make_and_cancel_unary_request, TableOK, Edge, Rank, ClientEdge, Course, ClientCourse, Streaming, KindOf,
     Live, AwaitAt, Joins, Points, FinalPoints, ClosedPoints, Ok, Ended,
     Multi, ServerMultiArgRequestInitFunction

(* The table make_grpc_request.                                        *)
LEMMA Table_make_grpc_request ==
    ASSUME NEW x, NEW f, x = "share_io_context"
    PROVE  TableOK(x, f, "client", "unary", make_grpc_request)
  BY Nodes, Targets, MethodsLists, RpcMethodsList
  DEF make_grpc_request, TableOK, Edge, Rank, ClientEdge, Course, ClientCourse, Streaming, KindOf,
     Live, AwaitAt, Joins, Points, FinalPoints, ClosedPoints, Ok, Ended,
     Multi, ServerMultiArgRequestInitFunction

(* The table make_shutdown_request.                                         *)
LEMMA Table_make_shutdown_request ==
    ASSUME NEW x, NEW f, x \notin {"unary", "client_streaming"}
    PROVE  TableOK(x, f, "client", "shutdown", make_shutdown_request)
  BY Nodes, Targets, MethodsLists, RpcMethodsList
  DEF make_shutdown_request, TableOK, Edge, Rank, ClientEdge, Course, ClientCourse, Streaming, KindOf,
     Live, AwaitAt, Joins, Points, FinalPoints, ClosedPoints, Ok, Ended,
     Multi, ServerMultiArgRequestInitFunction

(* The table make_unary_request.                                            *)
LEMMA Table_make_unary_request ==
    ASSUME NEW x, NEW f, x \notin {"unary", "client_streaming"}
    PROVE  TableOK(x, f, "client", "unary", make_unary_request)
  BY Nodes, Targets, MethodsLists, RpcMethodsList
  DEF make_unary_request, TableOK, Edge, Rank, ClientEdge, Course, ClientCourse, Streaming, KindOf,
     Live, AwaitAt, Joins, Points, FinalPoints, ClosedPoints, Ok, Ended,
     Multi, ServerMultiArgRequestInitFunction

(* The table make_server_streaming_request.                                 *)
LEMMA Table_make_server_streaming_request ==
    ASSUME NEW x, NEW f, x \notin {"unary", "client_streaming"}
    PROVE  TableOK(x, f, "client", "server_streaming", make_server_streaming_request)
  BY Nodes, Targets, MethodsLists, RpcMethodsList
  DEF make_server_streaming_request, TableOK, Edge, Rank, ClientEdge, Course, ClientCourse, Streaming, KindOf,
     Live, AwaitAt, Joins, Points, FinalPoints, ClosedPoints, Ok, Ended,
     Multi, ServerMultiArgRequestInitFunction

(* The table AnyServer of kind unary.                                       *)
LEMMA Table_AnyServer_unary ==
    ASSUME NEW x, NEW f, f \notin {"reader", "writer"}, x = "unary"
    PROVE  TableOK(x, f, "server", "unary", AnyServer("unary"))
  BY Nodes, Targets, MethodsLists, RpcMethodsList
  DEF AnyServer, ReadsOf, TableOK, Edge, Rank, ServerEdge, Course, ServerCourse, Streaming, KindOf,
     Live, AwaitAt, Joins, Points, FinalPoints, ReadyPoints, Ok, Ended,
     Multi, ServerMultiArgRequestInitFunction

(* The table AnyClient of kind unary.                                       *)
LEMMA Table_AnyClient_unary ==
    ASSUME NEW x, NEW f, x = "unary"
    PROVE  TableOK(x, f, "client", "unary", AnyClient("unary"))
  BY Nodes, Targets, MethodsLists, RpcMethodsList
  DEF AnyClient, ReadsOf, TableOK, Edge, Rank, ClientEdge, Course, ClientCourse, Streaming, KindOf,
     Live, AwaitAt, Joins, Points, FinalPoints, ClosedPoints, Ok, Ended,
     Multi, ServerMultiArgRequestInitFunction

(* The table AnyServer of kind client_streaming.                            *)
LEMMA Table_AnyServer_client_streaming ==
    ASSUME NEW x, NEW f, f \notin {"reader", "writer"}, x = "client_streaming"
    PROVE  TableOK(x, f, "server", "client_streaming", AnyServer("client_streaming"))
  BY Nodes, Targets, MethodsLists, RpcMethodsList
  DEF AnyServer, ReadsOf, TableOK, Edge, Rank, ServerEdge, Course, ServerCourse, Streaming, KindOf,
     Live, AwaitAt, Joins, Points, FinalPoints, ReadyPoints, Ok, Ended,
     Multi, ServerMultiArgRequestInitFunction

(* The table AnyClient of kind client_streaming.                            *)
LEMMA Table_AnyClient_client_streaming ==
    ASSUME NEW x, NEW f, x = "client_streaming"
    PROVE  TableOK(x, f, "client", "client_streaming", AnyClient("client_streaming"))
  BY Nodes, Targets, MethodsLists, RpcMethodsList
  DEF AnyClient, ReadsOf, TableOK, Edge, Rank, ClientEdge, Course, ClientCourse, Streaming, KindOf,
     Live, AwaitAt, Joins, Points, FinalPoints, ClosedPoints, Ok, Ended,
     Multi, ServerMultiArgRequestInitFunction

(* The table AnyServer of kind server_streaming.                            *)
LEMMA Table_AnyServer_server_streaming ==
    ASSUME NEW x, NEW f, f \notin {"reader", "writer"}, x = "server_streaming"
    PROVE  TableOK(x, f, "server", "server_streaming", AnyServer("server_streaming"))
  BY Nodes, Targets, MethodsLists, RpcMethodsList
  DEF AnyServer, ReadsOf, TableOK, Edge, Rank, ServerEdge, Course, ServerCourse, Streaming, KindOf,
     Live, AwaitAt, Joins, Points, FinalPoints, ReadyPoints, Ok, Ended,
     Multi, ServerMultiArgRequestInitFunction

(* The table AnyClient of kind server_streaming.                            *)
LEMMA Table_AnyClient_server_streaming ==
    ASSUME NEW x, NEW f, x = "server_streaming"
    PROVE  TableOK(x, f, "client", "server_streaming", AnyClient("server_streaming"))
  BY Nodes, Targets, MethodsLists, RpcMethodsList
  DEF AnyClient, ReadsOf, TableOK, Edge, Rank, ClientEdge, Course, ClientCourse, Streaming, KindOf,
     Live, AwaitAt, Joins, Points, FinalPoints, ClosedPoints, Ok, Ended,
     Multi, ServerMultiArgRequestInitFunction

(* The table AnyServer of kind bidirectional.                               *)
LEMMA Table_AnyServer_bidirectional ==
    ASSUME NEW x, NEW f, f \notin {"reader", "writer"}, x = "bidirectional"
    PROVE  TableOK(x, f, "server", "bidirectional", AnyServer("bidirectional"))
  BY Nodes, Targets, MethodsLists, RpcMethodsList
  DEF AnyServer, ReadsOf, TableOK, Edge, Rank, ServerEdge, Course, ServerCourse, Streaming, KindOf,
     Live, AwaitAt, Joins, Points, FinalPoints, ReadyPoints, Ok, Ended,
     Multi, ServerMultiArgRequestInitFunction

(* The table AnyClient of kind bidirectional.                               *)
LEMMA Table_AnyClient_bidirectional ==
    ASSUME NEW x, NEW f, x = "bidirectional"
    PROVE  TableOK(x, f, "client", "bidirectional", AnyClient("bidirectional"))
  BY Nodes, Targets, MethodsLists, RpcMethodsList
  DEF AnyClient, ReadsOf, TableOK, Edge, Rank, ClientEdge, Course, ClientCourse, Streaming, KindOf,
     Live, AwaitAt, Joins, Points, FinalPoints, ClosedPoints, Ok, Ended,
     Multi, ServerMultiArgRequestInitFunction

(* The table register_client_streaming_handler.                             *)
LEMMA Table_register_client_streaming_handler ==
    ASSUME NEW x, NEW f, f \notin {"reader", "writer"}
    PROVE  TableOK(x, f, "server", "client_streaming", register_client_streaming_handler)
<1> DEFINE T == register_client_streaming_handler
<1>1. /\ DOMAIN T = {"start", "request", "handle"}
      /\ T.start = Goto("request")
  BY DEF register_client_streaming_handler
<1>2. /\ T["request"].await = {"Request"}
      /\ T["handle"].await = {"join"}
      /\ T["request"].starts = {}
  BY Nodes DEF register_client_streaming_handler
<1>3. /\ \A r \in Results : T["request"].next[r] = IF r \in Ok THEN Goto("handle") ELSE Return
      /\ \A r \in Results : T["handle"].next[r] = Goto("end")
  BY Nodes DEF register_client_streaming_handler
<1> HIDE DEF T
<1>4. \A l \in DOMAIN T \ {"start"} :
        T[l].await = AwaitAt(l) /\ (T[l].starts # {} => l \in Joins)
  BY <1>1, <1>2 DEF AwaitAt, Joins
<1>5. Live("server", "client_streaming", T) = {"request", "handle"}
  BY <1>1, MethodsLists, RpcMethodsList DEF Live, AwaitAt, KindOf
<1>6. DOMAIN T \ {"start"} \subseteq Points
  BY <1>1 DEF Points, Joins
<1>7. \A l \in Live("server", "client_streaming", T) : \A r \in Results : \A t \in T[l].next[r] :
          /\ t.point \in Live("server", "client_streaming", T) \cup Ended
          /\ Edge(x, f, "server", "client_streaming", l, r, t.point, t.effect)
  BY <1>3, <1>5, Targets DEF Edge, Rank, Joins, ServerEdge, Course, ServerCourse, Streaming, KindOf, FinalPoints, ReadyPoints,
     Ok, Ended, Multi, ServerMultiArgRequestInitFunction
<1>8. \A t \in T.start :
          /\ t.point \in Live("server", "client_streaming", T)
          /\ Edge(x, f, "server", "client_streaming", "start", "true", t.point, t.effect)
  BY <1>1, <1>5, Targets DEF Edge, Rank, Joins, ServerEdge, Course, ServerCourse, Streaming, KindOf, FinalPoints, ReadyPoints,
     Ok, Ended, Multi, ServerMultiArgRequestInitFunction
<1> QED BY <1>1, <1>4, <1>6, <1>7, <1>8 DEF TableOK, T

(* The table handle_bidirectional_streaming_request.                        *)
LEMMA Table_handle_bidirectional_streaming_request ==
    ASSUME NEW x, NEW f, f \notin {"reader", "writer"}, x = "streaming_bidirectional"
    PROVE  TableOK(x, f, "server", "bidirectional", handle_bidirectional_streaming_request)
<1> DEFINE T == handle_bidirectional_streaming_request
<1>1. /\ DOMAIN T = {"start", "request", "reader_and_writer", "finish"}
      /\ T.start = Goto("request")
  BY DEF handle_bidirectional_streaming_request
<1>2. /\ T["request"].await = {"Request"}
      /\ T["reader_and_writer"].await = {"join"}
      /\ T["finish"].await = {"Finish"}
      /\ T["request"].starts = {}
      /\ T["finish"].starts = {}
  BY Nodes DEF handle_bidirectional_streaming_request
<1>3. /\ \A r \in Results : T["request"].next[r] = IF r \in Ok THEN Goto("reader_and_writer") ELSE Return
      /\ \A r \in Results : T["reader_and_writer"].next[r] = IF r \in Ok THEN Goto("finish") ELSE Return
      /\ \A r \in Results : T["finish"].next[r] = Goto("end")
  BY Nodes DEF handle_bidirectional_streaming_request
<1> HIDE DEF T
<1>4. \A l \in DOMAIN T \ {"start"} :
        T[l].await = AwaitAt(l) /\ (T[l].starts # {} => l \in Joins)
  BY <1>1, <1>2 DEF AwaitAt, Joins
<1>5. Live("server", "bidirectional", T) = {"request", "reader_and_writer", "finish"}
  BY <1>1, MethodsLists, RpcMethodsList DEF Live, AwaitAt, KindOf
<1>6. DOMAIN T \ {"start"} \subseteq Points
  BY <1>1 DEF Points, Joins
<1>7. \A l \in Live("server", "bidirectional", T) : \A r \in Results : \A t \in T[l].next[r] :
          /\ t.point \in Live("server", "bidirectional", T) \cup Ended
          /\ Edge(x, f, "server", "bidirectional", l, r, t.point, t.effect)
  BY <1>3, <1>5, Targets DEF Edge, Rank, Joins, ServerEdge, Course, ServerCourse, Streaming, KindOf, FinalPoints, ReadyPoints,
     Ok, Ended, Multi, ServerMultiArgRequestInitFunction
<1>8. \A t \in T.start :
          /\ t.point \in Live("server", "bidirectional", T)
          /\ Edge(x, f, "server", "bidirectional", "start", "true", t.point, t.effect)
  BY <1>1, <1>5, Targets DEF Edge, Rank, Joins, ServerEdge, Course, ServerCourse, Streaming, KindOf, FinalPoints, ReadyPoints,
     Ok, Ended, Multi, ServerMultiArgRequestInitFunction
<1> QED BY <1>1, <1>4, <1>6, <1>7, <1>8 DEF TableOK, T

(* The table main.                                                          *)
LEMMA Table_main ==
    ASSUME NEW x, NEW f, NEW part
    PROVE  TableOK(x, f, "client", "never", streaming_client_main(part))
<1> DEFINE T == streaming_client_main(part)
<1>1. /\ DOMAIN T = {"start", "both", "cancel", "shutdown"}
      /\ T.start = Goto("both")
  BY DEF streaming_client_main
<1>2. /\ T["both"].await = {"join"}
      /\ T["cancel"].await = {"join"}
      /\ T["shutdown"].await = {"join"}
  BY Nodes DEF streaming_client_main
<1>3. /\ \A r \in Results : T["both"].next[r] = Goto("cancel")
      /\ \A r \in Results : T["cancel"].next[r] = Goto("shutdown")
      /\ \A r \in Results : T["shutdown"].next[r] = Goto("end")
  BY Nodes DEF streaming_client_main
<1> HIDE DEF T
<1>4. \A l \in DOMAIN T \ {"start"} :
        T[l].await = AwaitAt(l) /\ (T[l].starts # {} => l \in Joins)
  BY <1>1, <1>2 DEF AwaitAt, Joins
<1>5. Live("client", "never", T) = {"both", "cancel", "shutdown"}
  BY <1>1, MethodsLists, RpcMethodsList DEF Live, AwaitAt, KindOf
<1>6. DOMAIN T \ {"start"} \subseteq Points
  BY <1>1 DEF Points, Joins
<1>7. \A l \in Live("client", "never", T) : \A r \in Results : \A t \in T[l].next[r] :
          /\ t.point \in Live("client", "never", T) \cup Ended
          /\ Edge(x, f, "client", "never", l, r, t.point, t.effect)
  BY <1>3, <1>5, Targets DEF Edge, Rank, Joins, ClientEdge, Course, ClientCourse, Streaming, KindOf, FinalPoints, ClosedPoints,
     Ok, Ended, Multi, ServerMultiArgRequestInitFunction
<1>8. \A t \in T.start :
          /\ t.point \in Live("client", "never", T)
          /\ Edge(x, f, "client", "never", "start", "true", t.point, t.effect)
  BY <1>1, <1>5, Targets DEF Edge, Rank, Joins, ClientEdge, Course, ClientCourse, Streaming, KindOf, FinalPoints, ClosedPoints,
     Ok, Ended, Multi, ServerMultiArgRequestInitFunction
<1> QED BY <1>1, <1>4, <1>6, <1>7, <1>8 DEF TableOK, T

-----------------------------------------------------------------------------
(* The coroutines of the examples.                                          *)

(* The coroutines of streaming_client_streaming.                            *)
LEMMA Frames_streaming_client_streaming ==
    /\ DOMAIN Programs["streaming_client_streaming"] =
          {"register_client_streaming_handler",
           "next_client_streaming_request",
           "handle_client_streaming_request",
           "make_client_streaming_request",
           "main",
           "make_shutdown_request",
           "handle_shutdown_request",
           "signals"}
    /\ Programs["streaming_client_streaming"]["register_client_streaming_handler"] =
          Server("client_streaming", register_client_streaming_handler)
    /\ Programs["streaming_client_streaming"]["next_client_streaming_request"] =
          Server("never", next_client_streaming_request)
    /\ Programs["streaming_client_streaming"]["handle_client_streaming_request"] =
          Server("client_streaming", handle_client_streaming_request)
    /\ Programs["streaming_client_streaming"]["make_client_streaming_request"] =
          Client("client_streaming", make_client_streaming_request)
    /\ Programs["streaming_client_streaming"]["main"] =
          Client("never", streaming_client_main(DOMAIN streaming_client_streaming))
    /\ Programs["streaming_client_streaming"]["make_shutdown_request"] =
          Client("shutdown", make_shutdown_request)
    /\ Programs["streaming_client_streaming"]["handle_shutdown_request"] =
          Server("shutdown", handle_shutdown_request)
    /\ Programs["streaming_client_streaming"]["signals"] =
          Server("never", signals)
  BY DEF Programs, streaming, streaming_client_streaming

(* The coroutines of streaming_bidirectional.                               *)
LEMMA Frames_streaming_bidirectional ==
    /\ DOMAIN Programs["streaming_bidirectional"] =
          {"handle_bidirectional_streaming_request",
           "reader",
           "writer",
           "make_bidirectional_streaming_request",
           "main",
           "make_shutdown_request",
           "handle_shutdown_request",
           "signals"}
    /\ Programs["streaming_bidirectional"]["handle_bidirectional_streaming_request"] =
          Server("bidirectional", handle_bidirectional_streaming_request)
    /\ Programs["streaming_bidirectional"]["reader"] =
          Server("bidirectional", reader)
    /\ Programs["streaming_bidirectional"]["writer"] =
          Server("bidirectional", writer)
    /\ Programs["streaming_bidirectional"]["make_bidirectional_streaming_request"] =
          Client("bidirectional", make_bidirectional_streaming_request)
    /\ Programs["streaming_bidirectional"]["main"] =
          Client("never", streaming_client_main(DOMAIN streaming_bidirectional))
    /\ Programs["streaming_bidirectional"]["make_shutdown_request"] =
          Client("shutdown", make_shutdown_request)
    /\ Programs["streaming_bidirectional"]["handle_shutdown_request"] =
          Server("shutdown", handle_shutdown_request)
    /\ Programs["streaming_bidirectional"]["signals"] =
          Server("never", signals)
  BY DEF Programs, streaming, streaming_bidirectional

(* The coroutines of streaming_slow_unary.                                  *)
LEMMA Frames_streaming_slow_unary ==
    /\ DOMAIN Programs["streaming_slow_unary"] =
          {"handle_slow_unary_request",
           "make_and_cancel_unary_request",
           "main",
           "make_shutdown_request",
           "handle_shutdown_request",
           "signals"}
    /\ Programs["streaming_slow_unary"]["handle_slow_unary_request"] =
          Server("slow_unary", handle_slow_unary_request)
    /\ Programs["streaming_slow_unary"]["make_and_cancel_unary_request"] =
          Client("slow_unary", make_and_cancel_unary_request)
    /\ Programs["streaming_slow_unary"]["main"] =
          Client("never", streaming_client_main(DOMAIN streaming_slow_unary))
    /\ Programs["streaming_slow_unary"]["make_shutdown_request"] =
          Client("shutdown", make_shutdown_request)
    /\ Programs["streaming_slow_unary"]["handle_shutdown_request"] =
          Server("shutdown", handle_shutdown_request)
    /\ Programs["streaming_slow_unary"]["signals"] =
          Server("never", signals)
  BY DEF Programs, streaming, streaming_slow_unary

(* The coroutines of unifex.                                                *)
LEMMA Frames_unifex ==
    /\ DOMAIN Programs["unifex"] =
          {"register_unary_request_handler",
           "handle_server_streaming_request",
           "handle_slow_unary_request",
           "make_unary_request",
           "make_server_streaming_request",
           "make_and_cancel_unary_request"}
    /\ Programs["unifex"]["register_unary_request_handler"] =
          Server("unary", register_unary_request_handler)
    /\ Programs["unifex"]["handle_server_streaming_request"] =
          Server("server_streaming", handle_server_streaming_request)
    /\ Programs["unifex"]["handle_slow_unary_request"] =
          Server("slow_unary", handle_slow_unary_request)
    /\ Programs["unifex"]["make_unary_request"] =
          Client("unary", make_unary_request)
    /\ Programs["unifex"]["make_server_streaming_request"] =
          Client("server_streaming", make_server_streaming_request)
    /\ Programs["unifex"]["make_and_cancel_unary_request"] =
          Client("slow_unary", unifex_make_and_cancel_unary_request)
  BY DEF Programs, unifex, unifex_handle_slow_unary_request

(* The coroutines of hello_world.                                           *)
LEMMA Frames_hello_world ==
    /\ DOMAIN Programs["hello_world"] =
          {"server",
           "client"}
    /\ Programs["hello_world"]["server"] =
          Server("unary", hello_world_server)
    /\ Programs["hello_world"]["client"] =
          Client("unary", make_unary_request)
  BY DEF Programs, hello_world_client

(* The coroutines of share_io_context.                                      *)
LEMMA Frames_share_io_context ==
    /\ DOMAIN Programs["share_io_context"] =
          {"server",
           "client"}
    /\ Programs["share_io_context"]["server"] =
          Server("unary", handle_grpc_request)
    /\ Programs["share_io_context"]["client"] =
          Client("unary", make_grpc_request)
  BY DEF Programs

(* The coroutines of unary.                                                 *)
LEMMA Frames_unary ==
    /\ DOMAIN Programs["unary"] =
          {"server",
           "client"}
    /\ Programs["unary"]["server"] =
          Server("unary", AnyServer("unary"))
    /\ Programs["unary"]["client"] =
          Client("unary", AnyClient("unary"))
  BY DEF Programs

(* The coroutines of client_streaming.                                      *)
LEMMA Frames_client_streaming ==
    /\ DOMAIN Programs["client_streaming"] =
          {"server",
           "client"}
    /\ Programs["client_streaming"]["server"] =
          Server("client_streaming", AnyServer("client_streaming"))
    /\ Programs["client_streaming"]["client"] =
          Client("client_streaming", AnyClient("client_streaming"))
  BY DEF Programs

(* The coroutines of server_streaming.                                      *)
LEMMA Frames_server_streaming ==
    /\ DOMAIN Programs["server_streaming"] =
          {"server",
           "client"}
    /\ Programs["server_streaming"]["server"] =
          Server("server_streaming", AnyServer("server_streaming"))
    /\ Programs["server_streaming"]["client"] =
          Client("server_streaming", AnyClient("server_streaming"))
  BY DEF Programs

(* The coroutines of bidirectional.                                         *)
LEMMA Frames_bidirectional ==
    /\ DOMAIN Programs["bidirectional"] =
          {"server",
           "client"}
    /\ Programs["bidirectional"]["server"] =
          Server("bidirectional", AnyServer("bidirectional"))
    /\ Programs["bidirectional"]["client"] =
          Client("bidirectional", AnyClient("bidirectional"))
  BY DEF Programs

(* The examples.                                                            *)
LEMMA ProgramNames ==
    DOMAIN Programs = {"streaming_client_streaming",
                       "streaming_bidirectional",
                       "streaming_slow_unary",
                       "unifex",
                       "hello_world",
                       "share_io_context",
                       "unary",
                       "client_streaming",
                       "server_streaming",
                       "bidirectional"}
  BY DEF Programs

ParentOf(g) ==
    CASE g \in {"handle_client_streaming_request",
                "next_client_streaming_request"} ->
            "register_client_streaming_handler"
      [] g \in {"reader", "writer"} -> "handle_bidirectional_streaming_request"
      [] OTHER -> "main"

StartPoint(g) ==
    CASE g \in {"handle_client_streaming_request",
                "next_client_streaming_request"} -> "handle"
      [] g \in {"reader", "writer"} -> "reader_and_writer"
      [] g = "make_and_cancel_unary_request" -> "cancel"
      [] g = "make_shutdown_request" -> "shutdown"
      [] OTHER -> "both"

StartsOK(x, f) ==
    LET T == Programs[x][f].program
    IN \A l \in DOMAIN T \ {"start"} : \A g \in T[l].starts :
          /\ g \in DOMAIN Programs[x] \ {f}
          /\ f = ParentOf(g) /\ l = StartPoint(g)
          /\ Programs[x][g].side = Programs[x][f].side
          /\ Programs[x][f].side = "server" =>
                Programs[x][g].call \in {Programs[x][f].call, "never"}

(* Every coroutine of every example has a table like that.                  *)
FrameOK(x, f) ==
    /\ Programs[x][f].side \in Sides
    /\ Programs[x][f].call \in Kinds \cup {"slow_unary", "shutdown", "never"}
    /\ TableOK(x, f, Programs[x][f].side, Programs[x][f].call,
               Programs[x][f].program)
    /\ StartsOK(x, f)

(* The fields of a coroutine.                                               *)
LEMMA SidesOf ==
    /\ \A c, T : LET P == Client(c, T)
                 IN P.side = "client" /\ P.call = c /\ P.program = T
    /\ \A c, T : LET P == Server(c, T)
                 IN P.side = "server" /\ P.call = c /\ P.program = T
  BY DEF Client, Server

(* The tables that start no other coroutine.                                *)
NoStarts(T) == \A l \in DOMAIN T \ {"start"} : T[l].starts = {}

(* Most coroutines start no other one.                                      *)
LEMMA NothingStarted ==
    /\ NoStarts(handle_client_streaming_request)
    /\ NoStarts(handle_grpc_request)
    /\ NoStarts(handle_server_streaming_request)
    /\ NoStarts(handle_shutdown_request)
    /\ NoStarts(handle_slow_unary_request)
    /\ NoStarts(hello_world_server)
    /\ NoStarts(make_and_cancel_unary_request)
    /\ NoStarts(unifex_make_and_cancel_unary_request)
    /\ NoStarts(make_grpc_request)
    /\ NoStarts(make_bidirectional_streaming_request)
    /\ NoStarts(make_client_streaming_request)
    /\ NoStarts(make_server_streaming_request)
    /\ NoStarts(make_shutdown_request)
    /\ NoStarts(make_unary_request)
    /\ NoStarts(next_client_streaming_request)
    /\ NoStarts(reader)
    /\ NoStarts(register_unary_request_handler)
    /\ NoStarts(signals)
    /\ NoStarts(writer)
<1>1. NoStarts(handle_client_streaming_request)
  BY Nodes DEF NoStarts, handle_client_streaming_request
<1>2. NoStarts(handle_grpc_request)
  BY Nodes DEF NoStarts, handle_grpc_request
<1>3. NoStarts(handle_server_streaming_request)
  BY Nodes DEF NoStarts, handle_server_streaming_request
<1>4. NoStarts(handle_shutdown_request)
  BY Nodes DEF NoStarts, handle_shutdown_request
<1>5. NoStarts(handle_slow_unary_request)
  BY Nodes DEF NoStarts, handle_slow_unary_request
<1>6. NoStarts(hello_world_server)
  BY Nodes DEF NoStarts, hello_world_server
<1>7. NoStarts(make_and_cancel_unary_request)
  BY Nodes DEF NoStarts, make_and_cancel_unary_request
<1>8. NoStarts(make_bidirectional_streaming_request)
  BY Nodes DEF NoStarts, make_bidirectional_streaming_request
<1>9. NoStarts(make_client_streaming_request)
  BY Nodes DEF NoStarts, make_client_streaming_request
<1>10. NoStarts(make_server_streaming_request)
  BY Nodes DEF NoStarts, make_server_streaming_request
<1>11. NoStarts(make_shutdown_request)
  BY Nodes DEF NoStarts, make_shutdown_request
<1>12. NoStarts(make_unary_request)
  BY Nodes DEF NoStarts, make_unary_request
<1>13. NoStarts(next_client_streaming_request)
  BY Nodes DEF NoStarts, next_client_streaming_request
<1>14. NoStarts(reader)
  BY Nodes DEF NoStarts, reader
<1>15. NoStarts(register_unary_request_handler)
  BY Nodes DEF NoStarts, register_unary_request_handler
<1>16. NoStarts(signals)
  BY Nodes DEF NoStarts, signals
<1>17. NoStarts(writer)
  BY Nodes DEF NoStarts, writer
<1>18. NoStarts(unifex_make_and_cancel_unary_request)
  BY Nodes DEF NoStarts, unifex_make_and_cancel_unary_request
<1>19. NoStarts(make_grpc_request)
  BY Nodes DEF NoStarts, make_grpc_request
<1> QED BY <1>1, <1>2, <1>3, <1>4, <1>5, <1>6, <1>7, <1>8, <1>9, <1>10, <1>11, <1>12, <1>13, <1>14, <1>15, <1>16, <1>17, <1>18, <1>19

(* Nor do the users of rpc.hpp.                                             *)
LEMMA NothingStartedByAny ==
    ASSUME NEW kind
    PROVE  NoStarts(AnyServer(kind)) /\ NoStarts(AnyClient(kind))
  BY Nodes DEF NoStarts, AnyServer, AnyClient

(* The ones that do, and what they start.                                   *)
LEMMA Started ==
    /\ \A l \in DOMAIN register_client_streaming_handler \ {"start"} :
          register_client_streaming_handler[l].starts =
            IF l = "handle" THEN {"handle_client_streaming_request",
                                  "next_client_streaming_request"} ELSE {}
    /\ \A l \in DOMAIN handle_bidirectional_streaming_request \ {"start"} :
          handle_bidirectional_streaming_request[l].starts =
            IF l = "reader_and_writer" THEN {"reader", "writer"} ELSE {}
    /\ \A part : \A l \in DOMAIN streaming_client_main(part) \ {"start"} :
          streaming_client_main(part)[l].starts =
            CASE l = "both" -> part \cap {"make_client_streaming_request",
                                          "make_bidirectional_streaming_request"}
              [] l = "cancel" -> part \cap {"make_and_cancel_unary_request"}
              [] OTHER -> {"make_shutdown_request"}
<1>1. \A l \in DOMAIN register_client_streaming_handler \ {"start"} :
          register_client_streaming_handler[l].starts =
            IF l = "handle" THEN {"handle_client_streaming_request",
                                  "next_client_streaming_request"} ELSE {}
  <2>1. DOMAIN register_client_streaming_handler = {"start", "request", "handle"}
    BY DEF register_client_streaming_handler
  <2>2. /\ register_client_streaming_handler["request"].starts = {}
        /\ register_client_streaming_handler["handle"].starts =
              {"handle_client_streaming_request", "next_client_streaming_request"}
    BY Nodes DEF register_client_streaming_handler
  <2> QED BY <2>1, <2>2
<1>2. \A l \in DOMAIN handle_bidirectional_streaming_request \ {"start"} :
          handle_bidirectional_streaming_request[l].starts =
            IF l = "reader_and_writer" THEN {"reader", "writer"} ELSE {}
  <2>1. DOMAIN handle_bidirectional_streaming_request =
          {"start", "request", "reader_and_writer", "finish"}
    BY DEF handle_bidirectional_streaming_request
  <2>2. /\ handle_bidirectional_streaming_request["request"].starts = {}
        /\ handle_bidirectional_streaming_request["finish"].starts = {}
        /\ handle_bidirectional_streaming_request["reader_and_writer"].starts =
              {"reader", "writer"}
    BY Nodes DEF handle_bidirectional_streaming_request
  <2> QED BY <2>1, <2>2
<1>3. ASSUME NEW part, NEW l \in DOMAIN streaming_client_main(part) \ {"start"}
      PROVE  streaming_client_main(part)[l].starts =
                CASE l = "both" -> part \cap {"make_client_streaming_request",
                                              "make_bidirectional_streaming_request"}
                  [] l = "cancel" -> part \cap {"make_and_cancel_unary_request"}
                  [] OTHER -> {"make_shutdown_request"}
  <2>1. DOMAIN streaming_client_main(part) = {"start", "both", "cancel", "shutdown"}
    BY DEF streaming_client_main
  <2>2. /\ streaming_client_main(part)["both"].starts =
              part \cap {"make_client_streaming_request",
                         "make_bidirectional_streaming_request"}
        /\ streaming_client_main(part)["cancel"].starts =
              part \cap {"make_and_cancel_unary_request"}
        /\ streaming_client_main(part)["shutdown"].starts = {"make_shutdown_request"}
    BY Nodes DEF streaming_client_main
  <2> QED BY <2>1, <2>2
<1> QED BY <1>1, <1>2, <1>3

(* They are well-formed.                                                    *)
LEMMA FrameOK_streaming_client_streaming ==
    \A f \in DOMAIN Programs["streaming_client_streaming"] : FrameOK("streaming_client_streaming", f)
<1>0. DOMAIN streaming_client_streaming = {"register_client_streaming_handler", "next_client_streaming_request", "handle_client_streaming_request", "make_client_streaming_request"}
  BY DEF streaming_client_streaming
<1>1. FrameOK("streaming_client_streaming", "register_client_streaming_handler")
  <2>1. StartsOK("streaming_client_streaming", "register_client_streaming_handler")
    BY Started, SidesOf, Frames_streaming_client_streaming DEF StartsOK, ParentOf, StartPoint
  <2> QED BY <2>1, SidesOf, Frames_streaming_client_streaming, Table_register_client_streaming_handler
        DEF FrameOK, Sides, Kinds, Streaming
<1>2. FrameOK("streaming_client_streaming", "next_client_streaming_request")
  BY SidesOf, Frames_streaming_client_streaming, Table_next_client_streaming_request,
     NothingStarted DEF FrameOK, Sides, Kinds, Streaming, StartsOK, NoStarts
<1>3. FrameOK("streaming_client_streaming", "handle_client_streaming_request")
  BY SidesOf, Frames_streaming_client_streaming, Table_handle_client_streaming_request,
     NothingStarted DEF FrameOK, Sides, Kinds, Streaming, StartsOK, NoStarts
<1>4. FrameOK("streaming_client_streaming", "make_client_streaming_request")
  BY SidesOf, Frames_streaming_client_streaming, Table_make_client_streaming_request,
     NothingStarted DEF FrameOK, Sides, Kinds, Streaming, StartsOK, NoStarts
<1>5. FrameOK("streaming_client_streaming", "main")
  <2>1. StartsOK("streaming_client_streaming", "main")
    <3> DEFINE T == streaming_client_main(DOMAIN streaming_client_streaming)
    <3>1. \A l \in DOMAIN T \ {"start"} : \A g \in T[l].starts :
             /\ g \in DOMAIN streaming_client_streaming \cup {"make_shutdown_request"}
             /\ \/ g \in {"make_client_streaming_request",
                          "make_bidirectional_streaming_request"} /\ l = "both"
                \/ g = "make_and_cancel_unary_request" /\ l = "cancel"
                \/ g = "make_shutdown_request" /\ l = "shutdown"
      <4>1. DOMAIN T = {"start", "both", "cancel", "shutdown"}
        BY DEF streaming_client_main
      <4>2. /\ T["both"].starts = (DOMAIN streaming_client_streaming) \cap
                    {"make_client_streaming_request",
                     "make_bidirectional_streaming_request"}
            /\ T["cancel"].starts = (DOMAIN streaming_client_streaming) \cap
                    {"make_and_cancel_unary_request"}
            /\ T["shutdown"].starts = {"make_shutdown_request"}
        BY Nodes DEF streaming_client_main
      <4> HIDE DEF T
      <4> QED BY <4>1, <4>2
    <3>2. Programs["streaming_client_streaming"]["main"].program = T /\ Programs["streaming_client_streaming"]["main"].side = "client"
      BY SidesOf, Frames_streaming_client_streaming
    <3> HIDE DEF T
    <3> QED BY <1>0, <3>1, <3>2, SidesOf, Frames_streaming_client_streaming
        DEF StartsOK, ParentOf, StartPoint
  <2> QED BY <2>1, SidesOf, Frames_streaming_client_streaming, Table_main
        DEF FrameOK, Sides, Kinds, Streaming
<1>6. FrameOK("streaming_client_streaming", "make_shutdown_request")
  BY SidesOf, Frames_streaming_client_streaming, Table_make_shutdown_request,
     NothingStarted DEF FrameOK, Sides, Kinds, Streaming, StartsOK, NoStarts
<1>7. FrameOK("streaming_client_streaming", "handle_shutdown_request")
  BY SidesOf, Frames_streaming_client_streaming, Table_handle_shutdown_request,
     NothingStarted DEF FrameOK, Sides, Kinds, Streaming, StartsOK, NoStarts
<1>8. FrameOK("streaming_client_streaming", "signals")
  BY SidesOf, Frames_streaming_client_streaming, Table_signals,
     NothingStarted DEF FrameOK, Sides, Kinds, Streaming, StartsOK, NoStarts
<1> QED BY <1>1, <1>2, <1>3, <1>4, <1>5, <1>6, <1>7, <1>8, Frames_streaming_client_streaming

(* They are well-formed.                                                    *)
LEMMA FrameOK_streaming_bidirectional ==
    \A f \in DOMAIN Programs["streaming_bidirectional"] : FrameOK("streaming_bidirectional", f)
<1>0. DOMAIN streaming_bidirectional = {"handle_bidirectional_streaming_request", "reader", "writer", "make_bidirectional_streaming_request"}
  BY DEF streaming_bidirectional
<1>1. FrameOK("streaming_bidirectional", "handle_bidirectional_streaming_request")
  <2>1. StartsOK("streaming_bidirectional", "handle_bidirectional_streaming_request")
    BY Started, SidesOf, Frames_streaming_bidirectional DEF StartsOK, ParentOf, StartPoint
  <2> QED BY <2>1, SidesOf, Frames_streaming_bidirectional, Table_handle_bidirectional_streaming_request
        DEF FrameOK, Sides, Kinds, Streaming
<1>2. FrameOK("streaming_bidirectional", "reader")
  BY SidesOf, Frames_streaming_bidirectional, Table_reader,
     NothingStarted DEF FrameOK, Sides, Kinds, Streaming, StartsOK, NoStarts
<1>3. FrameOK("streaming_bidirectional", "writer")
  BY SidesOf, Frames_streaming_bidirectional, Table_writer,
     NothingStarted DEF FrameOK, Sides, Kinds, Streaming, StartsOK, NoStarts
<1>4. FrameOK("streaming_bidirectional", "make_bidirectional_streaming_request")
  BY SidesOf, Frames_streaming_bidirectional, Table_make_bidirectional_streaming_request,
     NothingStarted DEF FrameOK, Sides, Kinds, Streaming, StartsOK, NoStarts
<1>5. FrameOK("streaming_bidirectional", "main")
  <2>1. StartsOK("streaming_bidirectional", "main")
    <3> DEFINE T == streaming_client_main(DOMAIN streaming_bidirectional)
    <3>1. \A l \in DOMAIN T \ {"start"} : \A g \in T[l].starts :
             /\ g \in DOMAIN streaming_bidirectional \cup {"make_shutdown_request"}
             /\ \/ g \in {"make_client_streaming_request",
                          "make_bidirectional_streaming_request"} /\ l = "both"
                \/ g = "make_and_cancel_unary_request" /\ l = "cancel"
                \/ g = "make_shutdown_request" /\ l = "shutdown"
      <4>1. DOMAIN T = {"start", "both", "cancel", "shutdown"}
        BY DEF streaming_client_main
      <4>2. /\ T["both"].starts = (DOMAIN streaming_bidirectional) \cap
                    {"make_client_streaming_request",
                     "make_bidirectional_streaming_request"}
            /\ T["cancel"].starts = (DOMAIN streaming_bidirectional) \cap
                    {"make_and_cancel_unary_request"}
            /\ T["shutdown"].starts = {"make_shutdown_request"}
        BY Nodes DEF streaming_client_main
      <4> HIDE DEF T
      <4> QED BY <4>1, <4>2
    <3>2. Programs["streaming_bidirectional"]["main"].program = T /\ Programs["streaming_bidirectional"]["main"].side = "client"
      BY SidesOf, Frames_streaming_bidirectional
    <3> HIDE DEF T
    <3> QED BY <1>0, <3>1, <3>2, SidesOf, Frames_streaming_bidirectional
        DEF StartsOK, ParentOf, StartPoint
  <2> QED BY <2>1, SidesOf, Frames_streaming_bidirectional, Table_main
        DEF FrameOK, Sides, Kinds, Streaming
<1>6. FrameOK("streaming_bidirectional", "make_shutdown_request")
  BY SidesOf, Frames_streaming_bidirectional, Table_make_shutdown_request,
     NothingStarted DEF FrameOK, Sides, Kinds, Streaming, StartsOK, NoStarts
<1>7. FrameOK("streaming_bidirectional", "handle_shutdown_request")
  BY SidesOf, Frames_streaming_bidirectional, Table_handle_shutdown_request,
     NothingStarted DEF FrameOK, Sides, Kinds, Streaming, StartsOK, NoStarts
<1>8. FrameOK("streaming_bidirectional", "signals")
  BY SidesOf, Frames_streaming_bidirectional, Table_signals,
     NothingStarted DEF FrameOK, Sides, Kinds, Streaming, StartsOK, NoStarts
<1> QED BY <1>1, <1>2, <1>3, <1>4, <1>5, <1>6, <1>7, <1>8, Frames_streaming_bidirectional

(* They are well-formed.                                                    *)
LEMMA FrameOK_streaming_slow_unary ==
    \A f \in DOMAIN Programs["streaming_slow_unary"] : FrameOK("streaming_slow_unary", f)
<1>0. DOMAIN streaming_slow_unary = {"handle_slow_unary_request", "make_and_cancel_unary_request"}
  BY DEF streaming_slow_unary
<1>1. FrameOK("streaming_slow_unary", "handle_slow_unary_request")
  BY SidesOf, Frames_streaming_slow_unary, Table_handle_slow_unary_request,
     NothingStarted DEF FrameOK, Sides, Kinds, Streaming, StartsOK, NoStarts
<1>2. FrameOK("streaming_slow_unary", "make_and_cancel_unary_request")
  BY SidesOf, Frames_streaming_slow_unary, Table_make_and_cancel_unary_request,
     NothingStarted DEF FrameOK, Sides, Kinds, Streaming, StartsOK, NoStarts
<1>3. FrameOK("streaming_slow_unary", "main")
  <2>1. StartsOK("streaming_slow_unary", "main")
    <3> DEFINE T == streaming_client_main(DOMAIN streaming_slow_unary)
    <3>1. \A l \in DOMAIN T \ {"start"} : \A g \in T[l].starts :
             /\ g \in DOMAIN streaming_slow_unary \cup {"make_shutdown_request"}
             /\ \/ g \in {"make_client_streaming_request",
                          "make_bidirectional_streaming_request"} /\ l = "both"
                \/ g = "make_and_cancel_unary_request" /\ l = "cancel"
                \/ g = "make_shutdown_request" /\ l = "shutdown"
      <4>1. DOMAIN T = {"start", "both", "cancel", "shutdown"}
        BY DEF streaming_client_main
      <4>2. /\ T["both"].starts = (DOMAIN streaming_slow_unary) \cap
                    {"make_client_streaming_request",
                     "make_bidirectional_streaming_request"}
            /\ T["cancel"].starts = (DOMAIN streaming_slow_unary) \cap
                    {"make_and_cancel_unary_request"}
            /\ T["shutdown"].starts = {"make_shutdown_request"}
        BY Nodes DEF streaming_client_main
      <4> HIDE DEF T
      <4> QED BY <4>1, <4>2
    <3>2. Programs["streaming_slow_unary"]["main"].program = T /\ Programs["streaming_slow_unary"]["main"].side = "client"
      BY SidesOf, Frames_streaming_slow_unary
    <3> HIDE DEF T
    <3> QED BY <1>0, <3>1, <3>2, SidesOf, Frames_streaming_slow_unary
        DEF StartsOK, ParentOf, StartPoint
  <2> QED BY <2>1, SidesOf, Frames_streaming_slow_unary, Table_main
        DEF FrameOK, Sides, Kinds, Streaming
<1>4. FrameOK("streaming_slow_unary", "make_shutdown_request")
  BY SidesOf, Frames_streaming_slow_unary, Table_make_shutdown_request,
     NothingStarted DEF FrameOK, Sides, Kinds, Streaming, StartsOK, NoStarts
<1>5. FrameOK("streaming_slow_unary", "handle_shutdown_request")
  BY SidesOf, Frames_streaming_slow_unary, Table_handle_shutdown_request,
     NothingStarted DEF FrameOK, Sides, Kinds, Streaming, StartsOK, NoStarts
<1>6. FrameOK("streaming_slow_unary", "signals")
  BY SidesOf, Frames_streaming_slow_unary, Table_signals,
     NothingStarted DEF FrameOK, Sides, Kinds, Streaming, StartsOK, NoStarts
<1> QED BY <1>1, <1>2, <1>3, <1>4, <1>5, <1>6, Frames_streaming_slow_unary

(* They are well-formed.                                                    *)
LEMMA FrameOK_unifex ==
    \A f \in DOMAIN Programs["unifex"] : FrameOK("unifex", f)
<1>1. FrameOK("unifex", "register_unary_request_handler")
  BY SidesOf, Frames_unifex, Table_register_unary_request_handler,
     NothingStarted DEF FrameOK, Sides, Kinds, Streaming, StartsOK, NoStarts
<1>2. FrameOK("unifex", "handle_server_streaming_request")
  BY SidesOf, Frames_unifex, Table_handle_server_streaming_request,
     NothingStarted DEF FrameOK, Sides, Kinds, Streaming, StartsOK, NoStarts
<1>3. FrameOK("unifex", "handle_slow_unary_request")
  BY SidesOf, Frames_unifex, Table_handle_slow_unary_request,
     NothingStarted DEF FrameOK, Sides, Kinds, Streaming, StartsOK, NoStarts
<1>4. FrameOK("unifex", "make_unary_request")
  BY SidesOf, Frames_unifex, Table_make_unary_request,
     NothingStarted DEF FrameOK, Sides, Kinds, Streaming, StartsOK, NoStarts
<1>5. FrameOK("unifex", "make_server_streaming_request")
  BY SidesOf, Frames_unifex, Table_make_server_streaming_request,
     NothingStarted DEF FrameOK, Sides, Kinds, Streaming, StartsOK, NoStarts
<1>6. FrameOK("unifex", "make_and_cancel_unary_request")
  BY SidesOf, Frames_unifex, Table_unifex_make_and_cancel_unary_request,
     NothingStarted DEF FrameOK, Sides, Kinds, Streaming, StartsOK, NoStarts
<1> QED BY <1>1, <1>2, <1>3, <1>4, <1>5, <1>6, Frames_unifex

(* They are well-formed.                                                    *)
LEMMA FrameOK_hello_world ==
    \A f \in DOMAIN Programs["hello_world"] : FrameOK("hello_world", f)
<1>1. FrameOK("hello_world", "server")
  BY SidesOf, Frames_hello_world, Table_hello_world_server,
     NothingStarted DEF FrameOK, Sides, Kinds, Streaming, StartsOK, NoStarts
<1>2. FrameOK("hello_world", "client")
  BY SidesOf, Frames_hello_world, Table_make_unary_request,
     NothingStarted DEF FrameOK, Sides, Kinds, Streaming, StartsOK, NoStarts
<1> QED BY <1>1, <1>2, Frames_hello_world

(* They are well-formed.                                                    *)
LEMMA FrameOK_share_io_context ==
    \A f \in DOMAIN Programs["share_io_context"] : FrameOK("share_io_context", f)
<1>1. FrameOK("share_io_context", "server")
  BY SidesOf, Frames_share_io_context, Table_handle_grpc_request,
     NothingStarted DEF FrameOK, Sides, Kinds, Streaming, StartsOK, NoStarts
<1>2. FrameOK("share_io_context", "client")
  BY SidesOf, Frames_share_io_context, Table_make_grpc_request,
     NothingStarted DEF FrameOK, Sides, Kinds, Streaming, StartsOK, NoStarts
<1> QED BY <1>1, <1>2, Frames_share_io_context

(* They are well-formed.                                                    *)
LEMMA FrameOK_unary ==
    \A f \in DOMAIN Programs["unary"] : FrameOK("unary", f)
<1>1. FrameOK("unary", "server")
  BY SidesOf, Frames_unary, Table_AnyServer_unary,
     NothingStartedByAny DEF FrameOK, Sides, Kinds, Streaming, StartsOK, NoStarts
<1>2. FrameOK("unary", "client")
  BY SidesOf, Frames_unary, Table_AnyClient_unary,
     NothingStartedByAny DEF FrameOK, Sides, Kinds, Streaming, StartsOK, NoStarts
<1> QED BY <1>1, <1>2, Frames_unary

(* They are well-formed.                                                    *)
LEMMA FrameOK_client_streaming ==
    \A f \in DOMAIN Programs["client_streaming"] : FrameOK("client_streaming", f)
<1>1. FrameOK("client_streaming", "server")
  BY SidesOf, Frames_client_streaming, Table_AnyServer_client_streaming,
     NothingStartedByAny DEF FrameOK, Sides, Kinds, Streaming, StartsOK, NoStarts
<1>2. FrameOK("client_streaming", "client")
  BY SidesOf, Frames_client_streaming, Table_AnyClient_client_streaming,
     NothingStartedByAny DEF FrameOK, Sides, Kinds, Streaming, StartsOK, NoStarts
<1> QED BY <1>1, <1>2, Frames_client_streaming

(* They are well-formed.                                                    *)
LEMMA FrameOK_server_streaming ==
    \A f \in DOMAIN Programs["server_streaming"] : FrameOK("server_streaming", f)
<1>1. FrameOK("server_streaming", "server")
  BY SidesOf, Frames_server_streaming, Table_AnyServer_server_streaming,
     NothingStartedByAny DEF FrameOK, Sides, Kinds, Streaming, StartsOK, NoStarts
<1>2. FrameOK("server_streaming", "client")
  BY SidesOf, Frames_server_streaming, Table_AnyClient_server_streaming,
     NothingStartedByAny DEF FrameOK, Sides, Kinds, Streaming, StartsOK, NoStarts
<1> QED BY <1>1, <1>2, Frames_server_streaming

(* They are well-formed.                                                    *)
LEMMA FrameOK_bidirectional ==
    \A f \in DOMAIN Programs["bidirectional"] : FrameOK("bidirectional", f)
<1>1. FrameOK("bidirectional", "server")
  BY SidesOf, Frames_bidirectional, Table_AnyServer_bidirectional,
     NothingStartedByAny DEF FrameOK, Sides, Kinds, Streaming, StartsOK, NoStarts
<1>2. FrameOK("bidirectional", "client")
  BY SidesOf, Frames_bidirectional, Table_AnyClient_bidirectional,
     NothingStartedByAny DEF FrameOK, Sides, Kinds, Streaming, StartsOK, NoStarts
<1> QED BY <1>1, <1>2, Frames_bidirectional

(* The coroutines of all examples are well-formed.                          *)
LEMMA AllFramesOK ==
    \A x \in DOMAIN Programs : \A f \in DOMAIN Programs[x] : FrameOK(x, f)
  BY ProgramNames, FrameOK_streaming_client_streaming,
     FrameOK_streaming_bidirectional,
     FrameOK_streaming_slow_unary,
     FrameOK_unifex,
     FrameOK_hello_world,
     FrameOK_share_io_context,
     FrameOK_unary,
     FrameOK_client_streaming,
     FrameOK_server_streaming,
     FrameOK_bidirectional

(* The side and the call of every coroutine.                                *)
LEMMA SidesAndCalls ==
    ASSUME NEW x \in DOMAIN Programs, NEW f \in DOMAIN Programs[x], NEW g \in DOMAIN Programs[x],
           f # g, Programs[x][f].side = Programs[x][g].side,
           Programs[x][f].call = Programs[x][g].call
    PROVE  /\ Programs[x][f].side = "server"
           /\ \/ Programs[x][f].call = "never"
              \/ /\ x = "streaming_client_streaming"
                 /\ f \in {"register_client_streaming_handler", "handle_client_streaming_request"}
                 /\ g \in {"register_client_streaming_handler", "handle_client_streaming_request"}
              \/ /\ x = "streaming_bidirectional"
                 /\ f \in {"handle_bidirectional_streaming_request", "reader", "writer"}
                 /\ g \in {"handle_bidirectional_streaming_request", "reader", "writer"}
<1>1. CASE x = "streaming_client_streaming"
  BY <1>1, SidesOf, Frames_streaming_client_streaming
<1>2. CASE x = "streaming_bidirectional"
  BY <1>2, SidesOf, Frames_streaming_bidirectional
<1>3. CASE x = "streaming_slow_unary"
  BY <1>3, SidesOf, Frames_streaming_slow_unary
<1>4. CASE x = "unifex"
  BY <1>4, SidesOf, Frames_unifex
<1>5. CASE x = "hello_world"
  BY <1>5, SidesOf, Frames_hello_world
<1>6. CASE x = "share_io_context"
  BY <1>6, SidesOf, Frames_share_io_context
<1>7. CASE x = "unary"
  BY <1>7, SidesOf, Frames_unary
<1>8. CASE x = "client_streaming"
  BY <1>8, SidesOf, Frames_client_streaming
<1>9. CASE x = "server_streaming"
  BY <1>9, SidesOf, Frames_server_streaming
<1>10. CASE x = "bidirectional"
  BY <1>10, SidesOf, Frames_bidirectional
<1> QED BY <1>1, <1>2, <1>3, <1>4, <1>5, <1>6, <1>7, <1>8, <1>9, <1>10, ProgramNames

(* The points where the servers start.                                      *)
LEMMA FirstPoints ==
    /\ register_client_streaming_handler.start = Goto("request")
    /\ next_client_streaming_request.start = Goto("request")
    /\ handle_bidirectional_streaming_request.start = Goto("request")
    /\ handle_slow_unary_request.start = Goto("request")
    /\ handle_shutdown_request.start = Goto("request")
    /\ signals.start = Goto("signal")
    /\ register_unary_request_handler.start = Goto("request")
    /\ handle_server_streaming_request.start = Goto("request")
    /\ hello_world_server.start = Goto("request")
    /\ handle_grpc_request.start = Goto("request")
    /\ \A kind : AnyServer(kind).start = Goto("request")
  BY DEF register_client_streaming_handler, next_client_streaming_request,
     handle_bidirectional_streaming_request, handle_slow_unary_request,
     handle_shutdown_request, signals, register_unary_request_handler,
     handle_server_streaming_request, hello_world_server, handle_grpc_request, AnyServer

(* A server that is not started by another one starts with a request.       *)
LEMMA ServersRequest ==
    ASSUME NEW x \in DOMAIN Programs, NEW f \in DOMAIN Programs[x],
           Programs[x][f].side = "server"
    PROVE  \/ Programs[x][f].program.start = Goto("request")
           \/ Programs[x][f].program.start = Goto("signal")
           \/ \E g \in DOMAIN Programs[x] : \E l \in DOMAIN Programs[x][g].program \ {"start"} :
                f \in Programs[x][g].program[l].starts
<1>1. CASE x = "streaming_client_streaming"
  <2>1. CASE f = "handle_client_streaming_request"
    <3>1. "handle" \in DOMAIN register_client_streaming_handler \ {"start"}
      BY DEF register_client_streaming_handler
    <3>2. f \in register_client_streaming_handler["handle"].starts
      BY <2>1, <3>1, Started
    <3> QED BY <1>1, <3>1, <3>2, SidesOf, Frames_streaming_client_streaming
  <2> QED BY <1>1, <2>1, SidesOf, FirstPoints, Frames_streaming_client_streaming
<1>2. CASE x = "streaming_bidirectional"
  <2>1. CASE f \in {"reader", "writer"}
    <3>1. "reader_and_writer" \in DOMAIN handle_bidirectional_streaming_request \ {"start"}
      BY DEF handle_bidirectional_streaming_request
    <3>2. f \in handle_bidirectional_streaming_request["reader_and_writer"].starts
      BY <2>1, <3>1, Started
    <3> QED BY <1>2, <3>1, <3>2, SidesOf, Frames_streaming_bidirectional
  <2> QED BY <1>2, <2>1, SidesOf, FirstPoints, Frames_streaming_bidirectional
<1>3. CASE x = "streaming_slow_unary"
  BY <1>3, SidesOf, FirstPoints, Frames_streaming_slow_unary
<1>4. CASE x = "unifex"
  BY <1>4, SidesOf, FirstPoints, Frames_unifex
<1>5. CASE x = "hello_world"
  BY <1>5, SidesOf, FirstPoints, Frames_hello_world
<1>6. CASE x = "share_io_context"
  BY <1>6, SidesOf, FirstPoints, Frames_share_io_context
<1>7. CASE x = "unary"
  BY <1>7, SidesOf, FirstPoints, Frames_unary
<1>8. CASE x = "client_streaming"
  BY <1>8, SidesOf, FirstPoints, Frames_client_streaming
<1>9. CASE x = "server_streaming"
  BY <1>9, SidesOf, FirstPoints, Frames_server_streaming
<1>10. CASE x = "bidirectional"
  BY <1>10, SidesOf, FirstPoints, Frames_bidirectional
<1> QED BY <1>1, <1>2, <1>3, <1>4, <1>5, <1>6, <1>7, <1>8, <1>9, <1>10, ProgramNames

(* Only handle_bidirectional_streaming_request awaits reader and writer.    *)
LEMMA ReaderAndWriter ==
    /\ \A f \in DOMAIN Programs["streaming_bidirectional"] :
          "reader_and_writer" \in DOMAIN Programs["streaming_bidirectional"][f].program =>
            f = "handle_bidirectional_streaming_request"
    /\ Programs["streaming_bidirectional"]["handle_bidirectional_streaming_request"].program["reader_and_writer"].starts
          = {"reader", "writer"}
<1>1. /\ "reader_and_writer" \notin DOMAIN reader
      /\ "reader_and_writer" \notin DOMAIN writer
      /\ "reader_and_writer" \notin DOMAIN make_bidirectional_streaming_request
      /\ "reader_and_writer" \notin DOMAIN make_shutdown_request
      /\ "reader_and_writer" \notin DOMAIN handle_shutdown_request
      /\ "reader_and_writer" \notin DOMAIN signals
      /\ \A part : "reader_and_writer" \notin DOMAIN streaming_client_main(part)
      /\ "reader_and_writer" \in DOMAIN handle_bidirectional_streaming_request
  BY DEF reader, writer, make_bidirectional_streaming_request, make_shutdown_request,
     handle_shutdown_request, signals, streaming_client_main,
     handle_bidirectional_streaming_request
<1>2. Programs["streaming_bidirectional"]["handle_bidirectional_streaming_request"].program
        = handle_bidirectional_streaming_request
  BY SidesOf, Frames_streaming_bidirectional
<1>3. ASSUME NEW f \in DOMAIN Programs["streaming_bidirectional"],
             f # "handle_bidirectional_streaming_request"
      PROVE  "reader_and_writer" \notin DOMAIN Programs["streaming_bidirectional"][f].program
  BY <1>1, <1>3, SidesOf, Frames_streaming_bidirectional
<1> QED BY <1>1, <1>2, <1>3, Started

-----------------------------------------------------------------------------
(* The invariants.                                                          *)

Awaitable == RpcMethods \cup {"start", "post", "wait", "join", "receive", "signal"}

TypeInvariant ==
    /\ example \in DOMAIN Programs
    /\ calls \in [CallsOf(example) -> CallRecord]
    /\ at \in [Frames -> Points \cup Ended \cup {"idle", "start"}]
    /\ pending \in [Frames -> SUBSET Awaitable]
    /\ result \in [Frames -> Results]
    /\ rounds \in [Frames -> 0 .. Rounds]
    /\ message \in [Frames -> Nat]
    /\ begun \in [CallsOf(example) -> [Sides -> SUBSET RpcMethods]]
    /\ channel \in [queue : Seq(Nat), closed : BOOLEAN]
    /\ cancelled \in BOOLEAN /\ signalled \in BOOLEAN /\ failed \in BOOLEAN
    /\ shutdown \in {"no", "thread", "cancelled", "shut_down"}
    /\ threads \in 0 .. 1

LiveAt(f) == Live(SideOf(f), CallOf(f), TableOf(f))
Resting == Ended \cup {"idle"}
StartsAt(f, p) == IF p \in Ended THEN {} ELSE TableOf(f)[p].starts
AwaitsAt(p) == IF p \in Ended THEN {} ELSE AwaitAt(p)

(* A coroutine waits for what its point says.                               *)
ControlInvariant ==
    \A f \in Frames :
        /\ at[f] \in Resting => pending[f] = {}
        /\ at[f] = "start" => pending[f] = {"start"}
        /\ at[f] \notin Resting \cup {"start"} =>
              at[f] \in LiveAt(f) /\ pending[f] # {} /\ pending[f] \subseteq AwaitAt(at[f])
        /\ at[f] \notin {"ping_pong", "deadline", "aborted"} => result[f] = "true"
        /\ SideOf(f) = "server" => at[f] # "aborted"

(* A coroutine is started by another one once, and awaited there.           *)
FamilyInvariant ==
    \A f \in Frames : \A l \in PointsOf(f) : \A g \in TableOf(f)[l].starts :
        /\ Rank(at[f]) < Rank(l) => at[g] = "idle"
        /\ at[g] \notin Resting => at[f] = l

CallInvariant ==
    \A c \in CallsOf(example) : CallOK(calls[c]) /\ calls[c].kind = KindOf(c)

(* After a side has called a method that finishes the call it calls none.   *)
FinishInvariant ==
    /\ \A f \in Frames : begun[CallOf(f)][SideOf(f)] \cap Finishing # {} =>
                            at[f] \in FinalPoints
    /\ \A c \in CallsOf(example) :
          calls[c].status # "none" => begun[c]["server"] \cap Finishing # {}

(* After it has closed its stream, a client writes no more.                 *)
ClosedInvariant ==
    \A f \in Frames :
        SideOf(f) = "client" /\ (\/ calls[CallOf(f)].half_closed
                                 \/ begun[CallOf(f)]["client"] \cap Closing # {}) =>
            at[f] \in ClosedPoints(KindOf(CallOf(f))) \cup Ended

(* What a server knows of its call.                                         *)
AcceptInvariant ==
    \A f \in Frames :
        /\ SideOf(f) = "server" /\ CallOf(f) # "never" =>
              at[f] \in Resting \cup {"request"} \/ calls[CallOf(f)].accepted
        /\ SideOf(f) = "server" /\ at[f] \in ReadyPoints(f) => ReadAll(calls[CallOf(f)])

ProgramInvariant ==
    /\ TypeInvariant
    /\ ControlInvariant
    /\ FamilyInvariant
    /\ CallInvariant
    /\ FinishInvariant
    /\ ClosedInvariant
    /\ AcceptInvariant
    /\ shutdown # "no" => example \in Streaming

-----------------------------------------------------------------------------
(* What the steps do.                                                       *)

(* The coroutines of the example that is run.                               *)
LEMMA FrameFacts ==
    ASSUME TypeInvariant, NEW f \in Frames
    PROVE  /\ FrameOK(example, f)
           /\ TableOK(example, f, SideOf(f), CallOf(f), TableOf(f))
           /\ SideOf(f) \in Sides /\ CallOf(f) \in CallsOf(example)
           /\ KindOf(CallOf(f)) \in Kinds
<1>1. FrameOK(example, f)
  BY AllFramesOK DEF TypeInvariant, Frames
<1>2. CallOf(f) \in CallsOf(example)
  BY DEF CallOf, CallsOf, Frames
<1> QED BY <1>1, <1>2 DEF FrameOK, SideOf, CallOf, TableOf, KindOf, Kinds

(* What is awaited at a point is a method of the responder or no method.    *)
LEMMA PendingMethods ==
    ASSUME TypeInvariant, ControlInvariant, NEW f \in Frames, NEW fn \in pending[f]
    PROVE  /\ at[f] \notin Resting
           /\ at[f] = "start" <=> fn = "start"
           /\ fn # "start" => at[f] \in LiveAt(f) /\ fn \in AwaitAt(at[f])
           /\ fn \in RpcMethods => fn \in Methods(SideOf(f), KindOf(CallOf(f)))
           /\ fn \in Awaitable
<1>1. at[f] \notin Resting
  BY DEF ControlInvariant
<1>2. fn \in Awaitable
  BY DEF TypeInvariant
<1>3. CASE at[f] = "start"
  BY <1>1, <1>2, <1>3, RpcMethodsList DEF ControlInvariant
<1>4. CASE at[f] # "start"
  <2>1. at[f] \in LiveAt(f) /\ fn \in AwaitAt(at[f])
    BY <1>1, <1>4 DEF ControlInvariant
  <2>2. fn # "start"
    BY <2>1 DEF AwaitAt
  <2>3. fn \in RpcMethods => fn \in Methods(SideOf(f), KindOf(CallOf(f)))
    BY <2>1 DEF LiveAt, Live
  <2> QED BY <1>1, <1>2, <1>4, <2>1, <2>2, <2>3
<1> QED BY <1>3, <1>4

Outcome(f, fn, r, s) ==
    /\ r \in Results
    /\ fn \in RpcMethods =>
          Completes(SideOf(f), fn, calls[CallOf(f)], shutdown = "shut_down", r, s)
    /\ fn \notin RpcMethods => r \in {"true", "false"} /\ s = calls[CallOf(f)]
    /\ fn = "join" =>
          /\ \A g \in TableOf(f)[at[f]].starts : at[g] \in Ended
          /\ r = "true" => \A g \in TableOf(f)[at[f]].starts : at[g] # "failed"
    /\ fn = "receive" =>
          IF r = "true" THEN channel.queue # <<>>
          ELSE channel.queue = <<>> /\ channel.closed
    /\ fn = "signal" => signalled \/ shutdown \in {"cancelled", "shut_down"}
    /\ fn = "wait" /\ SideOf(f) = "server" =>
          /\ "wait" \notin pending["make_and_cancel_unary_request"]
          /\ Dead(calls[CallOf(f)]) =>
                "Finish" \notin pending["make_and_cancel_unary_request"]
    /\ fn = "wait" /\ SideOf(f) = "client" => r = "true" \/ cancelled
    /\ fn \in {"start", "post"} => r = "true"

(* A completion has a result and leaves a call.                             *)
LEMMA CompletePairs ==
    ASSUME NEW side \in Sides, NEW fn, NEW s, NEW shut_down \in BOOLEAN,
           NEW o \in Complete(side, fn, s, shut_down)
    PROVE  o = <<o[1], o[2]>>
<1>1. \A o1 \in ServerRequestResults(s, shut_down) : o1 = <<o1[1], o1[2]>>
  BY DEF ServerRequestResults
<1>2. \A o1 \in ServerReadResults(s) \cup ClientReadResults(s) : o1 = <<o1[1], o1[2]>>
  BY DEF ServerReadResults, ClientReadResults
<1>3. \A o1 \in SendResults(s) \cup ClientSendResults(s) : o1 = <<o1[1], o1[2]>>
  BY DEF SendResults, ClientSendResults
<1>4. \A o1 \in ReadInitialMetadataResults(s) \cup ClientFinishResults(s) : o1 = <<o1[1], o1[2]>>
  BY DEF ReadInitialMetadataResults, ClientFinishResults
<1> QED BY <1>1, <1>2, <1>3, <1>4 DEF Complete, Sides

(* What a completion tells the coroutine and does to its call.              *)
LEMMA OutcomeOf ==
    ASSUME TypeInvariant, ControlInvariant, CallInvariant,
           NEW f \in Frames, NEW fn \in pending[f], NEW o \in ResultsOf(f, fn)
    PROVE  Outcome(f, fn, o[1], o[2])
<1> DEFINE s == calls[CallOf(f)]
           down == (shutdown = "shut_down")
<1>1. /\ SideOf(f) \in Sides /\ CallOf(f) \in CallsOf(example)
      /\ CallOK(s) /\ s.kind = KindOf(CallOf(f))
  BY FrameFacts DEF CallInvariant
<1>2. fn \in Awaitable /\ (fn \in RpcMethods => fn \in Methods(SideOf(f), s.kind))
  BY <1>1, PendingMethods
<1>3. CASE fn \in RpcMethods
  <2>1. o \in Complete(SideOf(f), fn, s, down)
    BY <1>3 DEF ResultsOf
  <2>2. down \in BOOLEAN
    OBVIOUS
  <2> HIDE DEF down
  <2>3. o = <<o[1], o[2]>>
    BY <1>1, <2>1, <2>2, CompletePairs
  <2>4. Completes(SideOf(f), fn, s, down, o[1], o[2])
    <3>1. <<o[1], o[2]>> \in Complete(SideOf(f), fn, s, down)
      BY <2>1, <2>3
    <3> HIDE DEF s
    <3> QED BY <1>1, <1>2, <1>3, <2>2, <3>1, CompleteCall
  <2>5. o[1] \in Results
    BY <2>4 DEF Completes
  <2> QED BY <1>3, <2>4, <2>5, RpcMethodsList DEF Outcome, down
<1>4. CASE fn \notin RpcMethods
  <2> DEFINE R == CASE fn \in {"start", "post"} -> {"true"}
                    [] fn = "wait" -> WaitResults(f)
                    [] fn = "join" -> JoinResults(f)
                    [] fn = "receive" -> ReceiveResults
                    [] fn = "signal" -> SignalResults
  <2>1. o \in R \X {s}
    BY <1>4 DEF ResultsOf
  <2>2. o[1] \in R /\ o[2] = s
    BY <2>1
  <2>3. fn \in {"start", "post", "wait", "join", "receive", "signal"}
    BY <1>2, <1>4 DEF Awaitable
  <2>4. CASE fn \in {"start", "post"}
    BY <1>4, <2>2, <2>4 DEF Outcome, Results
  <2>5. CASE fn = "wait"
    BY <1>4, <2>2, <2>5 DEF Outcome, Results, WaitResults
  <2>6. CASE fn = "join"
    <3>1. o[1] \in JoinResults(f)
      BY <2>2, <2>6
    <3> QED BY <1>4, <2>2, <2>6, <3>1 DEF Outcome, Results, JoinResults
  <2>7. CASE fn = "receive"
    <3>1. o[1] \in ReceiveResults
      BY <2>2, <2>7
    <3> QED BY <1>4, <2>2, <2>7, <3>1 DEF Outcome, Results, ReceiveResults
  <2>8. CASE fn = "signal"
    BY <1>4, <2>2, <2>8 DEF Outcome, Results, SignalResults
  <2> QED BY <2>3, <2>4, <2>5, <2>6, <2>7, <2>8
<1> QED BY <1>3, <1>4

(* The one method that does something to the call when it is initiated.     *)
Sole(p) == CHOOSE fn \in AwaitAt(p) : TRUE
Act(e, p) ==
    IF e = "AsyncUnary" THEN e
    ELSE IF p = "ping_pong" THEN "Write"
    ELSE IF p = "deadline" THEN "wait"
    ELSE Sole(p)

(* Elsewhere only one thing is awaited.                                     *)
LEMMA SoleAwaited ==
    ASSUME NEW p \in Points \ {"ping_pong", "deadline"}
    PROVE  AwaitAt(p) = {Sole(p)}
<1>1. \E fn : AwaitAt(p) = {fn}
  BY DEF AwaitAt, Points, Joins
<1> QED BY <1>1 DEF Sole

(* What the coroutine has initiated when it is suspended again.             *)
LEMMA InitiatedOne ==
    ASSUME NEW f, SideOf(f) \in Sides, NEW e, NEW p \in Points, NEW m, NEW s,
           e \in {"none", "send", "close", "shutdown"}
             \/ /\ e = "AsyncUnary" /\ SideOf(f) = "client"
                /\ p \in {"finish", "deadline", "read_initial_metadata"},
           NEW u \in Initiated(f, e, AwaitAt(p), m, s)
    PROVE  u \in Initiate(SideOf(f), Act(e, p), m, s)
<1> DEFINE first == IF e \in RpcMethods THEN Initiate(SideOf(f), e, m, s) ELSE {s}
           sends == IF "Write" \in AwaitAt(p) THEN "Write" ELSE CHOOSE fn \in AwaitAt(p) : TRUE
           second == UNION {Initiate(SideOf(f), sends, m, t) : t \in first}
<1>1. u \in IF Cardinality(AwaitAt(p)) = 1 \/ "Write" \in AwaitAt(p) THEN second ELSE first
  BY DEF Initiated
<1>2. first = IF e = "AsyncUnary" THEN Initiate(SideOf(f), e, m, s) ELSE {s}
  BY RpcMethodsList
<1>3. CASE p = "deadline"
  <2>1. AwaitAt(p) = {"wait", "Finish"}
    BY <1>3 DEF AwaitAt
  <2>2. Cardinality(AwaitAt(p)) = 2
    <3>1. IsFiniteSet({"wait"}) /\ Cardinality({"wait"}) = 1
      BY FS_Singleton
    <3>2. Cardinality({"wait"} \cup {"Finish"}) = Cardinality({"wait"}) + 1
      BY <3>1, FS_AddElement
    <3>3. AwaitAt(p) = {"wait"} \cup {"Finish"}
      BY <2>1
    <3> QED BY <3>1, <3>2, <3>3
  <2>3. u \in first
    BY <1>1, <2>1, <2>2
  <2>4. Initiate(SideOf(f), "wait", m, s) = {s}
    BY DEF Initiate
  <2> HIDE DEF first
  <2> QED BY <1>2, <1>3, <2>3, <2>4 DEF Act
<1>4. CASE p # "deadline"
  <2>1. u \in second
    <3>1. CASE p = "ping_pong"
      BY <1>1, <3>1 DEF AwaitAt
    <3>2. CASE p # "ping_pong"
      <4>1. AwaitAt(p) = {Sole(p)}
        BY <1>4, <3>2, SoleAwaited
      <4>2. Cardinality(AwaitAt(p)) = 1
        BY <4>1, FS_Singleton
      <4> QED BY <1>1, <4>2
    <3> QED BY <3>1, <3>2
  <2>2. PICK t \in first : u \in Initiate(SideOf(f), sends, m, t)
    BY <2>1
  <2>3. CASE e = "AsyncUnary"
    <3>1. sends \in {"Finish", "ReadInitialMetadata"}
      BY <1>4, <2>3 DEF AwaitAt
    <3>2. u = t
      <4> HIDE DEF sends
      <4> QED BY <2>2, <2>3, <3>1 DEF Initiate
    <3> QED BY <1>2, <2>2, <2>3, <3>2 DEF Act
  <2>4. CASE e # "AsyncUnary"
    <3>1. t = s
      BY <1>2, <2>2, <2>4
    <3>2. sends = Act(e, p)
      BY <1>4, <2>4, SoleAwaited DEF Act, Sole, AwaitAt
    <3> QED BY <2>2, <3>1, <3>2
  <2> QED BY <2>3, <2>4
<1> QED BY <1>3, <1>4

(* A server that goes on has accepted its call.                             *)
LEMMA Accepted ==
    ASSUME ProgramInvariant, NEW f \in Frames, NEW fn \in pending[f], NEW r, NEW s,
           Outcome(f, fn, r, s), SideOf(f) = "server", CallOf(f) # "never",
           NEW p, NEW e,
           Edge(example, f, SideOf(f), CallOf(f), at[f], Combined(f, fn, r), p, e),
           at[f] # "request" \/ p \notin Ended
    PROVE  s.accepted
<1>1. /\ TypeInvariant /\ ControlInvariant /\ AcceptInvariant
      /\ shutdown # "no" => example \in Streaming
      /\ CallOf(f) \in CallsOf(example)
  BY FrameFacts DEF ProgramInvariant
<1>2. calls[CallOf(f)].accepted => s.accepted
  <2>1. CASE fn \in RpcMethods
    BY <2>1 DEF Outcome, Completes, CallStep
  <2>2. CASE fn \notin RpcMethods
    BY <2>2 DEF Outcome
  <2> QED BY <2>1, <2>2
<1>3. at[f] \notin Resting /\ (fn # "start" => fn \in AwaitAt(at[f]))
  BY <1>1, PendingMethods
<1>4. CASE at[f] # "request"
  BY <1>1, <1>2, <1>3, <1>4 DEF AcceptInvariant
<1>5. CASE at[f] = "request" /\ p \notin Ended
  <2>1. fn = "Request"
    BY <1>1, <1>3, <1>5, PendingMethods DEF AwaitAt
  <2>2. result[f] = "true"
    BY <1>1, <1>5 DEF ControlInvariant
  <2>3. r \in Ok \/ example = "hello_world"
    <3>1. Combined(f, fn, r) = r
      BY <2>1, <2>2 DEF Combined
    <3> QED BY <1>5, <3>1 DEF Edge, ServerEdge
  <2>4. /\ r \in {"true", "false"}
        /\ IF r = "true" THEN s.accepted ELSE shutdown = "shut_down"
    BY <2>1, RpcMethodsList DEF Outcome, Completes
  <2>5. "hello_world" \notin Streaming
    BY DEF Streaming
  <2> QED BY <1>1, <2>3, <2>4, <2>5 DEF Ok
<1> QED BY <1>4, <1>5

(* A server that is about to finish has read what it was sent.              *)
LEMMA Ready ==
    ASSUME ProgramInvariant, NEW f \in Frames, NEW fn \in pending[f], NEW r, NEW s,
           Outcome(f, fn, r, s), SideOf(f) = "server",
           NEW p \in ReadyPoints(f), NEW e,
           Edge(example, f, SideOf(f), CallOf(f), at[f], Combined(f, fn, r), p, e)
    PROVE  ReadAll(s)
<1> DEFINE c == CallOf(f)
           l == at[f]
           o == Combined(f, fn, r)
<1>1. /\ TypeInvariant /\ ControlInvariant /\ AcceptInvariant /\ CallInvariant
      /\ c \in CallsOf(example) /\ CallOK(calls[c]) /\ calls[c].kind = KindOf(c)
  BY FrameFacts DEF ProgramInvariant, CallInvariant
<1>2. CallOK(s) /\ CallStep(calls[c], s)
  <2>1. CASE fn \in RpcMethods
    BY <2>1 DEF Outcome, Completes
  <2>2. CASE fn \notin RpcMethods
    BY <1>1, <2>2 DEF Outcome, CallStep
  <2> QED BY <2>1, <2>2
<1>3. l \notin Resting /\ (fn # "start" => fn \in AwaitAt(l)) /\ (l = "start" <=> fn = "start")
  BY <1>1, PendingMethods
<1>4. ServerEdge(example, c, ReadyPoints(f), l, o, p, e)
  BY DEF Edge
<1>5. c # "never"
  BY <1>4 DEF ServerEdge
<1>6. CASE KindOf(c) \in Multi /\ l # "start" /\ p \notin Ended
  <2>1. s.accepted
    BY <1>5, <1>6, Accepted
  <2> QED BY <1>1, <1>2, <1>6, <2>1 DEF CallOK, CallStep, ReadAll, Whole
<1>7. CASE l \in ReadyPoints(f)
  <2>1. ReadAll(calls[c])
    BY <1>1, <1>7 DEF AcceptInvariant
  <2> QED BY <1>2, <2>1 DEF ReadAll, CallStep, Dead
<1>8. CASE l = "read" /\ o \notin Ok
  <2>1. fn = "Read" /\ result[f] = "true"
    BY <1>1, <1>3, <1>8 DEF AwaitAt, ControlInvariant
  <2>2. r # "true"
    BY <1>8, <2>1 DEF Combined, Ok
  <2>3. s.accepted
    BY <1>5, <1>8, Accepted
  <2>4. Completes("server", "Read", calls[c], shutdown = "shut_down", r, s)
    BY <2>1, RpcMethodsList DEF Outcome
  <2> QED BY <2>2, <2>3, <2>4 DEF Completes, ReadAll, Whole, Dead
<1>9. CASE l = "reader_and_writer" /\ o \in Ok /\ example = "streaming_bidirectional"
  <2>1. fn = "join" /\ result[f] = "true"
    BY <1>1, <1>3, <1>9 DEF AwaitAt, ControlInvariant
  <2>2. r = "true"
    BY <1>9, <2>1, RpcMethodsList DEF Combined, Ok, Outcome
  <2>3. l \in DOMAIN TableOf(f)
    BY <1>1, <1>9, <1>3 DEF ControlInvariant, LiveAt, Live
  <2>4. f = "handle_bidirectional_streaming_request" /\ TableOf(f)[l].starts = {"reader", "writer"}
    BY <1>9, <2>3, ReaderAndWriter DEF TableOf, Frames
  <2>5. /\ "reader" \in Frames /\ SideOf("reader") = "server"
        /\ CallOf("reader") = c
    BY <1>9, <2>4, Frames_streaming_bidirectional, SidesOf DEF Frames, SideOf, CallOf
  <2>6. at["reader"] = "end"
    BY <1>1, <2>1, <2>2, <2>4, <2>5 DEF Outcome, ControlInvariant, Ended
  <2>7. ReadAll(calls[c])
    BY <1>1, <2>5, <2>6 DEF AcceptInvariant, ReadyPoints
  <2> QED BY <1>2, <2>7 DEF ReadAll, CallStep, Dead
<1> QED BY <1>4, <1>6, <1>7, <1>8, <1>9 DEF ServerEdge

(* The message that a coroutine has got is one.                             *)
LEMMA GotMessage ==
    ASSUME TypeInvariant, ControlInvariant, CallInvariant,
           NEW f \in Frames, NEW fn \in pending[f], NEW r, NEW s, Outcome(f, fn, r, s)
    PROVE  Got(f, fn, r, s) \in Nat
<1>1. message[f] \in Nat /\ channel.queue \in Seq(Nat)
  BY DEF TypeInvariant
<1>2. SideOf(f) \in Sides /\ CallOf(f) \in CallsOf(example) /\ calls[CallOf(f)] \in CallRecord
  BY FrameFacts DEF CallInvariant, CallOK
<1>3. CASE fn = "Read" /\ r = "true"
  <2>1. Completes(SideOf(f), "Read", calls[CallOf(f)], shutdown = "shut_down", "true", s)
    BY <1>3, RpcMethodsList DEF Outcome
  <2>2. s \in CallRecord /\ s.up_read <= Len(s.up) /\ s.down_read <= Len(s.down)
    BY <2>1 DEF Completes, CallOK
  <2>3. /\ s.up \in Seq(Nat) /\ s.down \in Seq(Nat) /\ s.up_read \in Nat /\ s.down_read \in Nat
        /\ calls[CallOf(f)].up_read \in Nat /\ calls[CallOf(f)].down_read \in Nat
    BY <1>2, <2>2 DEF CallRecord
  <2>4. CASE SideOf(f) = "server"
    <3>1. s.up_read = calls[CallOf(f)].up_read + 1
      BY <2>1, <2>4 DEF Completes
    <3>2. s.up_read \in 1 .. Len(s.up)
      BY <2>2, <2>3, <3>1
    <3>3. s.up[s.up_read] \in Nat
      BY <2>3, <3>2
    <3> QED BY <1>3, <2>4, <3>3 DEF Got
  <2>5. CASE SideOf(f) = "client"
    <3>1. s.down_read = calls[CallOf(f)].down_read + 1
      BY <2>1, <2>5 DEF Completes
    <3>2. s.down_read \in 1 .. Len(s.down)
      BY <2>2, <2>3, <3>1
    <3>3. s.down[s.down_read] \in Nat
      BY <2>3, <3>2
    <3> QED BY <1>3, <2>5, <3>3 DEF Got
  <2> QED BY <1>2, <2>4, <2>5 DEF Sides
<1>4. CASE fn = "Request" /\ r = "true" /\ s.up_read = 1
  <2>1. CallOK(s)
    BY <1>4, RpcMethodsList DEF Outcome, Completes
  <2>2. s.up \in Seq(Nat) /\ 1 <= Len(s.up)
    BY <1>4, <2>1 DEF CallOK, CallRecord
  <2>3. s.up[1] \in Nat
    BY <2>2
  <2> QED BY <1>4, <2>3 DEF Got
<1>5. CASE fn = "receive" /\ r = "true"
  <2>1. channel.queue # <<>>
    BY <1>5 DEF Outcome
  <2>2. Head(channel.queue) \in Nat
    BY <1>1, <2>1
  <2> QED BY <1>5, <2>2 DEF Got
<1>6. CASE ~(fn \in {"Read", "receive"} /\ r = "true") /\ ~(fn = "Request" /\ r = "true" /\ s.up_read = 1)
  BY <1>1, <1>2, <1>6 DEF Got, Sides
<1> QED BY <1>3, <1>4, <1>5, <1>6

(* The coroutine f goes to p with effect e: its operation fn has been       *)
(* completed with r, which made its call s, and what it initiates u.        *)
Moves(f, fn, r, s, p, e, u) ==
    /\ pending[f] = {fn}
    /\ Outcome(f, fn, r, s)
    /\ Edge(example, f, SideOf(f), CallOf(f), at[f], Combined(f, fn, r), p, e)
    /\ e # "abort" /\ p \in LiveAt(f) \cup Ended
    /\ IF p \in Ended THEN u = s
       ELSE /\ MayInitiate(SideOf(f), Act(e, p), s)
            /\ u \in Initiate(SideOf(f), Act(e, p),
                              Payload(f, rounds'[f], message'[f]), s)
    /\ example' = example
    /\ calls' = [calls EXCEPT ![CallOf(f)] = u]
    /\ at' = [g \in Frames |-> IF g = f THEN p
                               ELSE IF g \in StartsAt(f, p) THEN "start" ELSE at[g]]
    /\ pending' = [g \in Frames |-> IF g = f THEN AwaitsAt(p)
                                    ELSE IF g \in StartsAt(f, p) THEN {"start"}
                                    ELSE pending[g]]
    /\ result' = [result EXCEPT ![f] = "true"]
    /\ rounds' \in [Frames -> 0 .. Rounds]
    /\ message' = [message EXCEPT ![f] = Got(f, fn, r, s)]
    /\ begun' = [begun EXCEPT ![CallOf(f)][SideOf(f)] =
                    @ \cup ((AwaitsAt(p) \cup {e}) \cap RpcMethods)]
    /\ ChannelEffect(e, fn, message'[f])
    /\ IF e = "shutdown" THEN StartShutdown ELSE UNCHANGED <<threads, shutdown>>
    /\ UNCHANGED <<cancelled, signalled, failed>>

(* The call that a completion leaves.                                       *)
LEMMA OutcomeCall ==
    ASSUME TypeInvariant, CallInvariant, NEW f \in Frames, NEW fn, NEW r, NEW s,
           Outcome(f, fn, r, s)
    PROVE  /\ CallOK(s) /\ CallStep(calls[CallOf(f)], s)
           /\ s.kind = KindOf(CallOf(f))
           /\ s.status = calls[CallOf(f)].status
           /\ s.half_closed = calls[CallOf(f)].half_closed
           /\ s.started = calls[CallOf(f)].started
           /\ s.dead = calls[CallOf(f)].dead
<1>1. CallOK(calls[CallOf(f)]) /\ calls[CallOf(f)].kind = KindOf(CallOf(f))
  BY FrameFacts DEF CallInvariant
<1>2. CASE fn \in RpcMethods
  BY <1>1, <1>2 DEF Outcome, Completes, CallStep
<1>3. CASE fn \notin RpcMethods
  BY <1>1, <1>3 DEF Outcome, CallStep
<1> QED BY <1>2, <1>3

(* A coroutine initiates only what it may initiate.                         *)
LEMMA MayBeInitiated ==
    ASSUME ProgramInvariant, NEW f \in Frames, NEW fn \in pending[f], NEW r, NEW s,
           Outcome(f, fn, r, s), NEW p \in LiveAt(f), NEW e, e # "abort",
           Edge(example, f, SideOf(f), CallOf(f), at[f], Combined(f, fn, r), p, e)
    PROVE  MayInitiate(SideOf(f), Act(e, p), s)
<1> DEFINE c == CallOf(f)
           l == at[f]
           a == Act(e, p)
<1>1. /\ TypeInvariant /\ ControlInvariant /\ AcceptInvariant /\ CallInvariant
      /\ FinishInvariant /\ ClosedInvariant
      /\ c \in CallsOf(example) /\ SideOf(f) \in Sides
  BY FrameFacts DEF ProgramInvariant
<1>2. /\ s.kind = KindOf(c) /\ s.status = calls[c].status
      /\ s.half_closed = calls[c].half_closed
  BY <1>1, OutcomeCall
<1>3. p \in Points /\ AwaitAt(p) \cap RpcMethods \subseteq Methods(SideOf(f), s.kind)
  BY <1>1, <1>2, FrameFacts DEF LiveAt, Live, TableOK
<1>4. p \notin Ended
  BY <1>3 DEF Points, Joins, Ended
<1>5. l \notin Resting
  BY <1>1, PendingMethods
<1>6. e # "AsyncUnary" => a \in AwaitAt(p)
  <2>1. CASE p \in {"ping_pong", "deadline"}
    BY <2>1 DEF Act, AwaitAt
  <2>2. CASE p \notin {"ping_pong", "deadline"}
    BY <1>3, <2>2, SoleAwaited DEF Act
  <2> QED BY <2>1, <2>2
<1>7. CASE SideOf(f) = "server"
  <2>1. ServerEdge(example, c, ReadyPoints(f), l, Combined(f, fn, r), p, e)
    BY <1>7 DEF Edge
  <2>2. e # "AsyncUnary"
    BY <2>1 DEF ServerEdge
  <2>3. s.status = "none"
    <3>1. l \notin FinalPoints
      BY <1>4, <2>1 DEF ServerEdge
    <3> QED BY <1>1, <1>2, <1>7, <3>1 DEF FinishInvariant
  <2>4. a \in Finishing => p \in {"finish", "finish_with_error", "write_and_finish"}
    <3>1. CASE p = "deadline"
      BY <2>2, <3>1 DEF Act, Finishing
    <3>2. CASE p # "deadline"
      BY <1>3, <1>6, <2>2, <3>2 DEF AwaitAt, Points, Joins, Finishing
    <3> QED BY <3>1, <3>2
  <2>5. a \in Finishing => ReadAll(s)
    <3>1. SUFFICES ASSUME a \in Finishing PROVE ReadAll(s)
      OBVIOUS
    <3>2. p \in ReadyPoints(f)
      BY <2>1, <2>4, <3>1 DEF ServerEdge
    <3> QED BY <1>7, <3>2, Ready
  <2> QED BY <1>3, <1>6, <1>7, <2>2, <2>3, <2>5 DEF MayInitiate
<1>8. CASE SideOf(f) = "client"
  <2>1. ClientEdge(c, l, Combined(f, fn, r), p, e)
    BY <1>8 DEF Edge
  <2>2. a \in RpcMethods => a \in Methods("client", s.kind)
    <3>1. CASE e = "AsyncUnary"
      BY <1>2, <2>1, <3>1, MethodsLists DEF ClientEdge, Act
    <3>2. CASE e # "AsyncUnary"
      BY <1>3, <1>6, <1>8, <3>2
    <3> QED BY <3>1, <3>2
  <2>3. s.half_closed => a \notin Upstream
    <3>1. SUFFICES ASSUME s.half_closed PROVE a \notin Upstream
      OBVIOUS
    <3>2. l \in ClosedPoints(KindOf(c))
      BY <1>1, <1>2, <1>5, <1>8, <3>1 DEF ClosedInvariant, Resting
    <3>3. p \in {"read", "finish", "read_initial_metadata"}
      BY <1>4, <2>1, <3>2 DEF ClientEdge
    <3>4. l # "start"
      BY <3>2 DEF ClosedPoints
    <3>5. e # "AsyncUnary"
      BY <2>1, <3>4 DEF ClientEdge
    <3> QED BY <1>6, <3>3, <3>5 DEF AwaitAt, Upstream, Opening, Closing
  <2> QED BY <1>8, <2>2, <2>3 DEF MayInitiate
<1> QED BY <1>1, <1>7, <1>8 DEF Sides

(* What a resumed coroutine does.                                           *)
LEMMA ResumeMoves ==
    ASSUME ProgramInvariant, NEW f \in Frames, NEW fn \in pending[f], Resume(f, fn)
    PROVE  \E r, s, p, e, u : Moves(f, fn, r, s, p, e, u)
<1>1. /\ TypeInvariant /\ ControlInvariant /\ CallInvariant
      /\ CallOf(f) \in CallsOf(example) /\ SideOf(f) \in Sides
      /\ TableOK(example, f, SideOf(f), CallOf(f), TableOf(f))
  BY FrameFacts DEF ProgramInvariant
<1>0. PICK o \in ResultsOf(f, fn) :
        /\ Resumes(f, pending[f] \ {fn})
        /\ \E target \in TargetsOf(f, Combined(f, fn, o[1])) : ResumeTo(f, fn, o, target)
  BY DEF Resume
<1>2. PICK target \in TargetsOf(f, Combined(f, fn, o[1])) : ResumeTo(f, fn, o, target)
  BY <1>0
<1> DEFINE r == o[1]
           s == o[2]
           p == target.point
           e == target.effect
           n == IF p # at[f] THEN 0
                ELSE IF rounds[f] < Rounds THEN rounds[f] + 1 ELSE Rounds
           m == Got(f, fn, r, s)
           fns == IF p \in Ended THEN {} ELSE TableOf(f)[p].await
<1>3. PICK u \in (IF fns = {} THEN {s} ELSE Initiated(f, e, fns, Payload(f, n, m), s)) :
        calls' = [calls EXCEPT ![CallOf(f)] = u]
  BY <1>2 DEF ResumeTo
<1>4. Outcome(f, fn, r, s)
  BY <1>1, OutcomeOf
<1>5. pending[f] = {fn} /\ e # "abort"
  BY <1>0, <1>2 DEF Resumes, ResumeTo
<1>6. /\ at[f] \notin Resting /\ (at[f] = "start" <=> fn = "start")
      /\ (fn # "start" => at[f] \in LiveAt(f))
  BY <1>1, PendingMethods
<1>7. Combined(f, fn, r) \in Results
  BY <1>1, <1>4 DEF Combined, TypeInvariant, Outcome
<1>8. /\ p \in LiveAt(f) \cup Ended
      /\ Edge(example, f, SideOf(f), CallOf(f), at[f], Combined(f, fn, r), p, e)
  <2>1. CASE at[f] = "start"
    <3>1. Combined(f, fn, r) = "true"
      <4>1. result[f] = "true"
        BY <1>1, <2>1 DEF ControlInvariant
      <4> QED BY <1>4, <1>6, <2>1, <4>1 DEF Combined, Outcome
    <3>2. target \in TableOf(f).start
      BY <2>1 DEF TargetsOf
    <3> QED BY <1>1, <2>1, <3>1, <3>2 DEF TableOK, LiveAt
  <2>2. CASE at[f] # "start"
    <3>1. target \in TableOf(f)[at[f]].next[Combined(f, fn, r)]
      BY <2>2 DEF TargetsOf
    <3> QED BY <1>1, <1>6, <1>7, <2>2, <3>1 DEF TableOK, LiveAt
  <2> QED BY <2>1, <2>2
<1>9. p \notin Ended => p \in Points /\ p \in DOMAIN TableOf(f) \ {"start"} /\ fns = AwaitAt(p)
  BY <1>1, <1>8 DEF TableOK, LiveAt, Live
<1>10. fns = AwaitsAt(p)
  BY <1>9 DEF AwaitsAt
<1>11. n \in 0 .. Rounds /\ rounds' \in [Frames -> 0 .. Rounds] /\ rounds'[f] = n
  <2>1. rounds[f] \in 0 .. Rounds /\ rounds \in [Frames -> 0 .. Rounds]
    BY <1>1 DEF TypeInvariant
  <2>2. n \in 0 .. Rounds
    BY <2>1, RoundsAssumption
  <2>3. rounds' = [rounds EXCEPT ![f] = n]
    BY <1>2 DEF ResumeTo
  <2> HIDE DEF n
  <2> QED BY <2>1, <2>2, <2>3
<1>12. message' = [message EXCEPT ![f] = m] /\ message'[f] = m
  <2>1. message' = [message EXCEPT ![f] = m]
    BY <1>2 DEF ResumeTo
  <2>2. message \in [Frames -> Nat]
    BY <1>1 DEF TypeInvariant
  <2> HIDE DEF m
  <2> QED BY <2>1, <2>2
<1>13. IF p \in Ended THEN u = s
       ELSE /\ MayInitiate(SideOf(f), Act(e, p), s)
            /\ u \in Initiate(SideOf(f), Act(e, p), Payload(f, rounds'[f], message'[f]), s)
  <2>1. CASE p \in Ended
    BY <1>3, <2>1
  <2>2. CASE p \notin Ended
    <3>1. MayInitiate(SideOf(f), Act(e, p), s)
      <4> HIDE DEF p, e, r, s
      <4> QED BY <1>4, <1>5, <1>8, <2>2, MayBeInitiated
    <3>2. fns = AwaitAt(p) /\ fns # {} /\ p \in Points
      BY <1>9, <2>2 DEF AwaitAt
    <3>3. u \in Initiated(f, e, AwaitAt(p), Payload(f, rounds'[f], message'[f]), s)
      <4> HIDE DEF p, e, r, s, n, m, fns
      <4> QED BY <1>3, <1>11, <1>12, <3>2
    <3>4. e \in {"none", "send", "close", "shutdown"}
             \/ /\ e = "AsyncUnary" /\ SideOf(f) = "client"
                /\ p \in {"finish", "deadline", "read_initial_metadata"}
      <4> HIDE DEF p, e, r, s
      <4> QED BY <1>1, <1>5, <1>8, <2>2 DEF Edge, ServerEdge, ClientEdge, Sides, Ended
    <3> HIDE DEF p, e, r, s, n, m, fns
    <3> QED BY <1>1, <2>2, <3>1, <3>2, <3>3, <3>4, InitiatedOne
  <2> QED BY <2>1, <2>2
<1>14. /\ at' = [g \in Frames |-> IF g = f THEN p
                               ELSE IF g \in StartsAt(f, p) THEN "start" ELSE at[g]]
       /\ begun' = [begun EXCEPT ![CallOf(f)][SideOf(f)] =
                    @ \cup ((AwaitsAt(p) \cup {e}) \cap RpcMethods)]
  BY <1>2, <1>10 DEF StartsAt, ResumeTo
<1>15. pending' = [g \in Frames |-> IF g = f THEN AwaitsAt(p)
                                    ELSE IF g \in StartsAt(f, p) THEN {"start"}
                                    ELSE pending[g]]
  <2>1. fns \cup (pending[f] \ {fn}) = AwaitsAt(p)
    BY <1>5, <1>10
  <2>2. pending' = [g \in Frames |-> IF g = f THEN fns \cup (pending[f] \ {fn})
                                    ELSE IF g \in StartsAt(f, p) THEN {"start"}
                                    ELSE pending[g]]
    BY <1>2 DEF StartsAt, ResumeTo
  <2> HIDE DEF fns
  <2> QED BY <2>1, <2>2
<1>16. /\ ChannelEffect(e, fn, message'[f])
       /\ IF e = "shutdown" THEN StartShutdown ELSE UNCHANGED <<threads, shutdown>>
       /\ UNCHANGED <<cancelled, signalled, failed>> /\ example' = example
       /\ result' = [result EXCEPT ![f] = "true"]
  BY <1>2, <1>12 DEF ResumeTo
<1>17. Moves(f, fn, r, s, p, e, u)
  <2> HIDE DEF p, e, r, s, n, fns
  <2> QED BY <1>3, <1>4, <1>5, <1>8, <1>11, <1>12, <1>13, <1>14, <1>15, <1>16 DEF Moves
<1> QED BY <1>17

(* The call and the message of a coroutine that moves.                      *)
LEMMA MovesFacts ==
    ASSUME ProgramInvariant, NEW f \in Frames, NEW fn, NEW r, NEW s, NEW p, NEW e, NEW u,
           Moves(f, fn, r, s, p, e, u)
    PROVE  /\ fn \in pending[f] /\ at[f] \notin Resting
           /\ CallOK(u) /\ CallStep(s, u) /\ CallStep(calls[CallOf(f)], u)
           /\ u.kind = KindOf(CallOf(f))
           /\ u = s \/ Initiates(SideOf(f), Act(e, p), s, u)
           /\ p \notin Ended => Initiates(SideOf(f), Act(e, p), s, u)
           /\ message'[f] \in Nat
           /\ p \in Ended \/ p \in Points \cap PointsOf(f)
           /\ calls' \in [CallsOf(example) -> CallRecord]
           /\ \A c \in CallsOf(example) : calls'[c] = IF c = CallOf(f) THEN u ELSE calls[c]
<1>1. /\ TypeInvariant /\ ControlInvariant /\ CallInvariant
      /\ CallOf(f) \in CallsOf(example) /\ SideOf(f) \in Sides
      /\ TableOK(example, f, SideOf(f), CallOf(f), TableOf(f))
  BY FrameFacts DEF ProgramInvariant
<1>2. fn \in pending[f] /\ Outcome(f, fn, r, s)
  BY DEF Moves
<1>3. CallOK(s) /\ CallStep(calls[CallOf(f)], s) /\ s.kind = KindOf(CallOf(f))
  BY <1>1, <1>2, OutcomeCall
<1>4. /\ Got(f, fn, r, s) \in Nat /\ message'[f] = Got(f, fn, r, s)
      /\ message' \in [Frames -> Nat]
  <2>1. Got(f, fn, r, s) \in Nat
    BY <1>1, <1>2, GotMessage
  <2> QED BY <1>1, <2>1 DEF Moves, TypeInvariant
<1>5. Payload(f, rounds'[f], message'[f]) \in Nat
  <2>1. rounds'[f] \in Nat
    BY RoundsAssumption DEF Moves
  <2> QED BY <1>4, <2>1 DEF Payload
<1>6. p \notin Ended => Initiates(SideOf(f), Act(e, p), s, u)
  <2>1. SUFFICES ASSUME p \notin Ended PROVE Initiates(SideOf(f), Act(e, p), s, u)
    OBVIOUS
  <2>2. /\ MayInitiate(SideOf(f), Act(e, p), s)
        /\ u \in Initiate(SideOf(f), Act(e, p), Payload(f, rounds'[f], message'[f]), s)
    BY <2>1 DEF Moves
  <2>3. CASE SideOf(f) = "client"
    BY <1>3, <1>5, <2>2, <2>3, ClientInitiate
  <2>4. CASE SideOf(f) = "server"
    <3> DEFINE m == Payload(f, rounds'[f], message'[f])
               a == Act(e, p)
    <3>1. MayInitiate("server", a, s) /\ u \in Initiate("server", a, m, s) /\ m \in Nat
      BY <1>5, <2>2, <2>4
    <3> HIDE DEF m, a
    <3>2. Initiates("server", a, s, u)
      BY <1>3, <3>1, ServerInitiate
    <3> QED BY <2>4, <3>2 DEF a
  <2> QED BY <1>1, <2>3, <2>4 DEF Sides
<1>7. p \in Ended => u = s
  BY DEF Moves
<1>8. CallOK(u) /\ CallStep(s, u)
  BY <1>3, <1>6, <1>7 DEF Initiates, CallStep
<1>9. CallStep(calls[CallOf(f)], u) /\ u.kind = KindOf(CallOf(f))
  BY <1>3, <1>8 DEF CallStep, Dead
<1>10. p \in Ended \/ p \in Points \cap PointsOf(f)
  BY <1>1 DEF Moves, LiveAt, Live, TableOK, PointsOf
<1>11. u \in CallRecord /\ calls' = [calls EXCEPT ![CallOf(f)] = u]
  BY <1>8 DEF CallOK, Moves
<1> QED BY <1>1, <1>2, <1>4, <1>6, <1>7, <1>8, <1>9, <1>10, <1>11, PendingMethods
      DEF TypeInvariant

(* What is started has not been started before.                             *)
LEMMA StartedFresh ==
    ASSUME ProgramInvariant, NEW f \in Frames, NEW fn, NEW r, NEW s, NEW p, NEW e, NEW u,
           Moves(f, fn, r, s, p, e, u), NEW g \in StartsAt(f, p)
    PROVE  /\ g \in Frames /\ g # f /\ at[g] = "idle" /\ SideOf(g) = SideOf(f)
           /\ SideOf(f) = "server" => CallOf(g) \in {CallOf(f), "never"}
           /\ p \notin Ended /\ p \in PointsOf(f) /\ g \in TableOf(f)[p].starts
<1>1. /\ TypeInvariant /\ FamilyInvariant
      /\ FrameOK(example, f) /\ TableOK(example, f, SideOf(f), CallOf(f), TableOf(f))
  BY FrameFacts DEF ProgramInvariant
<1>2. p \notin Ended /\ p \in PointsOf(f) /\ g \in TableOf(f)[p].starts
  BY MovesFacts DEF StartsAt
<1>3. p \in Joins
  BY <1>1, <1>2 DEF TableOK, PointsOf
<1>4. Rank(at[f]) < Rank(p)
  BY <1>3 DEF Moves, Edge
<1> QED BY <1>1, <1>2, <1>4
      DEF FamilyInvariant, FrameOK, StartsOK, PointsOf, TableOf, SideOf, CallOf, Frames

(* Every variable keeps its type when a coroutine moves.                    *)
LEMMA MovesType ==
    ASSUME ProgramInvariant, NEW f \in Frames, NEW fn, NEW r, NEW s, NEW p, NEW e, NEW u,
           Moves(f, fn, r, s, p, e, u)
    PROVE  TypeInvariant'
<1>1. /\ TypeInvariant /\ CallOf(f) \in CallsOf(example) /\ SideOf(f) \in Sides
  BY FrameFacts DEF ProgramInvariant
<1>2. /\ calls' \in [CallsOf(example) -> CallRecord] /\ message'[f] \in Nat
      /\ p \in Points \cup Ended
  BY MovesFacts
<1>3. at' \in [Frames -> Points \cup Ended \cup {"idle", "start"}]
  BY <1>1, <1>2 DEF Moves, TypeInvariant
<1>4. pending' \in [Frames -> SUBSET Awaitable]
  <2>1. AwaitsAt(p) \subseteq Awaitable
    BY <1>2, RpcMethodsList DEF AwaitsAt, AwaitAt, Awaitable
  <2>2. {"start"} \subseteq Awaitable
    BY DEF Awaitable
  <2> QED BY <1>1, <2>1, <2>2 DEF Moves, TypeInvariant
<1>5. result' \in [Frames -> Results] /\ message' \in [Frames -> Nat] /\ rounds' \in [Frames -> 0 .. Rounds]
  <2>1. "true" \in Results
    BY DEF Results
  <2> QED BY <1>1, <1>2, <2>1 DEF Moves, TypeInvariant
<1>6. begun' \in [CallsOf(example) -> [Sides -> SUBSET RpcMethods]]
  <2> DEFINE M == (AwaitsAt(p) \cup {e}) \cap RpcMethods
  <2>1. begun' = [begun EXCEPT ![CallOf(f)][SideOf(f)] = @ \cup M]
    BY DEF Moves
  <2>2. M \subseteq RpcMethods
    OBVIOUS
  <2> HIDE DEF M
  <2> QED BY <1>1, <2>1, <2>2 DEF TypeInvariant
<1>7. channel' \in [queue : Seq(Nat), closed : BOOLEAN]
  <2>1. /\ channel \in [queue : Seq(Nat), closed : BOOLEAN]
        /\ ChannelEffect(e, fn, message'[f])
    BY <1>1 DEF Moves, TypeInvariant
  <2>2. CASE channel' = [channel EXCEPT !.queue = Append(@, message'[f])]
    <3>1. Append(channel.queue, message'[f]) \in Seq(Nat)
      BY <1>2, <2>1
    <3> QED BY <2>1, <2>2, <3>1
  <2>3. CASE \E q \in {<<>>, channel.queue} : channel' = [queue |-> q, closed |-> TRUE]
    <3>1. <<>> \in Seq(Nat)
      OBVIOUS
    <3>2. PICK q \in {<<>>, channel.queue} : channel' = [queue |-> q, closed |-> TRUE]
      BY <2>3
    <3>3. q \in Seq(Nat)
      BY <2>1, <3>1
    <3> QED BY <3>2, <3>3
  <2>4. CASE channel.queue # <<>> /\ channel' = [channel EXCEPT !.queue = Tail(@)]
    <3>1. Tail(channel.queue) \in Seq(Nat)
      BY <2>1, <2>4
    <3> QED BY <2>1, <2>4, <3>1
  <2> QED BY <2>1, <2>2, <2>3, <2>4 DEF ChannelEffect
<1>8. shutdown' \in {"no", "thread", "cancelled", "shut_down"} /\ threads' \in 0 .. 1
  BY <1>1 DEF Moves, StartShutdown, TypeInvariant
<1>9. cancelled' \in BOOLEAN /\ signalled' \in BOOLEAN /\ failed' \in BOOLEAN /\ example' = example
  BY <1>1 DEF Moves, TypeInvariant
<1> QED BY <1>1, <1>2, <1>3, <1>4, <1>5, <1>6, <1>7, <1>8, <1>9 DEF TypeInvariant, Frames

(* The coroutines wait for what their points say.                           *)
LEMMA MovesControl ==
    ASSUME ProgramInvariant, NEW f \in Frames, NEW fn, NEW r, NEW s, NEW p, NEW e, NEW u,
           Moves(f, fn, r, s, p, e, u)
    PROVE  ControlInvariant'
<1>1. /\ TypeInvariant /\ ControlInvariant /\ SideOf(f) \in Sides /\ example' = example
  BY FrameFacts DEF ProgramInvariant, Moves
<1>2. SUFFICES ASSUME NEW g \in Frames
      PROVE  /\ at'[g] \in Resting => pending'[g] = {}
             /\ at'[g] = "start" => pending'[g] = {"start"}
             /\ at'[g] \notin Resting \cup {"start"} =>
                  /\ at'[g] \in LiveAt(g) /\ pending'[g] # {}
                  /\ pending'[g] \subseteq AwaitAt(at'[g])
             /\ at'[g] \notin {"ping_pong", "deadline", "aborted"} => result'[g] = "true"
             /\ SideOf(g) = "server" => at'[g] # "aborted"
  BY <1>1 DEF ControlInvariant, Frames, LiveAt, SideOf, CallOf, TableOf
<1>3. /\ at'[g] = IF g = f THEN p ELSE IF g \in StartsAt(f, p) THEN "start" ELSE at[g]
      /\ pending'[g] = IF g = f THEN AwaitsAt(p)
                       ELSE IF g \in StartsAt(f, p) THEN {"start"} ELSE pending[g]
      /\ result'[g] = IF g = f THEN "true" ELSE result[g]
  BY <1>1 DEF Moves, TypeInvariant
<1>4. CASE g = f
  <2>1. /\ p \in LiveAt(f) \cup Ended /\ (p \in Ended \/ p \in Points)
        /\ SideOf(f) = "server" => p # "aborted"
    <3>1. Edge(example, f, SideOf(f), CallOf(f), at[f], Combined(f, fn, r), p, e)
      BY DEF Moves
    <3> QED BY <3>1, MovesFacts DEF Moves, Edge, ServerEdge
  <2>2. CASE p \in Ended
    BY <1>3, <1>4, <2>1, <2>2 DEF AwaitsAt, Resting, Ended
  <2>3. CASE p \in Points /\ p \notin Ended
    <3>1. p \notin Resting \cup {"start", "aborted"}
      BY <2>3 DEF Points, Joins, Resting, Ended
    <3>2. AwaitAt(p) # {}
      BY DEF AwaitAt
    <3> QED BY <1>3, <1>4, <2>1, <2>3, <3>1, <3>2 DEF AwaitsAt
  <2> QED BY <2>1, <2>2, <2>3
<1>5. CASE g # f /\ g \in StartsAt(f, p)
  <2>1. at[g] = "idle"
    BY <1>5, StartedFresh
  <2>2. result[g] = "true"
    BY <1>1, <2>1 DEF ControlInvariant
  <2> QED BY <1>3, <1>5, <2>2 DEF Resting, Ended
<1>6. CASE g # f /\ g \notin StartsAt(f, p)
  <2>1. at'[g] = at[g] /\ pending'[g] = pending[g] /\ result'[g] = result[g]
    BY <1>3, <1>6
  <2> QED BY <1>1, <2>1 DEF ControlInvariant
<1> QED BY <1>4, <1>5, <1>6

(* Parents wait for their children.                                         *)
LEMMA MovesFamily ==
    ASSUME ProgramInvariant, NEW f \in Frames, NEW fn, NEW r, NEW s, NEW p, NEW e, NEW u,
           Moves(f, fn, r, s, p, e, u)
    PROVE  FamilyInvariant'
<1>1. /\ TypeInvariant /\ ControlInvariant /\ FamilyInvariant /\ example' = example
  BY FrameFacts DEF ProgramInvariant, Moves
<1>2. SUFFICES ASSUME NEW h \in Frames, NEW l \in PointsOf(h), NEW g \in TableOf(h)[l].starts
      PROVE  /\ Rank(at'[h]) < Rank(l) => at'[g] = "idle"
             /\ at'[g] \notin Resting => at'[h] = l
  BY <1>1 DEF FamilyInvariant, Frames, PointsOf, TableOf
<1>3. g \in Frames /\ g # h /\ h = ParentOf(g) /\ l = StartPoint(g) /\ l \in Joins
  <2>1. FrameOK(example, h) /\ TableOK(example, h, SideOf(h), CallOf(h), TableOf(h))
    BY <1>1, FrameFacts
  <2> QED BY <2>1 DEF FrameOK, StartsOK, TableOK, PointsOf, TableOf, Frames
<1>4. /\ \A k \in Frames : at'[k] = IF k = f THEN p ELSE IF k \in StartsAt(f, p) THEN "start" ELSE at[k]
      /\ Edge(example, f, SideOf(f), CallOf(f), at[f], Combined(f, fn, r), p, e)
  BY DEF Moves
<1>5. /\ Rank(at[h]) < Rank(l) => at[g] = "idle"
      /\ at[g] \notin Resting => at[h] = l
  BY <1>1 DEF FamilyInvariant
<1>6. \A k : Rank(k) \in 0 .. 4
  BY DEF Rank
<1>7. at[f] \notin Resting /\ Rank(at[f]) <= Rank(p) /\ fn \in pending[f]
  BY <1>4, MovesFacts DEF Edge
<1>8. CASE h = f
  <2>1. at'[h] = p
    BY <1>4, <1>8
  <2>2. CASE g \in StartsAt(f, p)
    <3>1. p \in PointsOf(f) /\ g \in TableOf(f)[p].starts
      BY <2>2, StartedFresh
    <3>2. p = StartPoint(g)
      <4>1. FrameOK(example, f)
        BY <1>1, FrameFacts
      <4> QED BY <3>1, <4>1 DEF FrameOK, StartsOK, PointsOf, TableOf
    <3> QED BY <1>3, <1>6, <2>1, <3>2
  <2>3. CASE g \notin StartsAt(f, p)
    <3>1. at'[g] = at[g]
      BY <1>3, <1>4, <1>8, <2>3
    <3>2. at[g] \in Resting
      <4>1. SUFFICES ASSUME at[f] = l PROVE at[g] \in Resting
        BY <1>5, <1>8
      <4>2. fn = "join"
        <5>1. l \notin Resting \cup {"start"} /\ AwaitAt(l) = {"join"}
          BY <1>3 DEF Joins, Resting, Ended, AwaitAt
        <5>2. fn \in AwaitAt(l)
          BY <1>1, <1>7, <4>1, <5>1 DEF ControlInvariant
        <5> QED BY <5>1, <5>2
      <4>3. \A k \in TableOf(f)[at[f]].starts : at[k] \in Ended
        BY <4>2 DEF Moves, Outcome
      <4> QED BY <1>8, <4>1, <4>3 DEF Resting
    <3>3. Rank(p) < Rank(l) => at[g] = "idle"
      <4>1. Rank(at[f]) \in 0 .. 4 /\ Rank(p) \in 0 .. 4 /\ Rank(l) \in 0 .. 4
        BY <1>6
      <4> QED BY <1>5, <1>7, <1>8, <4>1
    <3> QED BY <2>1, <3>1, <3>2, <3>3
  <2> QED BY <2>2, <2>3
<1>9. CASE h # f
  <2>1. g \notin StartsAt(f, p)
    <3>1. SUFFICES ASSUME g \in StartsAt(f, p) PROVE FALSE
      OBVIOUS
    <3>2. p \in PointsOf(f) /\ g \in TableOf(f)[p].starts /\ FrameOK(example, f)
      BY <1>1, <3>1, StartedFresh, FrameFacts
    <3>3. f = ParentOf(g)
      BY <3>2 DEF FrameOK, StartsOK, PointsOf, TableOf
    <3> QED BY <1>3, <1>9, <3>3
  <2>2. CASE g = f
    <3>1. h \notin StartsAt(f, p)
      <4>1. SUFFICES ASSUME h \in StartsAt(f, p) PROVE FALSE
        OBVIOUS
      <4>2. p \in PointsOf(f) /\ h \in TableOf(f)[p].starts /\ FrameOK(example, f)
        BY <1>1, <4>1, StartedFresh, FrameFacts
      <4>3. f = ParentOf(h)
        BY <4>2 DEF FrameOK, StartsOK, PointsOf, TableOf
      <4> QED BY <1>3, <2>2, <4>3 DEF ParentOf
    <3>2. at'[h] = at[h] /\ at[h] = l
      BY <1>4, <1>5, <1>7, <1>9, <2>2, <3>1
    <3> QED BY <1>6, <3>2
  <2>3. CASE g # f
    <3>1. at'[g] = at[g]
      BY <1>3, <1>4, <2>1, <2>3
    <3>2. CASE h \in StartsAt(f, p)
      <4>1. at[h] = "idle"
        BY <3>2, StartedFresh
      <4>2. Rank(at[h]) < Rank(l)
        BY <1>3, <4>1 DEF Rank, Joins
      <4> QED BY <1>5, <3>1, <4>2 DEF Resting
    <3>3. CASE h \notin StartsAt(f, p)
      BY <1>4, <1>5, <1>9, <3>1, <3>3
    <3> QED BY <3>2, <3>3
  <2> QED BY <2>2, <2>3
<1> QED BY <1>8, <1>9

(* The calls stay well-formed.                                              *)
LEMMA MovesCall ==
    ASSUME ProgramInvariant, NEW f \in Frames, NEW fn, NEW r, NEW s, NEW p, NEW e, NEW u,
           Moves(f, fn, r, s, p, e, u)
    PROVE  CallInvariant'
<1>1. CallInvariant /\ example' = example
  BY DEF ProgramInvariant, Moves
<1>2. SUFFICES ASSUME NEW c \in CallsOf(example)
      PROVE  CallOK(calls'[c]) /\ calls'[c].kind = KindOf(c)
  BY <1>1 DEF CallInvariant
<1>3. /\ calls'[c] = IF c = CallOf(f) THEN u ELSE calls[c]
      /\ CallOK(u) /\ u.kind = KindOf(CallOf(f))
  BY MovesFacts
<1> QED BY <1>1, <1>3 DEF CallInvariant

(* When a coroutine finishes a call, the others that work on it have ended  *)
(* or have nothing left to do but to wait for it.                           *)
LEMMA PeersFinal ==
    ASSUME ProgramInvariant, NEW f \in Frames, NEW fn, NEW r, NEW s, NEW p, NEW e, NEW u,
           Moves(f, fn, r, s, p, e, u),
           p \in {"finish", "deadline", "finish_with_error", "write_and_finish"},
           NEW g \in Frames, g # f, CallOf(g) = CallOf(f), SideOf(g) = SideOf(f)
    PROVE  at[g] \in FinalPoints
<1>1. /\ TypeInvariant /\ ControlInvariant /\ FamilyInvariant
      /\ example \in DOMAIN Programs
  BY DEF ProgramInvariant, TypeInvariant
<1>2. /\ SideOf(f) = "server"
      /\ \/ CallOf(f) = "never"
         \/ /\ example = "streaming_client_streaming"
            /\ f \in {"register_client_streaming_handler", "handle_client_streaming_request"}
            /\ g \in {"register_client_streaming_handler", "handle_client_streaming_request"}
         \/ /\ example = "streaming_bidirectional"
            /\ f \in {"handle_bidirectional_streaming_request", "reader", "writer"}
            /\ g \in {"handle_bidirectional_streaming_request", "reader", "writer"}
  BY <1>1, SidesAndCalls DEF SideOf, CallOf, Frames
<1>3. /\ ServerEdge(example, CallOf(f), ReadyPoints(f), at[f], Combined(f, fn, r), p, e)
      /\ p \notin Ended
  BY <1>2 DEF Moves, Edge, Ended
<1>4. /\ p \in PointsOf(f) /\ at[f] \notin Resting /\ fn \in pending[f]
      /\ at[f] = "start" \/ at[f] \in PointsOf(f)
  <2>1. p \in PointsOf(f) /\ at[f] \notin Resting /\ fn \in pending[f]
    BY <1>3, MovesFacts
  <2> QED BY <1>1, <2>1 DEF ControlInvariant, LiveAt, Live, PointsOf
<1>5. CallOf(f) # "never"
  BY <1>3 DEF ServerEdge
<1>6. CASE example = "streaming_client_streaming"
  <2>1. /\ TableOf("register_client_streaming_handler") = register_client_streaming_handler
        /\ "register_client_streaming_handler" \in Frames
    BY <1>6, Frames_streaming_client_streaming, SidesOf DEF TableOf, Frames
  <2>2. /\ DOMAIN register_client_streaming_handler = {"start", "request", "handle"}
        /\ "handle_client_streaming_request" \in register_client_streaming_handler["handle"].starts
    BY Nodes DEF register_client_streaming_handler
  <2>3. f # "register_client_streaming_handler"
    BY <1>4, <2>1, <2>2 DEF PointsOf
  <2>4. f = "handle_client_streaming_request" /\ g = "register_client_streaming_handler"
    BY <1>2, <1>5, <1>6, <2>3
  <2>5. at[g] = "handle"
    BY <1>1, <1>4, <2>1, <2>2, <2>4 DEF FamilyInvariant, PointsOf
  <2> QED BY <2>5 DEF FinalPoints
<1>7. CASE example = "streaming_bidirectional"
  <2>1. /\ TableOf("handle_bidirectional_streaming_request") = handle_bidirectional_streaming_request
        /\ TableOf("reader") = reader /\ TableOf("writer") = writer
        /\ CallOf("handle_bidirectional_streaming_request") = "bidirectional"
    BY <1>7, Frames_streaming_bidirectional, SidesOf DEF TableOf, CallOf
  <2>2. /\ DOMAIN handle_bidirectional_streaming_request = {"start", "request", "reader_and_writer", "finish"}
        /\ DOMAIN reader = {"start", "read"}
        /\ DOMAIN writer = {"start", "receive", "post", "write"}
    BY DEF handle_bidirectional_streaming_request, reader, writer
  <2>3. f \notin {"reader", "writer"}
    BY <1>4, <2>1, <2>2 DEF PointsOf
  <2>4. f = "handle_bidirectional_streaming_request" /\ g \in {"reader", "writer"}
    BY <1>2, <1>5, <1>7, <2>3
  <2>5. at[f] \in {"start", "request", "reader_and_writer", "finish"} /\ p = "finish"
    BY <1>4, <2>1, <2>2, <2>4 DEF PointsOf
  <2>6. at[f] # "finish"
    BY <1>3, <2>5 DEF ServerEdge, FinalPoints
  <2>7. at[f] = "reader_and_writer"
    <3>1. KindOf(CallOf(f)) \notin Multi
      BY <2>1, <2>4 DEF KindOf, Multi, ServerMultiArgRequestInitFunction
    <3>2. p \in ReadyPoints(f) /\ at[f] \notin ReadyPoints(f) \cup {"read"}
      BY <1>3, <2>4, <2>5, <2>6 DEF ServerEdge, ReadyPoints
    <3> QED BY <1>3, <3>1, <3>2 DEF ServerEdge
  <2>8. fn = "join"
    BY <1>1, <1>4, <2>7 DEF ControlInvariant, Resting, Ended, AwaitAt
  <2>9. at[g] \in Ended
    BY <1>7, <2>4, <2>7, <2>8, ReaderAndWriter DEF Moves, Outcome, TableOf
  <2> QED BY <2>9 DEF FinalPoints
<1> QED BY <1>2, <1>5, <1>6, <1>7

(* What a coroutine begins.                                                 *)
LEMMA MovesBegins ==
    ASSUME ProgramInvariant, NEW f \in Frames, NEW fn, NEW r, NEW s, NEW p, NEW e, NEW u,
           Moves(f, fn, r, s, p, e, u), NEW c \in CallsOf(example), NEW d \in Sides
    PROVE  begun'[c][d] = IF c = CallOf(f) /\ d = SideOf(f)
                          THEN begun[c][d] \cup ((AwaitsAt(p) \cup {e}) \cap RpcMethods)
                          ELSE begun[c][d]
<1> DEFINE M == (AwaitsAt(p) \cup {e}) \cap RpcMethods
<1>1. begun' = [begun EXCEPT ![CallOf(f)][SideOf(f)] = @ \cup M]
  BY DEF Moves
<1>2. begun \in [CallsOf(example) -> [Sides -> SUBSET RpcMethods]]
  BY DEF ProgramInvariant, TypeInvariant
<1> HIDE DEF M
<1>3. begun'[c][d] = IF c = CallOf(f) /\ d = SideOf(f) THEN begun[c][d] \cup M ELSE begun[c][d]
  BY <1>1, <1>2
<1> QED BY <1>3 DEF M

(* After finish nothing is called.                                          *)
LEMMA MovesFinish ==
    ASSUME ProgramInvariant, NEW f \in Frames, NEW fn, NEW r, NEW s, NEW p, NEW e, NEW u,
           Moves(f, fn, r, s, p, e, u)
    PROVE  FinishInvariant'
<1> DEFINE M == (AwaitsAt(p) \cup {e}) \cap RpcMethods
<1>1. /\ TypeInvariant /\ FinishInvariant /\ CallInvariant /\ example' = example
      /\ SideOf(f) \in Sides /\ CallOf(f) \in CallsOf(example)
  BY FrameFacts DEF ProgramInvariant, Moves
<1>2. /\ Edge(example, f, SideOf(f), CallOf(f), at[f], Combined(f, fn, r), p, e)
      /\ e # "abort" /\ Outcome(f, fn, r, s)
      /\ p \in Ended \/ p \in Points
  BY MovesFacts DEF Moves
<1>3. e \in {"none", "AsyncUnary", "expect", "send", "close", "shutdown"}
      /\ (e = "AsyncUnary" => SideOf(f) = "client")
  BY <1>1, <1>2 DEF Edge, ClientEdge, ServerEdge, Sides
<1>4. M \cap Finishing # {} =>
        p \in {"finish", "deadline", "finish_with_error", "write_and_finish"}
  BY <1>2, <1>3 DEF AwaitsAt, AwaitAt, Points, Joins, Finishing
<1>5. ASSUME NEW g \in Frames, begun'[CallOf(g)][SideOf(g)] \cap Finishing # {}
      PROVE  at'[g] \in FinalPoints
  <2>1. SideOf(g) \in Sides /\ CallOf(g) \in CallsOf(example)
    BY <1>1, FrameFacts
  <2>2. /\ begun'[CallOf(g)][SideOf(g)] =
             IF CallOf(g) = CallOf(f) /\ SideOf(g) = SideOf(f)
             THEN begun[CallOf(g)][SideOf(g)] \cup M ELSE begun[CallOf(g)][SideOf(g)]
        /\ at'[g] = IF g = f THEN p ELSE IF g \in StartsAt(f, p) THEN "start" ELSE at[g]
    <3>1. at'[g] = IF g = f THEN p ELSE IF g \in StartsAt(f, p) THEN "start" ELSE at[g]
      BY DEF Moves
    <3> QED BY <2>1, <3>1, MovesBegins
  <2>3. begun[CallOf(g)][SideOf(g)] \cap Finishing # {} => at[g] \in FinalPoints
    BY <1>1 DEF FinishInvariant
  <2> HIDE DEF M
  <2>4. CASE g = f
    <3>1. CASE M \cap Finishing # {}
      BY <1>4, <2>2, <2>4, <3>1 DEF FinalPoints
    <3>2. CASE M \cap Finishing = {}
      <4>1. at[f] \in FinalPoints
        BY <1>5, <2>2, <2>3, <2>4, <3>2
      <4>2. p \in Ended
        BY <1>1, <1>2, <4>1 DEF Edge, ClientEdge, ServerEdge
      <4> QED BY <2>2, <2>4, <4>2 DEF FinalPoints
    <3> QED BY <3>1, <3>2
  <2>5. CASE g # f /\ g \in StartsAt(f, p)
    <3>1. at[g] = "idle" /\ p \notin Ended /\ g \in TableOf(f)[p].starts /\ p \in PointsOf(f)
      BY <2>5, StartedFresh
    <3>2. p \in Joins
      BY <1>1, <3>1, FrameFacts DEF TableOK, PointsOf
    <3>3. M \cap Finishing = {}
      BY <1>4, <3>2 DEF Joins
    <3>4. begun[CallOf(g)][SideOf(g)] \cap Finishing # {}
      BY <1>5, <2>2, <3>3
    <3> QED BY <2>3, <3>1, <3>4 DEF FinalPoints, Ended
  <2>6. CASE g # f /\ g \notin StartsAt(f, p)
    <3>1. CASE begun[CallOf(g)][SideOf(g)] \cap Finishing # {}
      BY <2>2, <2>3, <2>6, <3>1
    <3>2. CASE begun[CallOf(g)][SideOf(g)] \cap Finishing = {}
      <4>1. CallOf(g) = CallOf(f) /\ SideOf(g) = SideOf(f) /\ M \cap Finishing # {}
        BY <1>5, <2>2, <3>2
      <4> QED BY <1>4, <2>2, <2>6, <4>1, PeersFinal
    <3> QED BY <3>1, <3>2
  <2> QED BY <2>4, <2>5, <2>6
<1>6. ASSUME NEW c \in CallsOf(example), calls'[c].status # "none"
      PROVE  begun'[c]["server"] \cap Finishing # {}
  <2>1. begun'[c]["server"] = IF c = CallOf(f) /\ "server" = SideOf(f)
                              THEN begun[c]["server"] \cup M ELSE begun[c]["server"]
    <3>1. "server" \in Sides
      BY DEF Sides
    <3> QED BY <3>1, MovesBegins
  <2>2. calls[c].status # "none" => begun[c]["server"] \cap Finishing # {}
    BY <1>1 DEF FinishInvariant
  <2>3. calls'[c] = IF c = CallOf(f) THEN u ELSE calls[c]
    BY MovesFacts
  <2>4. CASE calls[c].status # "none"
    <3> HIDE DEF M
    <3> QED BY <2>1, <2>2, <2>4
  <2>5. CASE calls[c].status = "none"
    <3>1. c = CallOf(f) /\ u.status # s.status
      BY <1>1, <1>2, <1>6, <2>3, <2>5, OutcomeCall
    <3>2. SideOf(f) = "server" /\ Act(e, p) \in Finishing /\ p \notin Ended
      <4>1. Initiates(SideOf(f), Act(e, p), s, u) /\ p \notin Ended
        BY <3>1, MovesFacts DEF Moves
      <4> QED BY <3>1, <4>1 DEF Initiates
    <3>3. Act(e, p) \in AwaitsAt(p)
      <4>1. e # "AsyncUnary" /\ p \in Points
        BY <1>2, <1>3, <3>2
      <4>2. CASE p \in {"ping_pong", "deadline"}
        BY <3>2, <4>1, <4>2 DEF Act, Finishing
      <4>3. CASE p \notin {"ping_pong", "deadline"}
        BY <3>2, <4>1, <4>3, SoleAwaited DEF Act, AwaitsAt
      <4> QED BY <4>2, <4>3
    <3>4. Act(e, p) \in RpcMethods
      BY <3>2, RpcMethodsList DEF Finishing
    <3>5. Act(e, p) \in M
      BY <3>3, <3>4
    <3> HIDE DEF M
    <3> QED BY <2>1, <3>1, <3>2, <3>5
  <2> QED BY <2>4, <2>5
<1> QED BY <1>1, <1>5, <1>6 DEF FinishInvariant, Frames, CallOf, SideOf

(* After its stream is closed a client does not write.                      *)
LEMMA MovesClosed ==
    ASSUME ProgramInvariant, NEW f \in Frames, NEW fn, NEW r, NEW s, NEW p, NEW e, NEW u,
           Moves(f, fn, r, s, p, e, u)
    PROVE  ClosedInvariant'
<1> DEFINE M == (AwaitsAt(p) \cup {e}) \cap RpcMethods
<1>1. /\ TypeInvariant /\ ClosedInvariant /\ CallInvariant /\ example' = example
      /\ example \in DOMAIN Programs
      /\ SideOf(f) \in Sides /\ CallOf(f) \in CallsOf(example)
  BY FrameFacts DEF ProgramInvariant, Moves, TypeInvariant
<1>2. SUFFICES ASSUME NEW g \in Frames, SideOf(g) = "client",
                      \/ calls'[CallOf(g)].half_closed
                      \/ begun'[CallOf(g)]["client"] \cap Closing # {}
      PROVE  at'[g] \in ClosedPoints(KindOf(CallOf(g))) \cup Ended
  BY <1>1 DEF ClosedInvariant, Frames, CallOf, SideOf
<1>3. CallOf(g) \in CallsOf(example)
  BY <1>1, FrameFacts
<1>4. /\ calls'[CallOf(g)] = IF CallOf(g) = CallOf(f) THEN u ELSE calls[CallOf(g)]
      /\ at'[g] = IF g = f THEN p ELSE IF g \in StartsAt(f, p) THEN "start" ELSE at[g]
      /\ begun'[CallOf(g)]["client"] = IF CallOf(g) = CallOf(f) /\ "client" = SideOf(f)
                              THEN begun[CallOf(g)]["client"] \cup M
                              ELSE begun[CallOf(g)]["client"]
  <2>1. at'[g] = IF g = f THEN p ELSE IF g \in StartsAt(f, p) THEN "start" ELSE at[g]
    BY DEF Moves
  <2>2. begun'[CallOf(g)]["client"] = IF CallOf(g) = CallOf(f) /\ "client" = SideOf(f)
                              THEN begun[CallOf(g)]["client"] \cup M
                              ELSE begun[CallOf(g)]["client"]
    <3>1. "client" \in Sides
      BY DEF Sides
    <3> QED BY <1>3, <3>1, MovesBegins
  <2> HIDE DEF M
  <2> QED BY <1>3, <2>1, <2>2, MovesFacts
<1>5. (calls[CallOf(g)].half_closed \/ begun[CallOf(g)]["client"] \cap Closing # {})
        => at[g] \in ClosedPoints(KindOf(CallOf(g))) \cup Ended
  BY <1>1, <1>2 DEF ClosedInvariant
<1>6. s.half_closed = calls[CallOf(f)].half_closed /\ s.kind = KindOf(CallOf(f))
  BY <1>1, OutcomeCall DEF Moves
<1>7. CASE g = f
  <2>1. ClientEdge(CallOf(f), at[f], Combined(f, fn, r), p, e) /\ at[f] \notin Resting
    <3>1. Edge(example, f, SideOf(f), CallOf(f), at[f], Combined(f, fn, r), p, e)
      BY DEF Moves
    <3> QED BY <1>2, <1>7, <3>1, MovesFacts DEF Edge
  <2>2. CASE at[f] \in ClosedPoints(KindOf(CallOf(f)))
    BY <1>4, <1>7, <2>1, <2>2 DEF ClientEdge, ClosedPoints
  <2>3. CASE at[f] \notin ClosedPoints(KindOf(CallOf(f)))
    <3>1. ~s.half_closed /\ begun[CallOf(f)]["client"] \cap Closing = {}
      BY <1>5, <1>6, <1>7, <2>1, <2>3 DEF Resting
    <3>2. u.half_closed \/ M \cap Closing # {}
      <4> HIDE DEF M
      <4> QED BY <1>2, <1>4, <1>7, <3>1
    <3>3. CASE p \in Ended
      BY <1>4, <1>7, <3>3
    <3>4. CASE p \notin Ended
      <4>1. p \in Points
        BY <3>4, MovesFacts
      <4>2. CASE M \cap Closing # {}
        BY <1>4, <1>7, <2>1, <4>1, <4>2
           DEF ClientEdge, AwaitsAt, AwaitAt, Points, Joins, Closing, ClosedPoints
      <4>3. CASE M \cap Closing = {}
        <5>1. Act(e, p) \in Closing \cup (IF s.kind \in Multi THEN Opening ELSE {})
          BY <3>1, <3>2, <3>4, <4>3, MovesFacts DEF Initiates
        <5>2. CASE e = "AsyncUnary"
          BY <1>4, <1>7, <2>1, <5>2 DEF ClientEdge, ClosedPoints, Multi,
             ServerMultiArgRequestInitFunction
        <5>3. CASE e # "AsyncUnary"
          <6>1. Act(e, p) \in AwaitAt(p)
            <7>1. CASE p \in {"ping_pong", "deadline"}
              BY <5>3, <7>1 DEF Act, AwaitAt
            <7>2. CASE p \notin {"ping_pong", "deadline"}
              BY <4>1, <5>3, <7>2, SoleAwaited DEF Act
            <7> QED BY <7>1, <7>2
          <6>2. p \in {"writes_done", "write_last"} \/ (p = "request" /\ s.kind \in Multi)
            <7> DEFINE a == Act(e, p)
            <7>1. a \in AwaitAt(p) /\ a \in Closing \cup (IF s.kind \in Multi THEN Opening ELSE {})
              BY <5>1, <6>1
            <7> HIDE DEF a
            <7> QED BY <4>1, <7>1 DEF AwaitAt, Points, Joins, Closing, Opening
          <6> QED BY <1>4, <1>6, <1>7, <6>2 DEF ClosedPoints
        <5> QED BY <5>2, <5>3
      <4> QED BY <4>2, <4>3
    <3> QED BY <3>3, <3>4
  <2> QED BY <2>2, <2>3
<1>8. CASE g # f
  <2>1. ~(CallOf(g) = CallOf(f) /\ SideOf(f) = "client")
    BY <1>1, <1>2, <1>8, SidesAndCalls DEF SideOf, CallOf, Frames
  <2>2. begun'[CallOf(g)]["client"] = begun[CallOf(g)]["client"]
    BY <1>4, <2>1
  <2>3. calls'[CallOf(g)].half_closed => calls[CallOf(g)].half_closed
    <3>1. CASE CallOf(g) = CallOf(f)
      <4>1. SideOf(f) = "server"
        BY <1>1, <2>1, <3>1 DEF Sides
      <4>2. u.half_closed = s.half_closed
        BY <4>1, MovesFacts DEF Initiates
      <4> QED BY <1>4, <1>6, <3>1, <4>2
    <3>2. CASE CallOf(g) # CallOf(f)
      BY <1>4, <3>2
    <3> QED BY <3>1, <3>2
  <2>4. at[g] \in ClosedPoints(KindOf(CallOf(g))) \cup Ended
    BY <1>2, <1>5, <2>2, <2>3
  <2>5. g \notin StartsAt(f, p)
    <3>1. at[g] # "idle"
      BY <2>4 DEF ClosedPoints, Ended
    <3> QED BY <3>1, StartedFresh
  <2> QED BY <1>4, <1>8, <2>4, <2>5
<1> QED BY <1>7, <1>8

(* Servers know that they have accepted their calls.                        *)
LEMMA MovesAccept ==
    ASSUME ProgramInvariant, NEW f \in Frames, NEW fn, NEW r, NEW s, NEW p, NEW e, NEW u,
           Moves(f, fn, r, s, p, e, u)
    PROVE  AcceptInvariant'
<1>1. /\ TypeInvariant /\ AcceptInvariant /\ CallInvariant /\ example' = example
      /\ example \in DOMAIN Programs
      /\ SideOf(f) \in Sides /\ CallOf(f) \in CallsOf(example)
  BY FrameFacts DEF ProgramInvariant, Moves, TypeInvariant
<1>2. SUFFICES ASSUME NEW g \in Frames, SideOf(g) = "server"
      PROVE  /\ CallOf(g) # "never" =>
                  at'[g] \in Resting \cup {"request"} \/ calls'[CallOf(g)].accepted
             /\ at'[g] \in ReadyPoints(g) => ReadAll(calls'[CallOf(g)])
  BY <1>1 DEF AcceptInvariant, Frames, CallOf, SideOf
<1>3. CallOf(g) \in CallsOf(example)
  BY <1>1, FrameFacts
<1>4. /\ calls'[CallOf(g)] = IF CallOf(g) = CallOf(f) THEN u ELSE calls[CallOf(g)]
      /\ at'[g] = IF g = f THEN p ELSE IF g \in StartsAt(f, p) THEN "start" ELSE at[g]
  <2>1. at'[g] = IF g = f THEN p ELSE IF g \in StartsAt(f, p) THEN "start" ELSE at[g]
    BY DEF Moves
  <2> QED BY <1>3, <2>1, MovesFacts
<1>5. /\ CallStep(s, u) /\ CallStep(calls[CallOf(f)], u)
      /\ fn \in pending[f] /\ Outcome(f, fn, r, s)
      /\ Edge(example, f, SideOf(f), CallOf(f), at[f], Combined(f, fn, r), p, e)
  <2>1. /\ Outcome(f, fn, r, s)
        /\ Edge(example, f, SideOf(f), CallOf(f), at[f], Combined(f, fn, r), p, e)
    BY DEF Moves
  <2> QED BY <2>1, MovesFacts
<1>6. \A t, v : CallStep(t, v) => /\ t.accepted => v.accepted
                                  /\ ReadAll(t) => ReadAll(v)
  BY DEF CallStep, ReadAll, Dead
<1>7. CASE g = f
  <2>1. ASSUME CallOf(f) # "never", p \notin Resting \cup {"request"}
        PROVE  u.accepted
    <3>1. s.accepted
      BY <1>2, <1>5, <1>7, <2>1, Accepted DEF Resting
    <3> QED BY <1>5, <1>6, <3>1
  <2>2. p \in ReadyPoints(f) => ReadAll(u)
    BY <1>2, <1>5, <1>6, <1>7, Ready
  <2> QED BY <1>4, <1>7, <2>1, <2>2
<1>8. CASE g # f /\ g \in StartsAt(f, p)
  <2>1. /\ SideOf(f) = "server" /\ CallOf(g) \in {CallOf(f), "never"}
        /\ p \notin Ended
    BY <1>2, <1>8, StartedFresh
  <2>2. ASSUME CallOf(g) # "never" PROVE calls'[CallOf(g)].accepted
    <3>1. s.accepted
      BY <1>5, <2>1, <2>2, Accepted
    <3> QED BY <1>4, <1>5, <1>6, <2>1, <2>2, <3>1
  <2>3. "start" \notin ReadyPoints(g)
    BY DEF ReadyPoints
  <2> QED BY <1>4, <1>8, <2>2, <2>3
<1>9. CASE g # f /\ g \notin StartsAt(f, p)
  BY <1>1, <1>2, <1>4, <1>5, <1>6, <1>9 DEF AcceptInvariant
<1> QED BY <1>7, <1>8, <1>9

(* A coroutine that moves preserves the invariant.                          *)
LEMMA MovesProgram ==
    ASSUME ProgramInvariant, NEW f \in Frames, NEW fn, NEW r, NEW s, NEW p, NEW e, NEW u,
           Moves(f, fn, r, s, p, e, u)
    PROVE  ProgramInvariant'
<1>1. shutdown' # "no" => example' \in Streaming
  <2>1. TypeInvariant /\ SideOf(f) \in Sides /\ (shutdown # "no" => example \in Streaming)
    BY FrameFacts DEF ProgramInvariant
  <2>2. e = "shutdown" => example \in Streaming
    BY <2>1 DEF Moves, Edge, ServerEdge, ClientEdge, Sides
  <2> QED BY <2>1, <2>2 DEF Moves
<1> QED BY <1>1, MovesType, MovesControl, MovesFamily, MovesCall, MovesFinish,
           MovesClosed, MovesAccept DEF ProgramInvariant

(* The steps that do not resume a coroutine change calls only in this way.  *)
CallsAdvance ==
    \A c \in CallsOf(example) :
        /\ CallOK(calls'[c]) /\ CallStep(calls[c], calls'[c])
        /\ calls'[c].status = calls[c].status
        /\ calls'[c].half_closed = calls[c].half_closed

ClientsAbort ==
    /\ at' = [g \in Frames |-> IF SideOf(g) = "client" THEN "aborted" ELSE at[g]]
    /\ pending' = [g \in Frames |-> IF SideOf(g) = "client" THEN {} ELSE pending[g]]

(* Such a step preserves the invariant if the coroutines stay where they    *)
(* are or the client aborts.                                                *)
LEMMA StaysProgram ==
    ASSUME ProgramInvariant, example' = example, begun' = begun, CallsAdvance,
           UNCHANGED at \/ ClientsAbort, TypeInvariant', ControlInvariant',
           shutdown' # "no" => shutdown # "no"
    PROVE  ProgramInvariant'
<1>1. /\ TypeInvariant /\ ControlInvariant /\ FamilyInvariant /\ CallInvariant
      /\ FinishInvariant /\ ClosedInvariant /\ AcceptInvariant
      /\ shutdown # "no" => example \in Streaming
  BY DEF ProgramInvariant
<1>2. /\ \A g \in Frames : at'[g] = at[g] \/ (at'[g] = "aborted" /\ SideOf(g) = "client")
      /\ \A g, h \in Frames : SideOf(g) = SideOf(h) =>
            (at'[g] = at[g] /\ at'[h] = at[h]) \/ (at'[g] = "aborted" /\ at'[h] = "aborted")
  BY DEF ClientsAbort
<1>3. \A g \in Frames : CallOf(g) \in CallsOf(example) /\ SideOf(g) \in Sides
  BY <1>1, FrameFacts
<1>4. FamilyInvariant'
  <2>1. SUFFICES ASSUME NEW h \in Frames, NEW l \in PointsOf(h), NEW g \in TableOf(h)[l].starts
        PROVE  /\ Rank(at'[h]) < Rank(l) => at'[g] = "idle"
               /\ at'[g] \notin Resting => at'[h] = l
    BY DEF FamilyInvariant, Frames, PointsOf, TableOf
  <2>2. g \in Frames /\ SideOf(g) = SideOf(h) /\ l \in Joins
    <3>1. FrameOK(example, h) /\ TableOK(example, h, SideOf(h), CallOf(h), TableOf(h))
      BY <1>1, FrameFacts
    <3> QED BY <3>1 DEF FrameOK, StartsOK, TableOK, PointsOf, TableOf, SideOf, Frames
  <2>3. CASE at'[g] = at[g] /\ at'[h] = at[h]
    BY <1>1, <2>3 DEF FamilyInvariant
  <2>4. CASE at'[g] = "aborted" /\ at'[h] = "aborted"
    <3>1. ~(Rank("aborted") < Rank(l)) /\ "aborted" \in Resting
      BY <2>2 DEF Rank, Joins, Resting, Ended
    <3> QED BY <2>4, <3>1
  <2> QED BY <1>2, <2>2, <2>3, <2>4
<1>5. CallInvariant'
  BY <1>1 DEF CallInvariant, CallsAdvance, CallStep
<1>6. FinishInvariant'
  <2>1. ASSUME NEW g \in Frames, begun[CallOf(g)][SideOf(g)] \cap Finishing # {}
        PROVE  at'[g] \in FinalPoints
    BY <1>1, <1>2, <2>1 DEF FinishInvariant, FinalPoints, Ended
  <2>2. ASSUME NEW c \in CallsOf(example), calls'[c].status # "none"
        PROVE  begun[c]["server"] \cap Finishing # {}
    BY <1>1, <2>2 DEF FinishInvariant, CallsAdvance
  <2> QED BY <2>1, <2>2 DEF FinishInvariant, Frames, CallOf, SideOf
<1>7. ClosedInvariant'
  <2>1. SUFFICES ASSUME NEW g \in Frames, SideOf(g) = "client",
                        \/ calls'[CallOf(g)].half_closed
                        \/ begun[CallOf(g)]["client"] \cap Closing # {}
        PROVE  at'[g] \in ClosedPoints(KindOf(CallOf(g))) \cup Ended
    BY DEF ClosedInvariant, Frames, CallOf, SideOf
  <2>2. calls'[CallOf(g)].half_closed = calls[CallOf(g)].half_closed
    BY <1>3 DEF CallsAdvance
  <2> QED BY <1>1, <1>2, <2>1, <2>2 DEF ClosedInvariant, Ended
<1>8. AcceptInvariant'
  <2>1. SUFFICES ASSUME NEW g \in Frames, SideOf(g) = "server"
        PROVE  /\ CallOf(g) # "never" =>
                    at'[g] \in Resting \cup {"request"} \/ calls'[CallOf(g)].accepted
               /\ at'[g] \in ReadyPoints(g) => ReadAll(calls'[CallOf(g)])
    BY DEF AcceptInvariant, Frames, CallOf, SideOf
  <2>2. at'[g] = at[g]
    BY <1>2, <2>1
  <2>3. CallStep(calls[CallOf(g)], calls'[CallOf(g)])
    BY <1>3 DEF CallsAdvance
  <2>4. /\ calls[CallOf(g)].accepted => calls'[CallOf(g)].accepted
        /\ ReadAll(calls[CallOf(g)]) => ReadAll(calls'[CallOf(g)])
    BY <2>3 DEF CallStep, ReadAll, Dead
  <2> QED BY <1>1, <2>1, <2>2, <2>4 DEF AcceptInvariant
<1> QED BY <1>1, <1>4, <1>5, <1>6, <1>7, <1>8 DEF ProgramInvariant

(* One of the two operations that f awaits has been completed with r.       *)
Part(f, fn, r, s) ==
    /\ Outcome(f, fn, r, s)
    /\ at[f] \in {"ping_pong", "deadline"} /\ pending[f] \ {fn} # {}
    /\ pending' = [pending EXCEPT ![f] = @ \ {fn}]
    /\ result' = [result EXCEPT ![f] = Combined(f, fn, r)]
    /\ message' = [message EXCEPT ![f] = Got(f, fn, r, s)]
    /\ RunWithDeadline(f, fn, r, s)
    /\ UNCHANGED <<example, at, rounds, begun, channel, shutdown, threads, signalled, failed>>

(* What CompletePart does.                                                  *)
LEMMA CompletePartIs ==
    ASSUME ProgramInvariant, NEW f \in Frames, NEW fn \in pending[f], CompletePart(f, fn)
    PROVE  \E r, s : Part(f, fn, r, s)
<1>1. TypeInvariant /\ ControlInvariant /\ CallInvariant
  BY DEF ProgramInvariant
<1>2. PICK o \in ResultsOf(f, fn) :
        /\ ~Resumes(f, pending[f] \ {fn})
        /\ pending' = [pending EXCEPT ![f] = @ \ {fn}]
        /\ result' = [result EXCEPT ![f] = Combined(f, fn, o[1])]
        /\ message' = [message EXCEPT ![f] = Got(f, fn, o[1], o[2])]
        /\ RunWithDeadline(f, fn, o[1], o[2])
        /\ UNCHANGED <<example, at, rounds, begun, channel, shutdown,
                       threads, signalled, failed>>
  BY DEF CompletePart
<1>3. Outcome(f, fn, o[1], o[2])
  BY <1>1, OutcomeOf
<1>4. pending[f] \ {fn} # {}
  BY <1>2 DEF Resumes
<1>5. at[f] \in {"ping_pong", "deadline"}
  <2>1. at[f] # "start"
    BY <1>1, <1>4, PendingMethods DEF ControlInvariant
  <2>2. at[f] \in LiveAt(f) /\ pending[f] \subseteq AwaitAt(at[f])
    BY <1>1, <2>1, PendingMethods DEF ControlInvariant
  <2>3. at[f] \in Points
    BY <1>1, <2>2, FrameFacts DEF LiveAt, Live, TableOK
  <2> QED BY <1>4, <2>2, <2>3, SoleAwaited
<1> QED BY <1>2, <1>3, <1>4, <1>5 DEF Part

(* What it does to the call.                                                *)
LEMMA PartCall ==
    ASSUME ProgramInvariant, NEW f \in Frames, NEW fn \in pending[f], NEW r, NEW s,
           Part(f, fn, r, s)
    PROVE  /\ calls' \in [CallsOf(example) -> CallRecord]
           /\ \A c \in CallsOf(example) : c # CallOf(f) => calls'[c] = calls[c]
           /\ calls'[CallOf(f)] =
                IF fn = "wait" /\ r = "true" /\ "Finish" \in pending[f]
                THEN Kill(s, "CANCELLED") ELSE s
           /\ CallsAdvance
<1>1. /\ TypeInvariant /\ CallInvariant /\ Outcome(f, fn, r, s)
      /\ CallOf(f) \in CallsOf(example)
  BY FrameFacts DEF ProgramInvariant, Part
<1> DEFINE u == IF fn = "wait" /\ r = "true" /\ "Finish" \in pending[f]
                THEN Kill(s, "CANCELLED") ELSE s
<1>2. /\ CallOK(s) /\ CallStep(calls[CallOf(f)], s)
      /\ s.status = calls[CallOf(f)].status
      /\ s.half_closed = calls[CallOf(f)].half_closed
  BY <1>1, OutcomeCall
<1>3. /\ CallOK(u) /\ CallStep(s, u) /\ u.status = s.status /\ u.half_closed = s.half_closed
  <2>1. CASE u = s
    BY <1>2, <2>1 DEF CallStep
  <2>2. CASE u = Kill(s, "CANCELLED")
    BY <1>2, <2>2, KillCall
  <2> QED BY <2>1, <2>2
<1>4. calls' = [calls EXCEPT ![CallOf(f)] = u]
  BY DEF Part, RunWithDeadline
<1> HIDE DEF u
<1>5. CallStep(calls[CallOf(f)], u)
  BY <1>2, <1>3 DEF CallStep, Dead
<1>6. u \in CallRecord
  BY <1>3 DEF CallOK
<1>7. /\ calls' \in [CallsOf(example) -> CallRecord]
      /\ \A c \in CallsOf(example) : calls'[c] = IF c = CallOf(f) THEN u ELSE calls[c]
  BY <1>1, <1>4, <1>6 DEF TypeInvariant
<1>8. CallsAdvance
  <2>1. \A c \in CallsOf(example) : CallOK(calls[c]) /\ CallStep(calls[c], calls[c])
    BY <1>1 DEF CallInvariant, CallStep
  <2> QED BY <1>2, <1>3, <1>5, <1>7, <2>1 DEF CallsAdvance
<1> QED BY <1>1, <1>7, <1>8 DEF u

(* It preserves the invariant.                                              *)
LEMMA PartProgram ==
    ASSUME ProgramInvariant, NEW f \in Frames, NEW fn \in pending[f], NEW r, NEW s,
           Part(f, fn, r, s)
    PROVE  ProgramInvariant'
<1>1. /\ TypeInvariant /\ ControlInvariant /\ CallInvariant /\ Outcome(f, fn, r, s)
      /\ example' = example
  BY DEF ProgramInvariant, Part
<1>2. calls' \in [CallsOf(example) -> CallRecord] /\ CallsAdvance
  BY PartCall
<1>3. TypeInvariant'
  <2>1. Combined(f, fn, r) \in Results
    BY <1>1 DEF Combined, TypeInvariant, Outcome
  <2>2. Got(f, fn, r, s) \in Nat
    BY <1>1, GotMessage
  <2>3. /\ result' \in [Frames -> Results] /\ message' \in [Frames -> Nat]
        /\ pending' \in [Frames -> SUBSET Awaitable]
    BY <1>1, <2>1, <2>2 DEF Part, TypeInvariant
  <2>4. cancelled' \in BOOLEAN
    BY <1>1 DEF Part, RunWithDeadline, TypeInvariant
  <2> QED BY <1>1, <1>2, <2>3, <2>4 DEF Part, TypeInvariant, Frames
<1>4. ControlInvariant'
  <2>1. SUFFICES ASSUME NEW g \in Frames
        PROVE  /\ at[g] \in Resting => pending'[g] = {}
               /\ at[g] = "start" => pending'[g] = {"start"}
               /\ at[g] \notin Resting \cup {"start"} =>
                    /\ at[g] \in LiveAt(g) /\ pending'[g] # {}
                    /\ pending'[g] \subseteq AwaitAt(at[g])
               /\ at[g] \notin {"ping_pong", "deadline", "aborted"} => result'[g] = "true"
               /\ SideOf(g) = "server" => at[g] # "aborted"
    BY DEF ControlInvariant, Frames, LiveAt, SideOf, CallOf, TableOf, Part
  <2>2. /\ pending'[g] = IF g = f THEN pending[f] \ {fn} ELSE pending[g]
        /\ g # f => result'[g] = result[g]
        /\ at[f] \in {"ping_pong", "deadline"} /\ pending[f] \ {fn} # {}
    BY <1>1 DEF Part, TypeInvariant
  <2> QED BY <1>1, <2>2 DEF ControlInvariant, Resting, Ended
<1> QED BY <1>2, <1>3, <1>4, StaysProgram DEF Part

(* A call that fails is a step of it.                                       *)
LEMMA KillAdvances ==
    ASSUME NEW s, CallOK(s), NEW why \in {"CANCELLED", "ERROR"}, NEW t, t = Kill(s, why)
    PROVE  /\ CallOK(t) /\ CallStep(s, t) /\ t \in CallRecord
           /\ t.status = s.status /\ t.half_closed = s.half_closed
<1>1. CallOK(t) /\ CallStep(s, t) /\ t.status = s.status /\ t.half_closed = s.half_closed
  BY KillCall
<1> QED BY <1>1 DEF CallOK

(* The client aborts.                                                       *)
LEMMA AbortProgram ==
    ASSUME ProgramInvariant, NEW f \in Frames, NEW fn \in pending[f], AbortClient(f, fn)
    PROVE  ProgramInvariant'
<1>1. /\ TypeInvariant /\ ControlInvariant /\ CallInvariant /\ example' = example
  BY DEF ProgramInvariant, AbortClient
<1>2. /\ calls' = [c \in CallsOf(example) |-> Kill(calls[c], "ERROR")]
      /\ ClientsAbort
      /\ UNCHANGED <<result, rounds, message, begun, channel, cancelled, shutdown,
                     threads, signalled, failed>>
  BY <1>1 DEF AbortClient, ClientsAbort, TypeInvariant
<1>3. CallsAdvance /\ calls' \in [CallsOf(example) -> CallRecord]
  <2>1. ASSUME NEW c \in CallsOf(example)
        PROVE  /\ CallOK(calls'[c]) /\ CallStep(calls[c], calls'[c]) /\ calls'[c] \in CallRecord
               /\ calls'[c].status = calls[c].status
               /\ calls'[c].half_closed = calls[c].half_closed
    <3>1. CallOK(calls[c]) /\ calls'[c] = Kill(calls[c], "ERROR")
      BY <1>1, <1>2 DEF CallInvariant
    <3> QED BY <3>1, KillAdvances
  <2> QED BY <1>2, <2>1 DEF CallsAdvance
<1>4. TypeInvariant'
  <2>1. /\ at' \in [Frames -> Points \cup Ended \cup {"idle", "start"}]
        /\ pending' \in [Frames -> SUBSET Awaitable]
    BY <1>1, <1>2 DEF ClientsAbort, TypeInvariant, Ended
  <2> QED BY <1>1, <1>2, <1>3, <2>1 DEF TypeInvariant, Frames
<1>5. ControlInvariant'
  <2>1. SUFFICES ASSUME NEW g \in Frames
        PROVE  /\ at'[g] \in Resting => pending'[g] = {}
               /\ at'[g] = "start" => pending'[g] = {"start"}
               /\ at'[g] \notin Resting \cup {"start"} =>
                    /\ at'[g] \in LiveAt(g) /\ pending'[g] # {}
                    /\ pending'[g] \subseteq AwaitAt(at'[g])
               /\ at'[g] \notin {"ping_pong", "deadline", "aborted"} => result[g] = "true"
               /\ SideOf(g) = "server" => at'[g] # "aborted"
    BY <1>1, <1>2 DEF ControlInvariant, Frames, LiveAt, SideOf, CallOf, TableOf
  <2>2. CASE SideOf(g) = "client"
    BY <1>2, <2>2 DEF ClientsAbort, Resting, Ended
  <2>3. CASE SideOf(g) # "client"
    BY <1>1, <1>2, <2>3 DEF ClientsAbort, ControlInvariant
  <2> QED BY <2>2, <2>3
<1> QED BY <1>1, <1>2, <1>3, <1>4, <1>5, StaysProgram

(* The steps of the shutdown thread, of the channel and of the signal.      *)
LEMMA OtherProgram ==
    ASSUME ProgramInvariant,
           \/ CancelSignals \/ ShutdownServer \/ Signal
           \/ \E c \in DOMAIN calls : RefuseCall(c) \/ CallFails(c)
           \/ UNCHANGED vars
    PROVE  ProgramInvariant'
<1>1. /\ TypeInvariant /\ ControlInvariant /\ CallInvariant
      /\ UNCHANGED <<example, at, pending, result, rounds, message, begun, channel,
                     cancelled, threads>>
      /\ signalled' \in BOOLEAN /\ failed' \in BOOLEAN
      /\ shutdown' \in {"no", "thread", "cancelled", "shut_down"}
      /\ shutdown' # "no" => shutdown # "no"
  BY DEF ProgramInvariant, TypeInvariant, CancelSignals, ShutdownServer, Signal,
     RefuseCall, CallFails, vars
<1>2. CallsAdvance /\ calls' \in [CallsOf(example) -> CallRecord]
  <2>0. /\ calls \in [CallsOf(example) -> CallRecord]
        /\ \A c \in CallsOf(example) : CallOK(calls[c]) /\ CallStep(calls[c], calls[c])
    BY <1>1 DEF CallInvariant, CallStep, TypeInvariant
  <2>1. CASE UNCHANGED calls
    BY <2>0, <2>1 DEF CallsAdvance
  <2>2. CASE \E c \in DOMAIN calls : RefuseCall(c) \/ CallFails(c)
    <3>1. PICK c \in CallsOf(example) : calls' = [calls EXCEPT ![c] = Kill(@, "ERROR")]
      BY <2>0, <2>2 DEF RefuseCall, CallFails
    <3>2. \A k \in CallsOf(example) : calls'[k] = IF k = c THEN Kill(calls[c], "ERROR") ELSE calls[k]
      BY <2>0, <3>1
    <3>3. /\ CallOK(calls'[c]) /\ CallStep(calls[c], calls'[c]) /\ calls'[c] \in CallRecord
          /\ calls'[c].status = calls[c].status
          /\ calls'[c].half_closed = calls[c].half_closed
      BY <2>0, <3>2, KillAdvances
    <3> QED BY <2>0, <3>1, <3>2, <3>3 DEF CallsAdvance
  <2> QED BY <2>1, <2>2 DEF CancelSignals, ShutdownServer, Signal, vars
<1>3. TypeInvariant'
  BY <1>1, <1>2 DEF TypeInvariant, Frames
<1>4. ControlInvariant'
  BY <1>1 DEF ControlInvariant, Frames, LiveAt, SideOf, CallOf, TableOf
<1> QED BY <1>1, <1>2, <1>3, <1>4, StaysProgram

(* Every step preserves the invariant.                                      *)
LEMMA NextProgram ==
    ASSUME ProgramInvariant, [Next]_vars
    PROVE  ProgramInvariant'
<1>1. ASSUME NEW f \in Frames, Step(f) PROVE ProgramInvariant'
  <2>1. PICK fn \in pending[f] : CompletePart(f, fn) \/ Resume(f, fn) \/ AbortClient(f, fn)
    BY <1>1 DEF Step
  <2>2. CASE CompletePart(f, fn)
    BY <2>2, CompletePartIs, PartProgram
  <2>3. CASE Resume(f, fn)
    BY <2>3, ResumeMoves, MovesProgram
  <2>4. CASE AbortClient(f, fn)
    BY <2>4, AbortProgram
  <2> QED BY <2>1, <2>2, <2>3, <2>4
<1>2. CASE \/ CancelSignals \/ ShutdownServer \/ Signal
           \/ \E c \in DOMAIN calls : RefuseCall(c) \/ CallFails(c)
           \/ UNCHANGED vars
  BY <1>2, OtherProgram
<1> QED BY <1>1, <1>2 DEF Next, Progress, Done

(* The first states.                                                        *)
LEMMA InitProgram ==
    ASSUME Init
    PROVE  ProgramInvariant
<1>1. /\ example \in DOMAIN Programs
      /\ calls = [c \in CallsOf(example) |-> NewCall(KindOf(c))]
      /\ begun = [c \in CallsOf(example) |-> [x \in Sides |-> {}]]
      /\ result = [f \in Frames |-> "true"]
      /\ shutdown = "no"
  BY DEF Init
<1>2. ASSUME NEW f \in Frames
      PROVE  /\ FrameOK(example, f)
             /\ TableOK(example, f, SideOf(f), CallOf(f), TableOf(f))
             /\ SideOf(f) \in Sides /\ CallOf(f) \in CallsOf(example)
             /\ KindOf(CallOf(f)) \in Kinds
  <2>1. FrameOK(example, f)
    BY <1>1, AllFramesOK DEF Frames
  <2>2. CallOf(f) \in CallsOf(example)
    BY DEF CallOf, CallsOf, Frames
  <2> QED BY <2>1, <2>2 DEF FrameOK, SideOf, CallOf, TableOf, KindOf, Kinds
<1>3. ASSUME NEW c \in CallsOf(example)
      PROVE  /\ CallOK(calls[c]) /\ calls[c].kind = KindOf(c) /\ calls[c] \in CallRecord
             /\ calls[c].status = "none" /\ ~calls[c].half_closed
  <2>1. PICK f \in Frames : c = CallOf(f)
    BY DEF CallsOf, Frames, CallOf
  <2>2. KindOf(c) \in Kinds
    BY <1>2, <2>1
  <2>3. calls[c] = NewCall(KindOf(c))
    BY <1>1
  <2>4. <<>> \in Seq(Nat) /\ Len(<<>>) = 0
    OBVIOUS
  <2>5. calls[c] \in CallRecord
    BY <2>2, <2>3, <2>4 DEF NewCall, CallRecord
  <2>6. CallOK(calls[c]) /\ calls[c].kind = KindOf(c) /\ calls[c].status = "none"
        /\ ~calls[c].half_closed
    BY <2>3, <2>4, <2>5 DEF NewCall, CallOK, Dead
  <2> QED BY <2>5, <2>6
<1>4. \A f \in Frames : at[f] = IF \E g \in Frames : f \in ChildrenOf(g) THEN "idle"
                                ELSE IF SideOf(f) = "client" THEN "start" ELSE FirstPoint(f)
  BY DEF Init
<1>5. ASSUME NEW f \in Frames
      PROVE  \/ at[f] = "idle" /\ \E g \in Frames : f \in ChildrenOf(g)
             \/ at[f] = "start" /\ SideOf(f) = "client"
             \/ /\ SideOf(f) = "server" /\ at[f] \in {"request", "signal"}
                /\ at[f] \in LiveAt(f) /\ (at[f] = "signal" => CallOf(f) = "never")
  <2>1. SUFFICES ASSUME ~\E g \in Frames : f \in ChildrenOf(g), SideOf(f) # "client"
                 PROVE  /\ SideOf(f) = "server" /\ at[f] \in {"request", "signal"}
                        /\ at[f] \in LiveAt(f) /\ (at[f] = "signal" => CallOf(f) = "never")
    BY <1>4
  <2>2. SideOf(f) = "server" /\ at[f] = FirstPoint(f)
    BY <1>2, <1>4, <2>1 DEF Sides
  <2>3. PICK p \in {"request", "signal"} : TableOf(f).start = Goto(p)
    <3>1. ~\E g \in Frames : \E l \in DOMAIN TableOf(g) \ {"start"} : f \in TableOf(g)[l].starts
      BY <2>1 DEF ChildrenOf, PointsOf
    <3> QED BY <1>1, <2>2, <3>1, ServersRequest DEF TableOf, Frames, SideOf
  <2>4. \E t : t \in Goto(p)
    BY DEF Goto, Target
  <2>5. PICK t \in TableOf(f).start : at[f] = t.point
    BY <2>2, <2>3, <2>4 DEF FirstPoint
  <2>6. at[f] = p
    BY <2>3, <2>5, Targets
  <2>7. /\ at[f] \in LiveAt(f)
        /\ Edge(example, f, SideOf(f), CallOf(f), "start", "true", at[f], t.effect)
    BY <1>2, <2>5 DEF TableOK, LiveAt
  <2> QED BY <2>2, <2>6, <2>7 DEF Edge, ServerEdge
<1>6. \A f \in Frames : pending[f] = IF at[f] = "idle" THEN {}
                                     ELSE IF at[f] = "start" THEN {"start"}
                                     ELSE TableOf(f)[at[f]].await
  BY DEF Init
<1>7. ASSUME NEW f \in Frames
      PROVE  pending[f] = IF at[f] = "idle" THEN {}
                          ELSE IF at[f] = "start" THEN {"start"} ELSE AwaitAt(at[f])
  <2>1. at[f] \in LiveAt(f) => TableOf(f)[at[f]].await = AwaitAt(at[f])
    BY <1>2 DEF LiveAt, Live, TableOK
  <2> QED BY <1>5, <1>6, <2>1
<1>8. TypeInvariant
  <2>1. calls \in [CallsOf(example) -> CallRecord]
    BY <1>1, <1>3
  <2>2. at \in [Frames -> Points \cup Ended \cup {"idle", "start"}]
    <3>1. \A f \in Frames : at[f] \in {"idle", "start", "request", "signal"}
      BY <1>5
    <3>2. at = [f \in Frames |-> at[f]]
      BY DEF Init
    <3> QED BY <3>1, <3>2 DEF Points
  <2>3. pending \in [Frames -> SUBSET Awaitable]
    <3>1. \A f \in Frames : pending[f] \subseteq {"start", "Request", "signal"}
      BY <1>5, <1>7 DEF AwaitAt
    <3>2. pending = [f \in Frames |-> pending[f]]
      BY DEF Init
    <3> QED BY <3>1, <3>2, RpcMethodsList DEF Awaitable
  <2>4. begun \in [CallsOf(example) -> [Sides -> SUBSET RpcMethods]]
    BY <1>1
  <2>5. /\ result \in [Frames -> Results] /\ message \in [Frames -> Nat]
        /\ rounds \in [Frames -> 0 .. Rounds]
    BY RoundsAssumption DEF Init, Results
  <2>6. channel \in [queue : Seq(Nat), closed : BOOLEAN]
    <3>1. <<>> \in Seq(Nat)
      OBVIOUS
    <3> QED BY <3>1 DEF Init
  <2>7. /\ cancelled \in BOOLEAN /\ signalled \in BOOLEAN /\ failed \in BOOLEAN
        /\ shutdown \in {"no", "thread", "cancelled", "shut_down"} /\ threads \in 0 .. 1
    <3>1. cancelled \in BOOLEAN /\ signalled \in BOOLEAN /\ failed \in BOOLEAN
      BY Zenon DEF Init
    <3>2. threads \in 0 .. 1 /\ shutdown = "no"
      BY DEF Init
    <3> QED BY <3>1, <3>2
  <2> QED BY <1>1, <2>1, <2>2, <2>3, <2>4, <2>5, <2>6, <2>7 DEF TypeInvariant
<1>9. ControlInvariant
  BY <1>1, <1>5, <1>7 DEF ControlInvariant, Resting, Ended, AwaitAt
<1>10. FamilyInvariant
  <2>1. SUFFICES ASSUME NEW f \in Frames, NEW l \in PointsOf(f), NEW g \in TableOf(f)[l].starts
        PROVE  at[g] = "idle"
    BY DEF FamilyInvariant, Resting
  <2>2. g \in ChildrenOf(f)
    BY DEF ChildrenOf
  <2>3. g \in Frames
    BY <1>2 DEF FrameOK, StartsOK, PointsOf, TableOf, Frames
  <2> QED BY <1>4, <2>2, <2>3
<1>11. CallInvariant
  BY <1>3 DEF CallInvariant
<1>12. FinishInvariant /\ ClosedInvariant
  BY <1>1, <1>2, <1>3 DEF FinishInvariant, ClosedInvariant, Sides
<1>13. AcceptInvariant
  BY <1>5 DEF AcceptInvariant, Resting, ReadyPoints
<1> QED BY <1>1, <1>8, <1>9, <1>10, <1>11, <1>12, <1>13 DEF ProgramInvariant

(* The invariant holds in every behaviour.                                  *)
THEOREM ProgramInvariantAlways == Spec => []ProgramInvariant
<1>1. Init => ProgramInvariant
  BY InitProgram
<1>2. ProgramInvariant /\ [Next]_vars => ProgramInvariant'
  BY NextProgram
<1> QED BY <1>1, <1>2, PTL DEF Spec

(* Every variable has its type; ServerShutdown starts one thread.           *)
THEOREM TypeCorrect == Spec => []TypeOK
<1>1. ProgramInvariant => TypeOK
  <2>1. SUFFICES ASSUME ProgramInvariant PROVE TypeOK
    OBVIOUS
  <2>2. TypeInvariant /\ ControlInvariant /\ CallInvariant
    BY <2>1 DEF ProgramInvariant
  <2>3. ASSUME NEW c \in DOMAIN calls
        PROVE  /\ calls[c].up_read \in 0 .. Len(calls[c].up)
               /\ calls[c].down_read \in 0 .. Len(calls[c].down)
    <3>1. CallOK(calls[c])
      BY <2>2 DEF TypeInvariant, CallInvariant
    <3> QED BY <3>1 DEF CallOK, CallRecord
  <2>4. ASSUME NEW f \in Frames
        PROVE  at[f] \in Ended \cup {"idle", "start"} \cup PointsOf(f)
    BY <2>2 DEF ControlInvariant, Resting, LiveAt, Live, PointsOf
  <2> QED BY <2>2, <2>3, <2>4 DEF TypeInvariant, TypeOK
<1> QED BY <1>1, ProgramInvariantAlways, PTL

(* A coroutine that has ended leaves nothing behind that gRPC would         *)
(* complete.                                                                *)
THEOREM NoDanglingOperationAlways == Spec => []NoDanglingOperation
<1>1. ProgramInvariant => NoDanglingOperation
  <2>1. SUFFICES ASSUME ProgramInvariant, NEW f \in Frames, at[f] \in Ended
                 PROVE  /\ pending[f] = {}
                        /\ \A g \in ChildrenOf(f) : at[g] \in Ended \cup {"idle"}
    BY DEF NoDanglingOperation
  <2>2. TypeInvariant /\ ControlInvariant /\ FamilyInvariant
    BY <2>1 DEF ProgramInvariant
  <2>3. pending[f] = {}
    BY <2>1, <2>2 DEF ControlInvariant, Resting
  <2>4. ASSUME NEW g \in ChildrenOf(f) PROVE at[g] \in Ended \cup {"idle"}
    <3>1. PICK l \in PointsOf(f) : g \in TableOf(f)[l].starts
      BY DEF ChildrenOf
    <3>2. l \in Points
      BY <2>2, FrameFacts DEF TableOK, PointsOf
    <3>3. at[f] # l
      BY <2>1, <3>2 DEF Points, Joins, Ended
    <3> QED BY <2>2, <3>1, <3>3 DEF FamilyInvariant, Resting
  <2> QED BY <2>3, <2>4
<1> QED BY <1>1, ProgramInvariantAlways, PTL

-----------------------------------------------------------------------------
(* What the other coroutines of a call may have pending.                    *)

Beside(p) == IF p = "read" THEN {"Write"} ELSE IF p = "write" THEN {"Read"} ELSE {}

(* When a coroutine calls a method, the others that work on its call at its *)
(* side have nothing pending, except that reader reads while writer writes. *)
LEMMA PeersPending ==
    ASSUME ProgramInvariant, NEW f \in Frames, NEW fn, NEW r, NEW s, NEW p, NEW e, NEW u,
           Moves(f, fn, r, s, p, e, u), AwaitsAt(p) \cap RpcMethods # {},
           NEW g \in Frames, g # f, CallOf(g) = CallOf(f), SideOf(g) = SideOf(f)
    PROVE  pending'[g] \cap RpcMethods \subseteq Beside(p)
<1>1. /\ TypeInvariant /\ ControlInvariant /\ FamilyInvariant
      /\ example \in DOMAIN Programs
  BY DEF ProgramInvariant, TypeInvariant
<1>2. /\ SideOf(f) = "server"
      /\ \/ CallOf(f) = "never"
         \/ /\ example = "streaming_client_streaming"
            /\ f \in {"register_client_streaming_handler", "handle_client_streaming_request"}
            /\ g \in {"register_client_streaming_handler", "handle_client_streaming_request"}
         \/ /\ example = "streaming_bidirectional"
            /\ f \in {"handle_bidirectional_streaming_request", "reader", "writer"}
            /\ g \in {"handle_bidirectional_streaming_request", "reader", "writer"}
  BY <1>1, SidesAndCalls DEF SideOf, CallOf, Frames
<1>3. ServerEdge(example, CallOf(f), ReadyPoints(f), at[f], Combined(f, fn, r), p, e)
  BY <1>2 DEF Moves, Edge
<1>4. p \notin Ended /\ p \in Points
  <2>1. p \notin Ended
    BY DEF AwaitsAt
  <2> QED BY <2>1, MovesFacts
<1>5. /\ p \in PointsOf(f) /\ at[f] \notin Resting /\ fn \in pending[f]
      /\ at[f] = "start" \/ at[f] \in PointsOf(f)
  <2>1. p \in PointsOf(f) /\ at[f] \notin Resting /\ fn \in pending[f]
    BY <1>4, MovesFacts
  <2> QED BY <1>1, <2>1 DEF ControlInvariant, LiveAt, Live, PointsOf
<1>6. pending'[g] = {"start"} \/ pending'[g] = pending[g]
  BY DEF Moves
<1>7. SUFFICES pending[g] \cap RpcMethods \subseteq Beside(p)
  BY <1>6, RpcMethodsList
<1>8. /\ at[g] \in Resting => pending[g] = {}
      /\ at[g] = "start" => pending[g] = {"start"}
      /\ at[g] \notin Resting \cup {"start"} => at[g] \in PointsOf(g) /\ pending[g] \subseteq AwaitAt(at[g])
  BY <1>1 DEF ControlInvariant, LiveAt, Live, PointsOf
<1>9. SUFFICES ASSUME at[g] \in PointsOf(g), pending[g] \subseteq AwaitAt(at[g]), at[g] \notin Resting
               PROVE  pending[g] \cap RpcMethods \subseteq Beside(p)
  BY <1>8, RpcMethodsList
<1>10. CASE CallOf(f) = "never"
  <2>1. p = "request"
    <3>1. p # "signal"
      BY RpcMethodsList DEF AwaitsAt, AwaitAt, Ended
    <3> QED BY <1>3, <1>4, <1>10, <3>1 DEF ServerEdge
  <2>2. example \in Streaming
    <3>1. CallOf(g) = "never" /\ SideOf(g) = "server"
      BY <1>2, <1>10
    <3> QED BY <1>1, <1>10, ProgramNames, SidesOf, Frames_unifex, Frames_hello_world,
         Frames_share_io_context, Frames_unary, Frames_client_streaming,
         Frames_server_streaming, Frames_bidirectional DEF CallOf, Frames, Streaming
  <2>3. /\ f \in {"signals", "next_client_streaming_request"}
        /\ g \in {"signals", "next_client_streaming_request"}
        /\ TableOf("signals") = signals
    <3>1. CASE example = "streaming_client_streaming"
      BY <1>2, <1>10, <3>1, SidesOf, Frames_streaming_client_streaming
         DEF CallOf, SideOf, TableOf, Frames
    <3>2. CASE example = "streaming_bidirectional"
      BY <1>2, <1>10, <3>2, SidesOf, Frames_streaming_bidirectional
         DEF CallOf, SideOf, TableOf, Frames
    <3>3. CASE example = "streaming_slow_unary"
      BY <1>2, <1>10, <3>3, SidesOf, Frames_streaming_slow_unary
         DEF CallOf, SideOf, TableOf, Frames
    <3> QED BY <2>2, <3>1, <3>2, <3>3 DEF Streaming
  <2>4. DOMAIN signals = {"start", "signal"}
    BY DEF signals
  <2>5. g = "signals" /\ at[g] = "signal"
    BY <1>5, <1>9, <2>1, <2>3, <2>4 DEF PointsOf
  <2> QED BY <1>9, <2>5, RpcMethodsList DEF AwaitAt
<1>11. CASE CallOf(f) # "never" /\ example = "streaming_client_streaming"
  <2>1. /\ TableOf("register_client_streaming_handler") = register_client_streaming_handler
        /\ "register_client_streaming_handler" \in Frames
    BY <1>11, Frames_streaming_client_streaming, SidesOf DEF TableOf, Frames
  <2>2. /\ DOMAIN register_client_streaming_handler = {"start", "request", "handle"}
        /\ "handle_client_streaming_request" \in register_client_streaming_handler["handle"].starts
    BY Nodes DEF register_client_streaming_handler
  <2>3. at["handle_client_streaming_request"] \notin Resting =>
          at["register_client_streaming_handler"] = "handle"
    BY <1>1, <2>1, <2>2 DEF FamilyInvariant, PointsOf
  <2>4. at["register_client_streaming_handler"] = "handle"
    BY <1>2, <1>5, <1>9, <1>11, <2>3
  <2>5. f # "register_client_streaming_handler"
    BY <1>3, <1>4, <2>4 DEF ServerEdge, FinalPoints
  <2>6. AwaitAt(at[g]) = {"join"}
    BY <1>2, <1>11, <2>4, <2>5 DEF AwaitAt
  <2> QED BY <1>9, <2>6, RpcMethodsList
<1>12. CASE CallOf(f) # "never" /\ example = "streaming_bidirectional"
  <2>1. /\ TableOf("handle_bidirectional_streaming_request") = handle_bidirectional_streaming_request
        /\ TableOf("reader") = reader /\ TableOf("writer") = writer
        /\ "handle_bidirectional_streaming_request" \in Frames
    BY <1>12, Frames_streaming_bidirectional, SidesOf DEF TableOf, Frames
  <2>2. /\ DOMAIN handle_bidirectional_streaming_request = {"start", "request", "reader_and_writer", "finish"}
        /\ DOMAIN reader = {"start", "read"}
        /\ DOMAIN writer = {"start", "receive", "post", "write"}
        /\ handle_bidirectional_streaming_request["reader_and_writer"].starts = {"reader", "writer"}
    BY Nodes DEF handle_bidirectional_streaming_request, reader, writer
  <2>3. at["handle_bidirectional_streaming_request"] = "reader_and_writer"
    <3>1. \A k \in {"reader", "writer"} : at[k] \notin Resting =>
             at["handle_bidirectional_streaming_request"] = "reader_and_writer"
      BY <1>1, <2>1, <2>2 DEF FamilyInvariant, PointsOf
    <3>2. f \in {"reader", "writer"} \/ g \in {"reader", "writer"}
      BY <1>2, <1>12
    <3> QED BY <1>5, <1>9, <3>1, <3>2
  <2>4. f # "handle_bidirectional_streaming_request"
    <3>1. SUFFICES ASSUME f = "handle_bidirectional_streaming_request" PROVE FALSE
      OBVIOUS
    <3>2. fn = "join"
      BY <1>1, <1>5, <2>3, <3>1 DEF ControlInvariant, Resting, Ended, AwaitAt
    <3>3. g \in {"reader", "writer"}
      BY <1>2, <1>12, <3>1
    <3>4. at[g] \in Ended
      BY <2>1, <2>2, <2>3, <3>1, <3>2, <3>3 DEF Moves, Outcome
    <3> QED BY <1>9, <3>4 DEF Resting
  <2>5. CASE g = "handle_bidirectional_streaming_request"
    BY <1>9, <2>3, <2>5, RpcMethodsList DEF AwaitAt
  <2>6. CASE f = "reader" /\ g = "writer"
    <3>1. p = "read" /\ at[g] \in {"receive", "post", "write"}
      BY <1>5, <1>9, <2>1, <2>2, <2>6 DEF PointsOf
    <3> QED BY <1>9, <3>1, RpcMethodsList DEF AwaitAt, Beside
  <2>7. CASE f = "writer" /\ g = "reader"
    <3>1. p \in {"receive", "post", "write"} /\ at[g] = "read"
      BY <1>5, <1>9, <2>1, <2>2, <2>7 DEF PointsOf
    <3>2. p = "write"
      BY <3>1, RpcMethodsList DEF AwaitsAt, AwaitAt
    <3> QED BY <1>9, <3>1, <3>2, RpcMethodsList DEF AwaitAt, Beside
  <2> QED BY <1>2, <1>12, <2>4, <2>5, <2>6, <2>7
<1> QED BY <1>2, <1>10, <1>11, <1>12

(* What rpc.hpp demands when f goes to its next point after fn.             *)
Demanded(f, fn) ==
    LET new == IF at'[f] \in Ended THEN {}
               ELSE TableOf(f)[at'[f]].await \cap RpcMethods
        peers == {g \in Frames : CallOf(g) = CallOf(f) /\ SideOf(g) = SideOf(f)}
        others == RpcMethods
                  \cap ((UNION {pending'[g] : g \in peers \ {f}})
                        \cup (pending[f] \ {fn}))
        before == begun[CallOf(f)][SideOf(f)]
    IN new # {} =>
       /\ new \subseteq Methods(SideOf(f), calls[CallOf(f)].kind)
       /\ ~({"Read"} \subseteq new \cap others)
       /\ ~(new \cap Sending # {} /\ others \cap Sending # {})
       /\ (new \cup others) \cap Exclusive # {} => Cardinality(new) = 1 /\ others = {}
       /\ Finishing \cap before = {}
       /\ (SideOf(f) = "client" /\ before \cap {"WritesDone", "WriteLast"} # {})
             => new \cap Sending = {}

(* A coroutine that moves respects it.                                      *)
LEMMA MovesDemanded ==
    ASSUME ProgramInvariant, NEW f \in Frames, NEW fn, NEW r, NEW s, NEW p, NEW e, NEW u,
           Moves(f, fn, r, s, p, e, u)
    PROVE  Demanded(f, fn)
<1> DEFINE new == IF at'[f] \in Ended THEN {}
                  ELSE TableOf(f)[at'[f]].await \cap RpcMethods
           peers == {g \in Frames : CallOf(g) = CallOf(f) /\ SideOf(g) = SideOf(f)}
           others == RpcMethods
                  \cap ((UNION {pending'[g] : g \in peers \ {f}})
                        \cup (pending[f] \ {fn}))
           theirs == UNION {pending'[g] : g \in peers \ {f}}
           mine == pending[f] \ {fn}
           before == begun[CallOf(f)][SideOf(f)]
<1>1. /\ TypeInvariant /\ CallInvariant /\ FinishInvariant /\ ClosedInvariant
      /\ SideOf(f) \in Sides /\ CallOf(f) \in CallsOf(example)
      /\ calls[CallOf(f)].kind = KindOf(CallOf(f))
  BY FrameFacts DEF ProgramInvariant, CallInvariant
<1>2. /\ pending[f] = {fn}
      /\ Edge(example, f, SideOf(f), CallOf(f), at[f], Combined(f, fn, r), p, e)
      /\ p \in LiveAt(f) \cup Ended
  BY DEF Moves
<1>3. SUFFICES ASSUME new # {}
      PROVE  /\ new \subseteq Methods(SideOf(f), calls[CallOf(f)].kind)
             /\ ~({"Read"} \subseteq new \cap others)
             /\ ~(new \cap Sending # {} /\ others \cap Sending # {})
             /\ (new \cup others) \cap Exclusive # {} => Cardinality(new) = 1 /\ others = {}
             /\ Finishing \cap before = {}
             /\ (SideOf(f) = "client" /\ before \cap {"WritesDone", "WriteLast"} # {})
                  => new \cap Sending = {}
  BY DEF Demanded
<1>4. p \notin Ended /\ p \in Points /\ p \in LiveAt(f) /\ at[f] \notin Resting
      /\ new = AwaitAt(p) \cap RpcMethods
  <2>1. at'[f] = p
    BY <1>1 DEF Moves, TypeInvariant
  <2>2. p \notin Ended /\ p \in LiveAt(f) /\ new = TableOf(f)[p].await \cap RpcMethods
    BY <1>2, <1>3, <2>1
  <2>3. TableOK(example, f, SideOf(f), CallOf(f), TableOf(f))
    BY <1>1, FrameFacts
  <2>4. p \in DOMAIN TableOf(f) \ {"start"}
    BY <2>2 DEF LiveAt, Live
  <2>5. TableOf(f)[p].await = AwaitAt(p)
    BY <2>3, <2>4 DEF TableOK
  <2> HIDE DEF new
  <2> QED BY <2>2, <2>5, MovesFacts
<1>6. AwaitsAt(p) = AwaitAt(p) /\ AwaitsAt(p) \cap RpcMethods # {}
  BY <1>3, <1>4 DEF AwaitsAt
<1>7. \A g \in peers \ {f} : pending'[g] \cap RpcMethods \subseteq Beside(p)
  BY <1>6, PeersPending
<1>8. others \subseteq Beside(p)
  <2>0. others = RpcMethods \cap (theirs \cup mine) /\ mine = {}
    BY <1>2
  <2>1. others = RpcMethods \cap theirs
    <3> HIDE DEF others, theirs, mine
    <3> QED BY <2>0
  <2> SUFFICES ASSUME NEW a \in others PROVE a \in Beside(p)
    OBVIOUS
  <2>2. PICK g \in peers \ {f} : a \in pending'[g]
    BY <2>1
  <2> QED BY <1>7, <2>1, <2>2
<1>9. new \subseteq Methods(SideOf(f), calls[CallOf(f)].kind)
  <2> HIDE DEF new
  <2> QED BY <1>1, <1>4 DEF LiveAt, Live
<1>10. Finishing \cap before = {}
  <2>1. at[f] \notin FinalPoints
    BY <1>1, <1>2, <1>4 DEF Edge, ServerEdge, ClientEdge
  <2> QED BY <1>1, <2>1 DEF FinishInvariant
<1>11. (SideOf(f) = "client" /\ before \cap {"WritesDone", "WriteLast"} # {})
                  => new \cap Sending = {}
  <2>1. SUFFICES ASSUME SideOf(f) = "client", before \cap {"WritesDone", "WriteLast"} # {}
                 PROVE  new \cap Sending = {}
    OBVIOUS
  <2>2. at[f] \in ClosedPoints(KindOf(CallOf(f)))
    BY <1>1, <1>4, <2>1 DEF ClosedInvariant, Closing, Resting
  <2>3. p \in {"read", "finish", "read_initial_metadata"}
    BY <1>2, <1>4, <2>1, <2>2 DEF Edge, ClientEdge
  <2> HIDE DEF new
  <2> QED BY <1>4, <2>3 DEF AwaitAt, Sending
<1> HIDE DEF new, others
<1>12. CASE p = "ping_pong"
  <2>1. new \subseteq {"Read", "Write"} /\ others = {}
    BY <1>4, <1>8, <1>12 DEF AwaitAt, Beside
  <2> QED BY <1>9, <1>10, <1>11, <2>1 DEF Sending, Exclusive, Finishing
<1>13. CASE p \in {"read", "write"}
  <2>1. /\ p = "read" => new \subseteq {"Read"} /\ others \subseteq {"Write"}
        /\ p = "write" => new \subseteq {"Write"} /\ others \subseteq {"Read"}
    BY <1>4, <1>8, <1>13 DEF AwaitAt, Beside
  <2> QED BY <1>9, <1>10, <1>11, <1>13, <2>1 DEF Sending, Exclusive, Finishing
<1>14. CASE p \notin {"ping_pong", "read", "write"}
  <2>1. \E a : AwaitAt(p) \cap RpcMethods = {a}
    <3>1. CASE p = "deadline"
      BY <3>1, RpcMethodsList DEF AwaitAt
    <3>2. CASE p # "deadline"
      <4>1. AwaitAt(p) = {Sole(p)}
        BY <1>4, <1>14, <3>2, SoleAwaited
      <4> QED BY <1>3, <1>4, <4>1
    <3> QED BY <3>1, <3>2
  <2>2. PICK a : AwaitAt(p) \cap RpcMethods = {a}
    BY <2>1
  <2>3. new = {a} /\ others = {}
    BY <1>4, <1>8, <1>14, <2>2 DEF Beside
  <2>4. Cardinality(new) = 1
    BY <2>3, FS_Singleton
  <2> QED BY <1>9, <1>10, <1>11, <2>3, <2>4
<1> QED BY <1>12, <1>13, <1>14

(* The examples use rpc.hpp the way its comments demand, also when a        *)
(* coroutine begins the same method again.                                  *)
THEOREM ContractRespectedAlways == Spec => ContractRespected
<1>1. ASSUME ProgramInvariant, NEW f \in Frames, NEW fn \in pending[f], Resume(f, fn)
      PROVE  Demanded(f, fn)
  <2>1. PICK r, s, p, e, u : Moves(f, fn, r, s, p, e, u)
    BY <1>1, ResumeMoves
  <2> QED BY <1>1, <2>1, MovesDemanded
<1>2. ProgramInvariant =>
        [\A f \in Frames : \A fn \in pending[f] : Resume(f, fn) =>
         LET new == IF at'[f] \in Ended THEN {}
                    ELSE TableOf(f)[at'[f]].await \cap RpcMethods
             peers == {g \in Frames : /\ CallOf(g) = CallOf(f)
                                      /\ SideOf(g) = SideOf(f)}
             others == RpcMethods
                       \cap ((UNION {pending'[g] : g \in peers \ {f}})
                             \cup (pending[f] \ {fn}))
             before == begun[CallOf(f)][SideOf(f)]
         IN new # {} =>
            /\ new \subseteq Methods(SideOf(f), calls[CallOf(f)].kind)
            /\ ~({"Read"} \subseteq new \cap others)
            /\ ~(new \cap Sending # {} /\ others \cap Sending # {})
            /\ (new \cup others) \cap Exclusive # {} =>
                  Cardinality(new) = 1 /\ others = {}
            /\ Finishing \cap before = {}
            /\ (SideOf(f) = "client" /\ before \cap {"WritesDone", "WriteLast"} # {})
                  => new \cap Sending = {}]_vars
  <2>1. ASSUME ProgramInvariant PROVE \A f \in Frames : \A fn \in pending[f] :
                                        Resume(f, fn) => Demanded(f, fn)
    BY <1>1, <2>1
  <2> QED BY <2>1 DEF Demanded
<1> QED BY <1>2, ProgramInvariantAlways, PTL DEF Spec, ContractRespected

-----------------------------------------------------------------------------
(* handle_bidirectional_streaming_request answers every request.            *)

Handler == "handle_bidirectional_streaming_request"
Pinger == "make_bidirectional_streaming_request"

(* The number of answers when the writer w has sent what it has received.   *)
Taken(s, w) == Len(s.down) + (IF w = "post" THEN 1 ELSE 0)

(* The call s, the queue q of the channel, the point w of the writer and    *)
(* the request m that it answers.                                           *)
EchoOK(s, q, w, m) ==
    /\ s.held = <<>> /\ s.status # "ERROR"
    /\ Len(s.down) <= Len(s.up)
    /\ \A i \in 1 .. Len(s.down) : s.down[i] = 2 * s.up[i]
    /\ s.status = "OK" => Len(s.down) = Len(s.up)
    /\ ~Dead(s) =>
          /\ Taken(s, w) + Len(q) = s.up_read
          /\ \A i \in 1 .. Len(q) : q[i] = s.up[Taken(s, w) + i]
          /\ w = "post" => m = s.up[Taken(s, w)]
          /\ s.half_closed => Len(s.down) = Len(s.up)
          /\ ~s.accepted => s.up_read = 0

(* The client is at l, waits for fns and has got the result r so far.       *)
PingOK(s, l, fns, r) ==
    ~Dead(s) =>
        /\ l \in {"idle", "start", "request"} => Len(s.up) = 0
        /\ l = "ping_pong" =>
              /\ Len(s.up) = s.down_read + (IF "Read" \in fns THEN 1 ELSE 0)
              /\ r = "true"

EchoInvariant ==
    example = "streaming_bidirectional" =>
        LET s == calls["bidirectional"]
        IN /\ EchoOK(s, channel.queue, at["writer"], message["writer"])
           /\ PingOK(s, at[Pinger], pending[Pinger], result[Pinger])

(* The coroutines that work on the bidirectional call.                      *)
LEMMA EchoFrames ==
    ASSUME example = "streaming_bidirectional"
    PROVE  /\ {Handler, Pinger, "reader", "writer"} \subseteq Frames
           /\ "bidirectional" \in CallsOf(example)
           /\ \A f \in Frames : CallOf(f) = "bidirectional" =>
                 f \in {Handler, Pinger, "reader", "writer"}
           /\ CallOf(Handler) = "bidirectional" /\ SideOf(Handler) = "server"
           /\ CallOf("reader") = "bidirectional" /\ SideOf("reader") = "server"
           /\ CallOf("writer") = "bidirectional" /\ SideOf("writer") = "server"
           /\ CallOf(Pinger) = "bidirectional" /\ SideOf(Pinger) = "client"
           /\ \A f \in Frames : CallOf(f) # "slow_unary"
<1>1. /\ {Handler, Pinger, "reader", "writer"} \subseteq Frames
      /\ CallOf(Handler) = "bidirectional" /\ SideOf(Handler) = "server"
      /\ CallOf("reader") = "bidirectional" /\ SideOf("reader") = "server"
      /\ CallOf("writer") = "bidirectional" /\ SideOf("writer") = "server"
      /\ CallOf(Pinger) = "bidirectional" /\ SideOf(Pinger) = "client"
  BY Frames_streaming_bidirectional, SidesOf DEF Frames, CallOf, SideOf, Handler, Pinger
<1>2. "bidirectional" \in CallsOf(example)
  BY <1>1 DEF CallOf, CallsOf, Frames
<1>3. ASSUME NEW f \in Frames
      PROVE  /\ CallOf(f) = "bidirectional" => f \in {Handler, Pinger, "reader", "writer"}
             /\ CallOf(f) # "slow_unary"
  BY Frames_streaming_bidirectional, SidesOf DEF Frames, CallOf, Handler, Pinger
<1> QED BY <1>1, <1>2, <1>3

(* What does not change it.                                                 *)
LEMMA EchoSame ==
    ASSUME NEW s, NEW t, NEW q, NEW w, NEW m, EchoOK(s, q, w, m),
           t.held = s.held, t.status = s.status, t.down = s.down, t.up = s.up,
           ~Dead(t) => t.up_read = s.up_read, t.half_closed = s.half_closed,
           s.accepted => t.accepted, Dead(s) => Dead(t)
    PROVE  EchoOK(t, q, w, m)
  BY DEF EchoOK, Taken

(* The writer has no request that it has not answered.                      *)
LEMMA EchoIdle ==
    ASSUME NEW s, NEW q, NEW w, NEW v, NEW m, NEW n, EchoOK(s, q, w, m),
           w # "post", v # "post"
    PROVE  EchoOK(s, q, v, n)
  BY DEF EchoOK, Taken

(* The call fails.                                                          *)
LEMMA EchoKilled ==
    ASSUME NEW s, CallOK(s), NEW why \in {"CANCELLED", "ERROR"},
           NEW q, NEW w, NEW m, EchoOK(s, q, w, m),
           NEW l, NEW k, k = l \/ k = "aborted", NEW fns, NEW ns, k = l => ns = fns, NEW r, PingOK(s, l, fns, r)
    PROVE  EchoOK(Kill(s, why), q, w, m) /\ PingOK(Kill(s, why), k, ns, r)
<1> DEFINE t == Kill(s, why)
<1>1. /\ t.started = s.started /\ t.accepted = s.accepted
      /\ t.up = s.up /\ t.up_read = s.up_read
      /\ t.half_closed = s.half_closed /\ t.down = s.down
      /\ t.held = s.held /\ t.status = s.status
      /\ t.dead = IF s.started /\ ~Dead(s) THEN why ELSE s.dead
      /\ t.down_read = s.down_read
  BY KillCall
<1>2. Dead(s) => Dead(t)
  BY <1>1 DEF Dead
<1> HIDE DEF t
<1>3. EchoOK(t, q, w, m)
  BY <1>1, <1>2, EchoSame
<1>4. PingOK(t, k, ns, r)
  BY <1>1, <1>2 DEF PingOK
<1> QED BY <1>3, <1>4 DEF t

(* The number of requests that the writer has taken.                        *)
LEMMA TakenNat ==
    ASSUME NEW s, NEW w, Len(s.down) \in Nat
    PROVE  Taken(s, w) \in Nat /\ (w = "post" => Taken(s, w) >= 1)
<1>1. CASE w = "post"
  <2>1. Taken(s, w) = Len(s.down) + 1
    BY <1>1 DEF Taken
  <2> QED BY <2>1
<1>2. CASE w # "post"
  <2>1. Taken(s, w) = Len(s.down)
    BY <1>2 DEF Taken
  <2> QED BY <1>2, <2>1
<1> QED BY <1>1, <1>2

(* A request is read and goes to the channel.                               *)
LEMMA EchoRead ==
    ASSUME NEW s, CallOK(s), NEW t, NEW q \in Seq(Nat), NEW w, NEW m, EchoOK(s, q, w, m),
           t.held = s.held, t.status = s.status, t.down = s.down, t.up = s.up,
           t.up_read = s.up_read + 1, t.half_closed = s.half_closed,
           t.accepted, t.dead = s.dead
    PROVE  EchoOK(t, Append(q, t.up[t.up_read]), w, m)
<1> DEFINE a == Append(q, t.up[t.up_read])
<1>1. /\ s.up_read \in Nat /\ Len(s.down) \in Nat /\ Len(q) \in Nat
  BY DEF CallOK, CallRecord
<1>2. /\ Len(a) = Len(q) + 1
      /\ \A i \in 1 .. Len(q) : a[i] = q[i]
      /\ a[Len(q) + 1] = t.up[t.up_read]
  OBVIOUS
<1> HIDE DEF a
<1>3. SUFFICES ASSUME ~Dead(t)
               PROVE  /\ Taken(t, w) + Len(a) = t.up_read
                      /\ \A i \in 1 .. Len(a) : a[i] = t.up[Taken(t, w) + i]
                      /\ w = "post" => m = t.up[Taken(t, w)]
                      /\ t.half_closed => Len(t.down) = Len(t.up)
  BY DEF EchoOK, a
<1>4. /\ Taken(s, w) + Len(q) = s.up_read /\ Taken(t, w) = Taken(s, w)
      /\ \A i \in 1 .. Len(q) : q[i] = s.up[Taken(s, w) + i]
      /\ w = "post" => m = s.up[Taken(s, w)]
      /\ s.half_closed => Len(s.down) = Len(s.up)
  BY <1>3 DEF EchoOK, Taken, Dead
<1>5. Taken(s, w) \in Nat
  BY <1>1, TakenNat
<1>6. Taken(t, w) + Len(a) = t.up_read
  BY <1>1, <1>2, <1>4, <1>5
<1>7. ASSUME NEW i \in 1 .. Len(a) PROVE a[i] = t.up[Taken(t, w) + i]
  <2>1. CASE i \in 1 .. Len(q)
    BY <1>2, <1>4, <2>1
  <2>2. CASE i = Len(q) + 1
    <3>1. Taken(t, w) + i = t.up_read
      BY <1>1, <1>4, <1>5, <2>2
    <3> QED BY <1>2, <2>2, <3>1
  <2> QED BY <1>1, <1>2, <2>1, <2>2
<1> QED BY <1>4, <1>6, <1>7

(* The writer receives it from the channel.                                 *)
LEMMA EchoReceive ==
    ASSUME NEW s, CallOK(s), NEW q \in Seq(Nat), q # <<>>, NEW w, w # "post", NEW m,
           EchoOK(s, q, w, m)
    PROVE  EchoOK(s, Tail(q), "post", Head(q))
<1> DEFINE a == Tail(q)
<1>1. /\ s.up_read \in Nat /\ Len(s.down) \in Nat /\ Len(q) \in Nat
  BY DEF CallOK, CallRecord
<1>2. Len(a) = Len(q) - 1 /\ \A i \in 1 .. Len(a) : a[i] = q[i + 1]
  OBVIOUS
<1>3. Head(q) = q[1] /\ 1 \in 1 .. Len(q)
  OBVIOUS
<1> HIDE DEF a
<1>4. SUFFICES ASSUME ~Dead(s)
               PROVE  /\ Taken(s, "post") + Len(a) = s.up_read
                      /\ \A i \in 1 .. Len(a) : a[i] = s.up[Taken(s, "post") + i]
                      /\ q[1] = s.up[Taken(s, "post")]
  BY <1>3 DEF EchoOK, a
<1>5. /\ Len(s.down) + Len(q) = s.up_read
      /\ \A i \in 1 .. Len(q) : q[i] = s.up[Len(s.down) + i]
  BY <1>1, <1>4 DEF EchoOK, Taken
<1>6. Taken(s, "post") = Len(s.down) + 1
  BY DEF Taken
<1>7. Taken(s, "post") + Len(a) = s.up_read
  BY <1>1, <1>2, <1>5, <1>6
<1>8. ASSUME NEW i \in 1 .. Len(a) PROVE a[i] = s.up[Taken(s, "post") + i]
  <2>1. i \in Nat /\ 1 <= i /\ i <= Len(q) - 1
    BY <1>1, <1>2
  <2>2. i + 1 \in 1 .. Len(q)
    BY <1>1, <2>1
  <2>3. Len(s.down) + (i + 1) = (Len(s.down) + 1) + i
    <3> DEFINE k == Len(s.down)
    <3>1. k \in Nat /\ i \in Nat
      BY <1>1, <2>1
    <3> HIDE DEF k
    <3>2. k + (i + 1) = (k + 1) + i
      BY <3>1
    <3> QED BY <3>2 DEF k
  <2>4. a[i] = s.up[Len(s.down) + (i + 1)]
    BY <1>2, <1>5, <2>2
  <2> QED BY <1>6, <2>3, <2>4
<1> QED BY <1>3, <1>5, <1>6, <1>7, <1>8

(* ... and answers it.                                                      *)
LEMMA EchoAnswer ==
    ASSUME NEW s, CallOK(s), NEW q \in Seq(Nat), NEW m \in Nat, EchoOK(s, q, "post", m),
           NEW t, CallOK(t), t.held = <<>>, t.status = s.status, s.status = "none",
           t.down = (IF ~Dead(s) THEN s.down \o <<2 * m>> ELSE s.down), t.up = s.up,
           t.up_read = s.up_read, t.half_closed = s.half_closed,
           t.accepted = s.accepted, t.dead = s.dead
    PROVE  EchoOK(t, q, "write", m)
<1>1. /\ s.up_read \in Nat /\ s.down \in Seq(Nat) /\ s.up \in Seq(Nat) /\ Len(q) \in Nat
      /\ s.up_read <= Len(s.up)
  BY DEF CallOK, CallRecord
<1>2. CASE Dead(s)
  BY <1>2 DEF EchoOK, Dead
<1>3. CASE ~Dead(s)
  <2>1. /\ Len(s.down) + 1 + Len(q) = s.up_read
        /\ \A i \in 1 .. Len(q) : q[i] = s.up[Len(s.down) + 1 + i]
        /\ m = s.up[Len(s.down) + 1]
        /\ s.half_closed => Len(s.down) = Len(s.up)
        /\ ~s.accepted => s.up_read = 0
    BY <1>3 DEF EchoOK, Taken
  <2>2. /\ Len(t.down) = Len(s.down) + 1
        /\ \A i \in 1 .. Len(s.down) : t.down[i] = s.down[i]
        /\ t.down[Len(s.down) + 1] = 2 * m
    <3>1. <<2 * m>> \in Seq(Nat) /\ Len(<<2 * m>>) = 1 /\ <<2 * m>>[1] = 2 * m
      OBVIOUS
    <3>2. t.down = s.down \o <<2 * m>>
      BY <1>3
    <3> QED BY <1>1, <3>1, <3>2
  <2>3. Len(t.down) <= Len(t.up) /\ Taken(t, "write") = Len(s.down) + 1
    BY <1>1, <2>1, <2>2 DEF Taken
  <2>4. \A i \in 1 .. Len(t.down) : t.down[i] = 2 * t.up[i]
    <3>1. SUFFICES ASSUME NEW i \in 1 .. Len(t.down) PROVE t.down[i] = 2 * t.up[i]
      OBVIOUS
    <3>2. CASE i \in 1 .. Len(s.down)
      BY <2>2, <3>2 DEF EchoOK
    <3>3. CASE i = Len(s.down) + 1
      BY <2>1, <2>2, <3>3
    <3>4. Len(s.down) \in Nat
      BY <1>1
    <3>5. i \in 1 .. Len(s.down) \/ i = Len(s.down) + 1
      BY <2>2, <3>4
    <3> QED BY <3>2, <3>3, <3>5
  <2>5. ~s.half_closed
    BY <1>1, <2>1
  <2> QED BY <2>1, <2>3, <2>4, <2>5 DEF EchoOK
<1> QED BY <1>2, <1>3

(* The client sends another request.                                        *)
LEMMA EchoWritten ==
    ASSUME NEW s, CallOK(s), NEW q \in Seq(Nat), NEW w, NEW m, EchoOK(s, q, w, m), ~Dead(s),
           ~s.half_closed, NEW n \in Nat,
           NEW t, CallOK(t), t.held = s.held, t.status = s.status, t.down = s.down,
           t.up = Append(s.up, n), t.up_read = s.up_read, t.half_closed = s.half_closed,
           t.accepted = s.accepted, t.dead = s.dead
    PROVE  EchoOK(t, q, w, m) /\ Len(t.up) = Len(s.up) + 1
<1>1. /\ s.up_read \in Nat /\ s.down \in Seq(Nat) /\ s.up \in Seq(Nat) /\ Len(q) \in Nat
      /\ s.up_read <= Len(s.up) /\ s.status # "OK"
  BY DEF CallOK, CallRecord, Whole
<1>2. Len(t.up) = Len(s.up) + 1 /\ \A i \in 1 .. Len(s.up) : t.up[i] = s.up[i]
  BY <1>1
<1>3. /\ Taken(s, w) + Len(q) = s.up_read
      /\ \A i \in 1 .. Len(q) : q[i] = s.up[Taken(s, w) + i]
      /\ w = "post" => m = s.up[Taken(s, w)]
      /\ Len(s.down) <= Len(s.up)
      /\ \A i \in 1 .. Len(s.down) : s.down[i] = 2 * s.up[i]
  BY DEF EchoOK
<1>0. Len(s.down) \in Nat /\ Len(s.up) \in Nat
  BY <1>1
<1>4. /\ Taken(t, w) = Taken(s, w) /\ Taken(s, w) \in Nat
      /\ w = "post" => Taken(s, w) >= 1
  BY <1>0, TakenNat DEF Taken
<1>5. \A i \in 1 .. Len(q) : q[i] = t.up[Taken(t, w) + i]
  <2>1. SUFFICES ASSUME NEW i \in 1 .. Len(q) PROVE q[i] = t.up[Taken(t, w) + i]
    OBVIOUS
  <2>2. Taken(s, w) + i \in 1 .. Len(s.up)
    BY <1>0, <1>1, <1>3, <1>4
  <2> QED BY <1>2, <1>3, <1>4, <2>2
<1>6. w = "post" => m = t.up[Taken(t, w)]
  <2>1. w = "post" => Taken(s, w) \in 1 .. Len(s.up)
    BY <1>1, <1>3, <1>4
  <2> QED BY <1>2, <1>3, <1>4, <2>1
<1>7. \A i \in 1 .. Len(t.down) : t.down[i] = 2 * t.up[i]
  <2>1. \A i \in 1 .. Len(s.down) : i \in 1 .. Len(s.up)
    BY <1>1, <1>3
  <2> QED BY <1>2, <1>3, <2>1
<1>8. Len(t.down) <= Len(t.up)
  BY <1>1, <1>2, <1>3
<1> QED BY <1>1, <1>2, <1>3, <1>4, <1>5, <1>6, <1>7, <1>8 DEF EchoOK

(* The client closes its stream when it has read all answers.               *)
LEMMA EchoClosed ==
    ASSUME NEW s, NEW t, NEW q, NEW w, NEW m, EchoOK(s, q, w, m),
           t.held = s.held, t.status = s.status, t.down = s.down, t.up = s.up,
           t.up_read = s.up_read, t.accepted = s.accepted, t.dead = s.dead,
           ~Dead(s) => Len(s.down) = Len(s.up)
    PROVE  EchoOK(t, q, w, m)
  BY DEF EchoOK, Taken, Dead

(* What the server does not change for the client.                          *)
LEMMA PingSame ==
    ASSUME NEW s, NEW t, NEW l, NEW k, NEW fns, NEW ns, NEW r, PingOK(s, l, fns, r),
           t.up = s.up, t.down_read = s.down_read, Dead(s) => Dead(t),
           (k = l /\ ns = fns) \/ (l = "idle" /\ k = "start")
    PROVE  PingOK(t, k, ns, r)
  BY DEF PingOK

(* What the coroutines other than f see of its move.                        *)
LEMMA MovesOthers ==
    ASSUME ProgramInvariant, NEW f \in Frames, NEW fn, NEW r, NEW s, NEW p, NEW e, NEW u,
           Moves(f, fn, r, s, p, e, u), NEW g \in Frames, g # f
    PROVE  /\ message'[g] = message[g] /\ result'[g] = result[g]
           /\ \/ at'[g] = at[g] /\ pending'[g] = pending[g]
              \/ at[g] = "idle" /\ at'[g] = "start" /\ pending'[g] = {"start"}
<1>1. TypeInvariant
  BY DEF ProgramInvariant
<1>2. message'[g] = message[g] /\ result'[g] = result[g]
  BY <1>1 DEF Moves, TypeInvariant
<1>3. CASE g \in StartsAt(f, p)
  <2>1. at[g] = "idle"
    BY <1>3, StartedFresh
  <2>2. at'[g] = "start" /\ pending'[g] = {"start"}
    BY <1>3 DEF Moves
  <2> QED BY <1>2, <2>1, <2>2
<1>4. CASE g \notin StartsAt(f, p)
  BY <1>2, <1>4 DEF Moves
<1> QED BY <1>3, <1>4

(* What happens to f itself.                                                *)
LEMMA MovesSelf ==
    ASSUME ProgramInvariant, NEW f \in Frames, NEW fn, NEW r, NEW s, NEW p, NEW e, NEW u,
           Moves(f, fn, r, s, p, e, u)
    PROVE  /\ at'[f] = p /\ pending'[f] = AwaitsAt(p) /\ result'[f] = "true"
           /\ message'[f] = Got(f, fn, r, s)
  BY DEF Moves, ProgramInvariant, TypeInvariant

(* Where a coroutine is suspended says what has been completed.             *)
LEMMA CompletedAt ==
    ASSUME ProgramInvariant, NEW f \in Frames, NEW fn \in pending[f], NEW r, NEW s,
           Outcome(f, fn, r, s)
    PROVE  /\ at[f] = "start" => fn = "start"
           /\ at[f] # "start" => fn \in AwaitAt(at[f]) /\ at[f] \in LiveAt(f) /\ fn # "start"
           /\ at[f] \notin {"ping_pong", "deadline"} /\ fn # "wait" => Combined(f, fn, r) = r
           /\ at[f] \notin {"ping_pong", "deadline"} => result[f] = "true"
           /\ at[f] # "aborted"
<1>1. TypeInvariant /\ ControlInvariant
  BY DEF ProgramInvariant
<1>2. /\ at[f] \notin Resting /\ (at[f] = "start" <=> fn = "start")
      /\ (fn # "start" => at[f] \in LiveAt(f) /\ fn \in AwaitAt(at[f]))
  BY <1>1, PendingMethods
<1>3. at[f] # "aborted"
  BY <1>2 DEF Resting, Ended
<1>4. at[f] \notin {"ping_pong", "deadline"} => result[f] = "true"
  BY <1>1, <1>3 DEF ControlInvariant
<1> QED BY <1>2, <1>3, <1>4 DEF Combined

(* Only the writer receives.                                                *)
LEMMA OnlyWriterReceives ==
    ASSUME NEW f \in DOMAIN Programs["streaming_bidirectional"], f # "writer"
    PROVE  "receive" \notin DOMAIN Programs["streaming_bidirectional"][f].program
<1>1. /\ "receive" \notin DOMAIN reader
      /\ "receive" \notin DOMAIN make_bidirectional_streaming_request
      /\ "receive" \notin DOMAIN make_shutdown_request
      /\ "receive" \notin DOMAIN handle_shutdown_request
      /\ "receive" \notin DOMAIN signals
      /\ \A part : "receive" \notin DOMAIN streaming_client_main(part)
      /\ "receive" \notin DOMAIN handle_bidirectional_streaming_request
  BY DEF reader, make_bidirectional_streaming_request, make_shutdown_request,
     handle_shutdown_request, signals, streaming_client_main,
     handle_bidirectional_streaming_request
<1> QED BY <1>1, SidesOf, Frames_streaming_bidirectional

(* What a move does to the channel.                                         *)
LEMMA EchoChannel ==
    ASSUME ProgramInvariant, example = "streaming_bidirectional",
           NEW f \in Frames, NEW fn, NEW r, NEW s, NEW p, NEW e, NEW u,
           Moves(f, fn, r, s, p, e, u)
    PROVE  /\ channel.queue \in Seq(Nat)
           /\ f = "reader" /\ e = "send" => channel'.queue = Append(channel.queue, message'[f])
           /\ f = "reader" /\ e # "send" => channel'.queue \in {<<>>, channel.queue}
           /\ f = "reader" /\ e \notin {"send", "close"} => channel'.queue = channel.queue
           /\ f = "writer" =>
                channel'.queue = IF fn = "receive" /\ channel.queue # <<>>
                                 THEN Tail(channel.queue) ELSE channel.queue
           /\ f \notin {"reader", "writer"} => channel'.queue = channel.queue
<1>1. /\ TypeInvariant /\ ControlInvariant /\ SideOf(f) \in Sides
      /\ channel \in [queue : Seq(Nat), closed : BOOLEAN]
  BY FrameFacts DEF ProgramInvariant, TypeInvariant
<1>2. fn \in pending[f] /\ Outcome(f, fn, r, s) /\ ChannelEffect(e, fn, message'[f])
  BY DEF Moves
<1>3. f # "reader" => e \notin {"send", "close"}
  BY <1>1 DEF Moves, Edge, Course, ServerCourse, ClientEdge, Sides
<1>4. f # "writer" => fn # "receive"
  <2>1. SUFFICES ASSUME f # "writer", fn = "receive" PROVE FALSE
    OBVIOUS
  <2>2. at[f] \in LiveAt(f) /\ fn \in AwaitAt(at[f])
    BY <1>1, <1>2, <2>1, PendingMethods
  <2>3. at[f] = "receive" /\ at[f] \in DOMAIN TableOf(f)
    BY <2>1, <2>2 DEF AwaitAt, LiveAt, Live
  <2> QED BY <2>1, <2>3, OnlyWriterReceives DEF TableOf, Frames
<1>5. \A q : [channel EXCEPT !.queue = q].queue = q
  BY <1>1
<1>6. \A q : [queue |-> q, closed |-> TRUE].queue = q
  OBVIOUS
<1>7. CASE f = "reader"
  BY <1>1, <1>2, <1>4, <1>5, <1>6, <1>7 DEF ChannelEffect
<1>8. CASE f = "writer"
  BY <1>1, <1>2, <1>3, <1>5, <1>8 DEF ChannelEffect
<1>9. CASE f \notin {"reader", "writer"}
  BY <1>1, <1>2, <1>3, <1>4, <1>9 DEF ChannelEffect
<1> QED BY <1>1, <1>7, <1>8, <1>9

(* What a coroutine of the server does to the bidirectional call.           *)
LEMMA EchoServerCall ==
    ASSUME ProgramInvariant, example = "streaming_bidirectional",
           NEW f \in {Handler, "reader", "writer"}, f \in Frames,
           NEW fn, NEW r, NEW s, NEW p, NEW e, NEW u, Moves(f, fn, r, s, p, e, u),
           NEW c, c = calls["bidirectional"]
    PROVE  /\ CallOK(c) /\ CallOK(s) /\ CallOK(u) /\ s.kind = "bidirectional"
           /\ calls'["bidirectional"] = u
           /\ s.up = c.up /\ s.half_closed = c.half_closed /\ s.dead = c.dead
           /\ s.down_read = c.down_read
           /\ s.down = c.down /\ s.status = c.status /\ s.held = c.held
           /\ u.up = s.up /\ u.half_closed = s.half_closed /\ u.dead = s.dead
           /\ u.down_read = s.down_read /\ u.accepted = s.accepted /\ u.up_read = s.up_read
           /\ fn \notin RpcMethods => s = c
           /\ c.accepted => s.accepted
           /\ fn \notin {"Request", "Read"} => s.up_read = c.up_read
           /\ p \notin {"write", "finish"} => u = s
           /\ c.held = <<>> /\ p = "write" =>
                /\ u.held = <<>> /\ s.status = "none" /\ u.status = "none"
                /\ u.down = IF ~Dead(s) THEN s.down \o <<Payload(f, rounds'[f], message'[f])>>
                            ELSE s.down
           /\ c.held = <<>> /\ p = "finish" =>
                /\ u.held = <<>> /\ u.down = s.down
                /\ u.status \in {s.status, "OK"} /\ ReadAll(s)
                /\ Dead(s) => u.status = s.status
<1>1. /\ TypeInvariant /\ ControlInvariant /\ CallInvariant
      /\ "bidirectional" \in CallsOf(example)
      /\ CallOf(f) = "bidirectional" /\ SideOf(f) = "server" /\ "server" \in Sides
  BY EchoFrames DEF ProgramInvariant, Sides
<1>2. fn \in pending[f] /\ Outcome(f, fn, r, s)
  BY DEF Moves
<1>3. /\ CallOK(c) /\ CallOK(s) /\ CallOK(u) /\ s.kind = "bidirectional"
      /\ calls'["bidirectional"] = u
      /\ p \in Ended \/ p \in Points
  BY <1>1, <1>2, OutcomeCall, MovesFacts DEF CallInvariant, KindOf
<1>4. /\ s.up = c.up /\ s.half_closed = c.half_closed /\ s.dead = c.dead
      /\ s.down_read = c.down_read
      /\ s.down = c.down /\ s.status = c.status /\ s.held = c.held
      /\ fn \notin RpcMethods => s = c
      /\ c.accepted => s.accepted
      /\ fn \notin {"Request", "Read"} => s.up_read = c.up_read
  <2>1. CASE fn \in RpcMethods
    BY <1>1, <1>2, <2>1 DEF Outcome, Completes, CallStep
  <2>2. CASE fn \notin RpcMethods
    BY <1>1, <1>2, <2>2 DEF Outcome
  <2> QED BY <2>1, <2>2
<1>5. CASE p \in Ended
  <2>1. u = s /\ p \notin {"write", "finish"}
    BY <1>5 DEF Moves, Ended
  <2> QED BY <1>3, <1>4, <2>1
<1>6. CASE p \notin Ended
  <2> DEFINE m == Payload(f, rounds'[f], message'[f])
             a == Act(e, p)
  <2>1. MayInitiate("server", a, s) /\ u \in Initiate("server", a, m, s)
    BY <1>1, <1>6 DEF Moves
  <2>2. m \in Nat
    <3>1. rounds'[f] \in Nat
      BY RoundsAssumption DEF Moves
    <3>2. message'[f] \in Nat
      BY MovesFacts
    <3> QED BY <3>1, <3>2 DEF Payload
  <2>3. e # "AsyncUnary" /\ p \notin {"ping_pong", "deadline"}
    <3>1. e # "AsyncUnary"
      BY <1>1 DEF Moves, Edge, ServerEdge
    <3>2. p \in LiveAt(f)
      BY <1>6 DEF Moves
    <3>3. TableOK(example, f, SideOf(f), CallOf(f), TableOf(f))
      BY <1>1, FrameFacts
    <3> QED BY <1>1, <3>1, <3>2, <3>3 DEF LiveAt, Live, TableOK
  <2>4. AwaitAt(p) = {a}
    BY <1>3, <1>6, <2>3, SoleAwaited DEF Act
  <2>5. p \in {"request", "reader_and_writer", "finish", "read", "receive", "post", "write"}
    <3>1. ServerCourse(example, f, CallOf(f), at[f], Combined(f, fn, r), p, e)
      BY <1>1 DEF Moves, Edge, Course
    <3> QED BY <1>1, <1>6, <3>1 DEF ServerCourse, Handler
  <2>6. /\ p = "write" <=> a = "Write"
        /\ p = "finish" <=> a = "Finish"
        /\ a \in {"Request", "join", "Finish", "Read", "receive", "post", "Write"}
    BY <2>4, <2>5 DEF AwaitAt
  <2> HIDE DEF m, a
  <2>8. /\ Initiates("server", a, s, u)
        /\ a \notin RpcMethods \/ a \in {"Request", "Read"} => u = s
        /\ a \in Finishing /\ Dead(s) => u.status = s.status
        /\ (s.kind = "bidirectional" /\ s.held = <<>> /\ a \in {"Write", "Finish"}) =>
                /\ u.held = <<>>
                /\ u.down = IF a = "Write" /\ ~Dead(s) THEN s.down \o <<m>> ELSE s.down
    BY <1>3, <2>1, <2>2, ServerInitiate
  <2>9. /\ u.up = s.up /\ u.half_closed = s.half_closed /\ u.dead = s.dead
        /\ u.down_read = s.down_read /\ u.accepted = s.accepted /\ u.up_read = s.up_read
        /\ u.status # s.status => a \in Finishing
        /\ u.status = "ERROR" => s.status = "ERROR" \/ a = "FinishWithError"
    BY <2>8 DEF Initiates
  <2>10. p \notin {"write", "finish"} => u = s
    BY <2>6, <2>8, RpcMethodsList
  <2>11. ASSUME c.held = <<>>, p = "write"
         PROVE  /\ u.held = <<>> /\ s.status = "none" /\ u.status = "none"
                /\ u.down = IF ~Dead(s) THEN s.down \o <<m>> ELSE s.down
    <3>1. a = "Write"
      BY <2>6, <2>11
    <3>2. s.status = "none"
      BY <2>1, <3>1, RpcMethodsList DEF MayInitiate
    <3>3. u.status = "none"
      BY <2>9, <3>1, <3>2 DEF Finishing
    <3> QED BY <1>3, <1>4, <2>8, <2>11, <3>1, <3>2, <3>3
  <2>12. ASSUME c.held = <<>>, p = "finish"
         PROVE  /\ u.held = <<>> /\ u.down = s.down
                /\ u.status \in {s.status, "OK"} /\ ReadAll(s)
                /\ Dead(s) => u.status = s.status
    <3>1. a = "Finish" /\ a \in Finishing
      BY <2>6, <2>12 DEF Finishing
    <3>2. ReadAll(s) /\ s.status = "none"
      BY <2>1, <3>1, RpcMethodsList DEF MayInitiate
    <3>3. u.status \in {"none", "OK", "ERROR"}
      BY <1>3 DEF CallOK, CallRecord
    <3> QED BY <1>3, <1>4, <2>8, <2>9, <2>12, <3>1, <3>2, <3>3
  <2> QED BY <1>3, <1>4, <2>9, <2>10, <2>11, <2>12 DEF m
<1> QED BY <1>5, <1>6

(* The invariant after a step, in terms of the next state.                  *)
EchoNext ==
    /\ EchoOK(calls'["bidirectional"], channel'.queue, at'["writer"], message'["writer"])
    /\ PingOK(calls'["bidirectional"], at'[Pinger], pending'[Pinger], result'[Pinger])

(* A coroutine that does not work on the call.                              *)
LEMMA EchoOutsider ==
    ASSUME ProgramInvariant, EchoInvariant, example = "streaming_bidirectional",
           NEW f \in Frames, f \notin {Handler, Pinger, "reader", "writer"},
           NEW fn, NEW r, NEW s, NEW p, NEW e, NEW u, Moves(f, fn, r, s, p, e, u)
    PROVE  EchoNext
<1> DEFINE c == calls["bidirectional"]
<1>1. /\ EchoOK(c, channel.queue, at["writer"], message["writer"])
      /\ PingOK(c, at[Pinger], pending[Pinger], result[Pinger])
  BY DEF EchoInvariant
<1>2. /\ calls'["bidirectional"] = c
      /\ channel'.queue = channel.queue
      /\ Pinger \in Frames /\ "writer" \in Frames
  BY EchoFrames, MovesFacts, EchoChannel
<1>3. /\ message'["writer"] = message["writer"]
      /\ at'["writer"] = at["writer"] \/ (at["writer"] = "idle" /\ at'["writer"] = "start")
  BY <1>2, MovesOthers
<1>4. /\ result'[Pinger] = result[Pinger]
      /\ \/ at'[Pinger] = at[Pinger] /\ pending'[Pinger] = pending[Pinger]
         \/ at[Pinger] = "idle" /\ at'[Pinger] = "start"
  BY <1>2, MovesOthers
<1> HIDE DEF c
<1>5. EchoOK(c, channel.queue, at'["writer"], message["writer"])
  <2>1. CASE at'["writer"] = at["writer"]
    BY <1>1, <2>1
  <2>2. CASE at["writer"] = "idle" /\ at'["writer"] = "start"
    <3>1. at["writer"] # "post" /\ at'["writer"] # "post"
      BY <2>2
    <3> QED BY <1>1, <3>1, EchoIdle
  <2> QED BY <1>3, <2>1, <2>2
<1>6. PingOK(c, at'[Pinger], pending'[Pinger], result[Pinger])
  BY <1>1, <1>4, PingSame
<1> QED BY <1>2, <1>3, <1>4, <1>5, <1>6 DEF EchoNext

(* What the client sees of a move of the server.                            *)
LEMMA EchoServerPing ==
    ASSUME ProgramInvariant, EchoInvariant, example = "streaming_bidirectional",
           NEW f \in {Handler, "reader", "writer"}, f \in Frames,
           NEW fn, NEW r, NEW s, NEW p, NEW e, NEW u, Moves(f, fn, r, s, p, e, u)
    PROVE  PingOK(calls'["bidirectional"], at'[Pinger], pending'[Pinger], result'[Pinger])
<1> DEFINE c == calls["bidirectional"]
<1>1. PingOK(c, at[Pinger], pending[Pinger], result[Pinger])
  BY DEF EchoInvariant
<1>2. /\ calls'["bidirectional"] = u /\ u.up = c.up /\ u.down_read = c.down_read
      /\ u.dead = c.dead
  BY EchoServerCall
<1>3. Pinger \in Frames /\ f # Pinger
  BY EchoFrames DEF Pinger, Handler
<1>4. /\ result'[Pinger] = result[Pinger]
      /\ \/ at'[Pinger] = at[Pinger] /\ pending'[Pinger] = pending[Pinger]
         \/ at[Pinger] = "idle" /\ at'[Pinger] = "start"
  BY <1>3, MovesOthers
<1> HIDE DEF c
<1>5. Dead(c) => Dead(u)
  BY <1>2 DEF Dead
<1> QED BY <1>1, <1>2, <1>4, <1>5, PingSame

(* What the writer sees of a move of another coroutine that changes the     *)
(* call to t and the channel to q.                                          *)
LEMMA EchoWriterStays ==
    ASSUME ProgramInvariant, example = "streaming_bidirectional",
           NEW f \in Frames, f # "writer",
           NEW fn, NEW r, NEW s, NEW p, NEW e, NEW u, Moves(f, fn, r, s, p, e, u),
           NEW t, NEW q, EchoOK(t, q, at["writer"], message["writer"])
    PROVE  EchoOK(t, q, at'["writer"], message'["writer"])
<1>1. "writer" \in Frames
  BY EchoFrames
<1>2. /\ message'["writer"] = message["writer"]
      /\ at'["writer"] = at["writer"] \/ (at["writer"] = "idle" /\ at'["writer"] = "start")
  BY <1>1, MovesOthers
<1>3. CASE at'["writer"] = at["writer"]
  BY <1>2, <1>3
<1>4. CASE at["writer"] = "idle" /\ at'["writer"] = "start"
  <2>1. at["writer"] # "post" /\ at'["writer"] # "post"
    BY <1>4
  <2> QED BY <2>1, EchoIdle
<1> QED BY <1>2, <1>3, <1>4

(* The reader passes a request on or closes the channel.                    *)
LEMMA EchoReader ==
    ASSUME ProgramInvariant, EchoInvariant, example = "streaming_bidirectional",
           "reader" \in Frames, NEW fn, NEW r, NEW s, NEW p, NEW e, NEW u,
           Moves("reader", fn, r, s, p, e, u)
    PROVE  EchoNext
<1> DEFINE c == calls["bidirectional"]
           w == at["writer"]
           m == message["writer"]
           q == channel.queue
<1>1. EchoOK(c, q, w, m)
  BY DEF EchoInvariant
<1>2. fn \in pending["reader"] /\ Outcome("reader", fn, r, s)
  BY DEF Moves
<1>3. /\ ServerCourse(example, "reader", CallOf("reader"), at["reader"],
                      Combined("reader", fn, r), p, e)
      /\ SideOf("reader") = "server" /\ CallOf("reader") = "bidirectional"
  BY EchoFrames DEF Moves, Edge, Course
<1>4. at["reader"] \in {"start", "read"} /\ p \notin {"write", "finish"}
  BY <1>3 DEF ServerCourse, Ended
<1>5. Combined("reader", fn, r) = r /\ fn = IF at["reader"] = "start" THEN "start" ELSE "Read"
  <2>1. fn = IF at["reader"] = "start" THEN "start" ELSE "Read"
    BY <1>2, <1>4, CompletedAt DEF AwaitAt
  <2> QED BY <1>2, <1>4, <2>1, CompletedAt
<1>6. /\ CallOK(c) /\ CallOK(s) /\ u = s /\ calls'["bidirectional"] = u
      /\ s.up = c.up /\ s.half_closed = c.half_closed /\ s.dead = c.dead
      /\ s.down = c.down /\ s.status = c.status /\ s.held = c.held
      /\ fn \notin RpcMethods => s = c
      /\ c.accepted => s.accepted
  BY <1>4, EchoServerCall
<1>7. /\ q \in Seq(Nat)
      /\ e = "send" => channel'.queue = Append(q, message'["reader"])
      /\ e # "send" => channel'.queue \in {<<>>, q}
      /\ e \notin {"send", "close"} => channel'.queue = q
  BY EchoChannel
<1>8. EchoOK(u, channel'.queue, w, m)
  <2>1. CASE at["reader"] = "start"
    <3>1. s = c /\ e \notin {"send", "close"}
      BY <1>3, <1>5, <1>6, <2>1, RpcMethodsList DEF ServerCourse
    <3> QED BY <1>1, <1>6, <1>7, <3>1
  <2>2. CASE at["reader"] = "read"
    <3>1. Completes("server", "Read", c, shutdown = "shut_down", r, s) /\ fn = "Read"
      BY <1>2, <1>3, <1>5, <2>2, RpcMethodsList DEF Outcome
    <3>2. CASE r = "true"
      <4>1. e = "send" /\ s.up_read = c.up_read + 1
        BY <1>3, <1>5, <2>2, <3>1, <3>2 DEF ServerCourse, Ok, Completes
      <4>2. message'["reader"] = s.up[s.up_read]
        <5>1. message'["reader"] = Got("reader", fn, r, s)
          BY MovesSelf
        <5> QED BY <1>3, <3>1, <3>2, <5>1 DEF Got
      <4>3. s.accepted
        <5>1. AcceptInvariant /\ "bidirectional" # "never"
          BY DEF ProgramInvariant
        <5>2. at["reader"] \notin Resting \cup {"request"}
          BY <2>2 DEF Resting, Ended
        <5>3. c.accepted
          BY <1>3, <5>1, <5>2 DEF AcceptInvariant
        <5> QED BY <1>6, <5>3
      <4> HIDE DEF c, q, w, m
      <4>4. EchoOK(s, Append(q, s.up[s.up_read]), w, m)
        BY <1>1, <1>6, <1>7, <4>1, <4>3, EchoRead
      <4> QED BY <1>6, <1>7, <4>1, <4>2, <4>4
    <3>3. CASE r # "true"
      <4>1. r \notin Ok /\ s.up_read = c.up_read /\ (Dead(c) \/ (c.half_closed /\ c.up_read = Len(c.up)))
        BY <3>1, <3>3 DEF Ok, Completes
      <4>2. e # "send"
        BY <1>3, <1>5, <4>1 DEF ServerCourse
      <4> HIDE DEF c, q, w, m
      <4>3. Dead(c) => Dead(s)
        BY <1>6 DEF Dead
      <4>4. EchoOK(s, q, w, m)
        BY <1>1, <1>6, <4>1, <4>3, EchoSame
      <4>5. ~Dead(s) => q = <<>>
        <5>1. SUFFICES ASSUME ~Dead(s) PROVE q = <<>>
          OBVIOUS
        <5>2. /\ Taken(s, w) + Len(q) = s.up_read /\ Len(s.down) = Len(s.up)
              /\ s.up_read = Len(s.up)
          BY <1>6, <4>1, <4>3, <4>4, <5>1 DEF EchoOK, Dead
        <5>3. Len(s.down) \in Nat /\ Len(q) \in Nat /\ s.up_read \in Nat
          BY <1>6, <1>7 DEF CallOK, CallRecord
        <5>4. Taken(s, w) >= Len(s.down) /\ Taken(s, w) \in Nat
          <6>1. CASE w = "post"
            <7>1. Taken(s, w) = Len(s.down) + 1
              BY <6>1 DEF Taken
            <7> QED BY <5>3, <7>1
          <6>2. CASE w # "post"
            <7>1. Taken(s, w) = Len(s.down)
              BY <5>3, <6>2 DEF Taken
            <7> QED BY <5>3, <7>1
          <6> QED BY <6>1, <6>2
        <5>5. Len(q) = 0
          BY <5>2, <5>3, <5>4
        <5> QED BY <1>7, <5>5
      <4>6. CASE channel'.queue = q
        BY <1>6, <4>4, <4>6
      <4>7. CASE channel'.queue = <<>>
        <5>1. CASE Dead(s)
          BY <1>6, <4>4, <4>7, <5>1 DEF EchoOK
        <5> QED BY <1>6, <4>4, <4>5, <4>7, <5>1
      <4> QED BY <1>7, <4>2, <4>6, <4>7
    <3> QED BY <3>2, <3>3
  <2> QED BY <1>4, <2>1, <2>2
<1>9. EchoOK(u, channel'.queue, at'["writer"], message'["writer"])
  BY <1>8, EchoWriterStays
<1> QED BY <1>6, <1>9, EchoServerPing DEF EchoNext

(* The writer receives a request or answers it.                             *)
LEMMA EchoWriter ==
    ASSUME ProgramInvariant, EchoInvariant, example = "streaming_bidirectional",
           "writer" \in Frames, NEW fn, NEW r, NEW s, NEW p, NEW e, NEW u,
           Moves("writer", fn, r, s, p, e, u)
    PROVE  EchoNext
<1> DEFINE c == calls["bidirectional"]
           w == at["writer"]
           m == message["writer"]
           q == channel.queue
<1>1. EchoOK(c, q, w, m)
  BY DEF EchoInvariant
<1>2. fn \in pending["writer"] /\ Outcome("writer", fn, r, s)
  BY DEF Moves
<1>3. /\ ServerCourse(example, "writer", CallOf("writer"), w, Combined("writer", fn, r), p, e)
      /\ SideOf("writer") = "server" /\ CallOf("writer") = "bidirectional"
  BY EchoFrames DEF Moves, Edge, Course
<1>4. /\ w \in {"start", "receive", "post", "write"} /\ p # "finish"
      /\ p = "post" <=> (w = "receive" /\ Combined("writer", fn, r) \in Ok)
      /\ p = "write" <=> w = "post"
  BY <1>3 DEF ServerCourse, Ended
<1>5. fn = CASE w = "start" -> "start" [] w = "receive" -> "receive"
             [] w = "post" -> "post" [] w = "write" -> "Write"
  BY <1>2, <1>4, CompletedAt DEF AwaitAt
<1>6. Combined("writer", fn, r) = r
  BY <1>2, <1>4, <1>5, CompletedAt
<1>7. /\ CallOK(c) /\ CallOK(s) /\ CallOK(u) /\ calls'["bidirectional"] = u
      /\ s.up = c.up /\ s.half_closed = c.half_closed /\ s.dead = c.dead
      /\ s.down = c.down /\ s.status = c.status /\ s.held = c.held
      /\ u.up = s.up /\ u.half_closed = s.half_closed /\ u.dead = s.dead
      /\ u.accepted = s.accepted /\ u.up_read = s.up_read
      /\ fn \notin RpcMethods => s = c
      /\ c.accepted => s.accepted
      /\ fn \notin {"Request", "Read"} => s.up_read = c.up_read
      /\ p # "write" => u = s
      /\ c.held = <<>> /\ p = "write" =>
            /\ u.held = <<>> /\ s.status = "none" /\ u.status = "none"
            /\ u.down = IF ~Dead(s) THEN s.down \o <<Payload("writer", rounds'["writer"], message'["writer"])>>
                        ELSE s.down
  BY <1>4, EchoServerCall
<1>8. /\ q \in Seq(Nat)
      /\ channel'.queue = IF fn = "receive" /\ q # <<>> THEN Tail(q) ELSE q
  BY EchoChannel
<1>9. at'["writer"] = p /\ message'["writer"] = Got("writer", fn, r, s)
  BY MovesSelf
<1>10. Got("writer", fn, r, s) = IF r = "true" /\ fn = "receive" THEN Head(q) ELSE m
  <2>1. fn \notin {"Read", "Request"}
    BY <1>4, <1>5
  <2> QED BY <2>1 DEF Got
<1>11. CASE w = "start"
  <2>1. s = c /\ u = s /\ p # "post" /\ channel'.queue = q
    BY <1>4, <1>5, <1>7, <1>8, <1>11, RpcMethodsList
  <2>2. EchoOK(c, q, p, message'["writer"])
    <3> HIDE DEF c, q, m
    <3> QED BY <1>1, <1>11, <2>1, EchoIdle
  <2> QED BY <1>7, <1>9, <2>1, <2>2, EchoServerPing DEF EchoNext
<1>12. CASE w = "receive"
  <2>1. s = c /\ u = s /\ fn = "receive"
    BY <1>4, <1>5, <1>7, <1>12, RpcMethodsList
  <2>2. CASE r = "true"
    <3>1. p = "post" /\ q # <<>> /\ channel'.queue = Tail(q) /\ message'["writer"] = Head(q)
      BY <1>2, <1>4, <1>6, <1>8, <1>9, <1>10, <1>12, <2>1, <2>2 DEF Ok, Outcome
    <3>2. EchoOK(c, Tail(q), "post", Head(q))
      <4> HIDE DEF c, q, m
      <4> QED BY <1>1, <1>7, <1>8, <1>12, <3>1, EchoReceive
    <3> QED BY <1>7, <1>9, <2>1, <3>1, <3>2, EchoServerPing DEF EchoNext
  <2>3. CASE r # "true"
    <3>1. r = "false" /\ q = <<>>
      BY <1>2, <2>1, <2>3, RpcMethodsList DEF Outcome
    <3>2. p # "post" /\ channel'.queue = q
      BY <1>4, <1>6, <1>8, <3>1 DEF Ok
    <3>3. EchoOK(c, q, p, message'["writer"])
      <4> HIDE DEF c, q, m
      <4> QED BY <1>1, <1>12, <3>2, EchoIdle
    <3> QED BY <1>7, <1>9, <2>1, <3>2, <3>3, EchoServerPing DEF EchoNext
  <2> QED BY <2>2, <2>3
<1>13. CASE w = "post"
  <2>1. s = c /\ p = "write" /\ fn = "post" /\ channel'.queue = q /\ message'["writer"] = m
    BY <1>4, <1>5, <1>7, <1>8, <1>9, <1>10, <1>13, RpcMethodsList
  <2>2. Payload("writer", rounds'["writer"], message'["writer"]) = 2 * m
    BY <2>1 DEF Payload
  <2>3. c.held = <<>> /\ m \in Nat
    BY <1>1 DEF EchoOK, ProgramInvariant, TypeInvariant
  <2>4. /\ u.held = <<>> /\ c.status = "none" /\ u.status = c.status
        /\ u.down = IF ~Dead(c) THEN c.down \o <<2 * m>> ELSE c.down
    BY <1>7, <2>1, <2>2, <2>3
  <2>5. EchoOK(u, q, "write", m)
    <3> HIDE DEF c, q, m
    <3> QED BY <1>1, <1>7, <1>8, <1>13, <2>1, <2>3, <2>4, EchoAnswer
  <2> QED BY <1>7, <1>9, <2>1, <2>5, EchoServerPing DEF EchoNext
<1>14. CASE w = "write"
  <2>1. fn = "Write" /\ u = s /\ p # "post" /\ channel'.queue = q /\ s.up_read = c.up_read
    BY <1>4, <1>5, <1>7, <1>8, <1>14
  <2>2. EchoOK(s, q, w, m)
    <3>1. Dead(c) => Dead(s)
      BY <1>7 DEF Dead
    <3> HIDE DEF c, q, m, w
    <3> QED BY <1>1, <1>7, <2>1, <3>1, EchoSame
  <2>3. EchoOK(s, q, p, message'["writer"])
    <3> HIDE DEF c, q, m
    <3> QED BY <1>14, <2>1, <2>2, EchoIdle
  <2> QED BY <1>7, <1>9, <2>1, <2>3, EchoServerPing DEF EchoNext
<1> QED BY <1>4, <1>11, <1>12, <1>13, <1>14

(* The handler accepts the call and finishes it.                            *)
LEMMA EchoHandler ==
    ASSUME ProgramInvariant, EchoInvariant, example = "streaming_bidirectional",
           Handler \in Frames, NEW fn, NEW r, NEW s, NEW p, NEW e, NEW u,
           Moves(Handler, fn, r, s, p, e, u)
    PROVE  EchoNext
<1> DEFINE c == calls["bidirectional"]
           w == at["writer"]
           m == message["writer"]
           q == channel.queue
<1>0. Handler \notin {"reader", "writer"} /\ Handler \in {Handler, "reader", "writer"}
  BY DEF Handler
<1>1. EchoOK(c, q, w, m)
  BY DEF EchoInvariant
<1>2. fn \in pending[Handler] /\ Outcome(Handler, fn, r, s)
  BY DEF Moves
<1>3. /\ ServerCourse(example, Handler, CallOf(Handler), at[Handler], Combined(Handler, fn, r), p, e)
      /\ SideOf(Handler) = "server" /\ CallOf(Handler) = "bidirectional"
  BY EchoFrames DEF Moves, Edge, Course
<1>4. /\ at[Handler] \in {"start", "request", "reader_and_writer", "finish"}
      /\ p # "write"
  BY <1>0, <1>3 DEF ServerCourse, Ended
<1>5. fn \in {"start", "Request", "join", "Finish"}
  BY <1>2, <1>4, CompletedAt DEF AwaitAt
<1>6. /\ CallOK(c) /\ CallOK(s) /\ CallOK(u) /\ calls'["bidirectional"] = u
      /\ s.kind = "bidirectional"
      /\ s.up = c.up /\ s.half_closed = c.half_closed /\ s.dead = c.dead
      /\ s.down = c.down /\ s.status = c.status /\ s.held = c.held
      /\ u.up = s.up /\ u.half_closed = s.half_closed /\ u.dead = s.dead
      /\ u.accepted = s.accepted /\ u.up_read = s.up_read
      /\ c.accepted => s.accepted
      /\ fn \notin {"Request", "Read"} => s.up_read = c.up_read
      /\ p # "finish" => u = s
      /\ c.held = <<>> /\ p = "finish" =>
            /\ u.held = <<>> /\ u.down = s.down
            /\ u.status \in {s.status, "OK"} /\ ReadAll(s)
            /\ Dead(s) => u.status = s.status
  BY <1>0, <1>4, EchoServerCall
<1>7. channel'.queue = q
  BY <1>0, EchoChannel
<1>8. ~Dead(s) => s.up_read = c.up_read
  <2>1. CASE fn = "Request"
    <3>1. Completes("server", "Request", c, shutdown = "shut_down", r, s)
      BY <1>2, <1>3, <2>1, RpcMethodsList DEF Outcome
    <3>2. c.kind = "bidirectional"
      BY EchoFrames DEF ProgramInvariant, CallInvariant, KindOf
    <3>3. /\ r = "true" => ~c.accepted
          /\ s.up_read = IF r = "true" THEN 0 ELSE c.up_read
      BY <3>1, <3>2 DEF Completes, Multi, ServerMultiArgRequestInitFunction
    <3>4. ~Dead(s) => ~Dead(c)
      BY <1>6 DEF Dead
    <3> QED BY <1>1, <3>3, <3>4 DEF EchoOK
  <2>2. CASE fn # "Request"
    BY <1>5, <1>6, <2>2
  <2> QED BY <2>1, <2>2
<1> HIDE DEF c, q, m, w
<1>9. EchoOK(s, q, w, m)
  <2>1. Dead(c) => Dead(s)
    BY <1>6 DEF Dead
  <2> QED BY <1>1, <1>6, <1>8, <2>1, EchoSame
<1>10. EchoOK(u, q, w, m)
  <2>1. CASE p # "finish"
    BY <1>6, <1>9, <2>1
  <2>2. CASE p = "finish"
    <3>1. /\ c.held = <<>> /\ s.held = <<>> /\ s.status # "ERROR"
      BY <1>1, <1>9 DEF EchoOK
    <3>2. /\ u.held = <<>> /\ u.down = s.down
          /\ u.status \in {s.status, "OK"} /\ ReadAll(s)
          /\ Dead(s) => u.status = s.status
      BY <1>6, <2>2, <3>1
    <3>3. u.status = "OK" => Len(u.down) = Len(u.up)
      <4>1. CASE Dead(s)
        BY <1>6, <1>9, <3>2, <4>1 DEF EchoOK
      <4>2. CASE ~Dead(s)
        BY <1>6, <1>9, <3>2, <4>2 DEF EchoOK, ReadAll, Whole
      <4> QED BY <4>1, <4>2
    <3>4. Dead(u) <=> Dead(s)
      BY <1>6 DEF Dead
    <3>5. Taken(u, w) = Taken(s, w)
      BY <3>2 DEF Taken
    <3> QED BY <1>6, <1>9, <3>1, <3>2, <3>3, <3>4, <3>5 DEF EchoOK
  <2> QED BY <2>1, <2>2
<1>11. EchoOK(u, channel'.queue, at'["writer"], message'["writer"])
  <2>1. EchoOK(u, channel'.queue, at["writer"], message["writer"])
    BY <1>7, <1>10 DEF w, m, q
  <2> QED BY <1>0, <2>1, EchoWriterStays
<1> QED BY <1>0, <1>6, <1>11, EchoServerPing DEF EchoNext

(* A completion of the ping-pong: as long as the call lives, every answer   *)
(* is read before the next request is sent.                                 *)
LEMMA PingCompleted ==
    ASSUME ProgramInvariant, EchoInvariant, example = "streaming_bidirectional",
           at[Pinger] = "ping_pong", NEW fn \in pending[Pinger], NEW r, NEW s,
           Outcome(Pinger, fn, r, s), ~Dead(s)
    PROVE  /\ Combined(Pinger, fn, r) = "true"
           /\ Len(s.up) = s.down_read + (IF "Read" \in pending[Pinger] \ {fn} THEN 1 ELSE 0)
<1> DEFINE c == calls["bidirectional"]
<1>1. /\ Pinger \in Frames /\ CallOf(Pinger) = "bidirectional" /\ SideOf(Pinger) = "client"
      /\ "bidirectional" \in CallsOf(example)
  BY EchoFrames
<1>2. /\ CallOK(c) /\ ClosedInvariant
      /\ EchoOK(c, channel.queue, at["writer"], message["writer"])
      /\ PingOK(c, at[Pinger], pending[Pinger], result[Pinger])
  BY <1>1 DEF EchoInvariant, ProgramInvariant, CallInvariant
<1>3. fn \in {"Read", "Write"}
  BY <1>1, CompletedAt DEF AwaitAt
<1>4. Completes("client", fn, c, shutdown = "shut_down", r, s)
  BY <1>1, <1>3, RpcMethodsList DEF Outcome
<1>5. s.dead = c.dead /\ s.up = c.up /\ ~Dead(c)
  BY <1>4 DEF Completes, Dead
<1>6. ~c.half_closed
  <2>1. "ping_pong" \notin ClosedPoints(KindOf("bidirectional")) \cup Ended
    BY DEF ClosedPoints, KindOf, Multi, ServerMultiArgRequestInitFunction, Ended
  <2> QED BY <1>1, <1>2, <2>1 DEF ClosedInvariant
<1>7. c.status = "none"
  BY <1>2, <1>6 DEF EchoOK, CallOK, CallRecord, Whole
<1>8. r = "true"
  BY <1>3, <1>4, <1>5, <1>7 DEF Completes
<1>9. /\ result[Pinger] = "true"
      /\ Len(c.up) = c.down_read + (IF "Read" \in pending[Pinger] THEN 1 ELSE 0)
  BY <1>2, <1>5 DEF PingOK
<1>10. Combined(Pinger, fn, r) = "true"
  BY <1>8, <1>9 DEF Combined
<1>11. s.down_read \in Nat /\ c.down_read \in Nat
  BY <1>2, <1>4 DEF Completes, CallOK, CallRecord
<1>12. CASE fn = "Read"
  <2>1. s.down_read = c.down_read + 1
    BY <1>4, <1>8, <1>12 DEF Completes
  <2>2. Len(c.up) = c.down_read + 1
    BY <1>9, <1>12
  <2>3. Len(s.up) = s.down_read + 0
    BY <1>5, <1>11, <2>1, <2>2
  <2> QED BY <1>10, <1>12, <2>3
<1>13. CASE fn = "Write"
  <2>1. s.down_read = c.down_read
    BY <1>4, <1>13 DEF Completes
  <2>2. "Read" \in pending[Pinger] \ {fn} <=> "Read" \in pending[Pinger]
    BY <1>13
  <2> QED BY <1>5, <1>9, <1>10, <2>1, <2>2
<1> QED BY <1>3, <1>12, <1>13

(* What the completion of a step of the client leaves of the call.          *)
LEMMA PingerCompletes ==
    ASSUME ProgramInvariant, EchoInvariant, example = "streaming_bidirectional",
           NEW fn \in pending[Pinger], NEW r, NEW s, Outcome(Pinger, fn, r, s),
           NEW c, c = calls["bidirectional"]
    PROVE  /\ CallOK(s) /\ s.kind = "bidirectional"
           /\ s.up = c.up /\ s.down = c.down /\ s.dead = c.dead
           /\ EchoOK(s, channel.queue, at["writer"], message["writer"])
<1>1. /\ Pinger \in Frames /\ CallOf(Pinger) = "bidirectional" /\ SideOf(Pinger) = "client"
  BY EchoFrames
<1>2. /\ TypeInvariant /\ CallInvariant
      /\ EchoOK(c, channel.queue, at["writer"], message["writer"])
  BY DEF EchoInvariant, ProgramInvariant
<1>3. CallOK(s) /\ s.kind = "bidirectional"
  BY <1>1, <1>2, OutcomeCall DEF KindOf
<1>4. /\ s.up = c.up /\ s.down = c.down /\ s.dead = c.dead /\ s.status = c.status
      /\ s.held = c.held /\ s.half_closed = c.half_closed /\ s.up_read = c.up_read
      /\ s.accepted = c.accepted
  <2>1. CASE fn \in RpcMethods
    BY <1>1, <2>1 DEF Outcome, Completes
  <2>2. CASE fn \notin RpcMethods
    BY <1>1, <2>2 DEF Outcome
  <2> QED BY <2>1, <2>2
<1>5. Dead(c) => Dead(s)
  BY <1>4 DEF Dead
<1>6. EchoOK(s, channel.queue, at["writer"], message["writer"])
  BY <1>2, <1>4, <1>5, EchoSame
<1> QED BY <1>3, <1>4, <1>6

(* The client starts the call, sends a request, or closes its stream.       *)
LEMMA EchoPinger ==
    ASSUME ProgramInvariant, EchoInvariant, example = "streaming_bidirectional",
           Pinger \in Frames, NEW fn, NEW r, NEW s, NEW p, NEW e, NEW u,
           Moves(Pinger, fn, r, s, p, e, u)
    PROVE  EchoNext
<1> DEFINE c == calls["bidirectional"]
           w == at["writer"]
           m == message["writer"]
           q == channel.queue
           l == at[Pinger]
           n == Payload(Pinger, rounds'[Pinger], message'[Pinger])
           a == Act(e, p)
<1>0. Pinger \notin {"reader", "writer"}
  BY DEF Pinger
<1>1. /\ PingOK(c, l, pending[Pinger], result[Pinger])
      /\ EchoOK(c, q, w, m)
  BY DEF EchoInvariant
<1>2. fn \in pending[Pinger] /\ Outcome(Pinger, fn, r, s) /\ pending[Pinger] = {fn}
  BY DEF Moves
<1>3. /\ ClientCourse(example, CallOf(Pinger), l, Combined(Pinger, fn, r), p, e)
      /\ ClientEdge(CallOf(Pinger), l, Combined(Pinger, fn, r), p, e)
      /\ SideOf(Pinger) = "client" /\ CallOf(Pinger) = "bidirectional"
  BY EchoFrames DEF Moves, Edge, Course
<1>4. /\ l \in {"start", "request", "ping_pong", "writes_done", "finish"}
      /\ p \in {"request", "ping_pong", "writes_done", "finish"} \cup Ended
      /\ p = "ping_pong" => l \in {"request", "ping_pong"}
      /\ p = "writes_done" => l = "ping_pong"
      /\ p = "request" => l = "start"
      /\ e # "AsyncUnary"
  BY <1>3 DEF ClientCourse, ClientEdge, KindOf
<1>5. /\ CallOK(s) /\ s.kind = "bidirectional"
      /\ s.up = c.up /\ s.down = c.down /\ s.dead = c.dead
      /\ EchoOK(s, q, w, m)
  BY <1>2, PingerCompletes
<1>6. /\ calls'["bidirectional"] = u /\ channel'.queue = q /\ CallOK(u)
      /\ at'[Pinger] = p /\ pending'[Pinger] = AwaitsAt(p) /\ result'[Pinger] = "true"
  BY <1>0, <1>3, EchoFrames, MovesFacts, MovesSelf, EchoChannel
<1>7. SUFFICES EchoOK(u, q, w, m) /\ PingOK(u, p, AwaitsAt(p), "true")
  <2>1. SUFFICES ASSUME EchoOK(u, q, w, m) PROVE EchoOK(u, q, at'["writer"], message'["writer"])
    BY <1>6 DEF EchoNext
  <2> QED BY <1>0, <2>1, EchoWriterStays
<1>8. n \in Nat
  <2>1. rounds'[Pinger] \in Nat
    BY RoundsAssumption DEF Moves
  <2>2. message'[Pinger] \in Nat
    BY MovesFacts
  <2> QED BY <2>1, <2>2 DEF Payload
<1>9. p \notin Ended => MayInitiate("client", a, s) /\ u \in Initiate("client", a, n, s)
  BY <1>3 DEF Moves
<1>10. a = CASE p = "request" -> "Request" [] p = "ping_pong" -> "Write"
             [] p = "writes_done" -> "WritesDone" [] p = "finish" -> "Finish"
             [] OTHER -> a
  <2>1. p \in {"request", "writes_done", "finish"} => a = Sole(p) /\ AwaitAt(p) = {Sole(p)}
    BY <1>4, SoleAwaited DEF Act, Points
  <2>2. p = "ping_pong" => a = "Write"
    BY <1>4 DEF Act
  <2> HIDE DEF a
  <2> QED BY <2>1, <2>2 DEF AwaitAt
<1> HIDE DEF c, w, m, q, l, n, a
<1>11. p \notin Ended =>
         /\ Initiates("client", a, s, u)
         /\ a \notin Upstream => u = s
         /\ a # "WriteLast" => u.up = IF a = "Write" /\ ~Dead(s) THEN Append(s.up, n) ELSE s.up
  BY <1>5, <1>8, <1>9, ClientInitiate
<1>12. p \notin Ended =>
         /\ u.down = s.down /\ u.status = s.status /\ u.held = s.held
         /\ u.accepted = s.accepted /\ u.up_read = s.up_read /\ u.down_read = s.down_read
         /\ u.dead = s.dead
         /\ u.half_closed # s.half_closed => a \in Closing \cup (IF s.kind \in Multi THEN Opening ELSE {})
  <2>1. s.half_closed \in BOOLEAN /\ u.half_closed \in BOOLEAN
    BY <1>5, <1>6 DEF CallOK, CallRecord
  <2> QED BY <1>11, <2>1 DEF Initiates, CallStep
<1>13. CASE p \in {"finish"} \cup Ended
  <2>1. u = s
    BY <1>10, <1>11, <1>13 DEF Moves, Upstream, Opening, Closing
  <2>2. PingOK(u, p, AwaitsAt(p), "true")
    BY <1>13 DEF PingOK, Ended
  <2> QED BY <1>5, <2>1, <2>2
<1>14. CASE p = "request"
  <2>1. l = "start" /\ a = "Request" /\ p \notin Ended
    BY <1>4, <1>10, <1>14 DEF Ended
  <2>2. u.up = s.up /\ u.half_closed = s.half_closed
    BY <1>5, <1>11, <1>12, <2>1 DEF Closing, Multi, ServerMultiArgRequestInitFunction
  <2>3. Dead(s) => Dead(u)
    BY <1>12, <2>1 DEF Dead
  <2>4. EchoOK(u, q, w, m)
    BY <1>5, <1>12, <2>1, <2>2, <2>3, EchoSame
  <2>5. PingOK(u, p, AwaitsAt(p), "true")
    <3>1. ~Dead(u) => ~Dead(c)
      BY <1>5, <1>12, <2>1 DEF Dead
    <3> QED BY <1>1, <1>5, <1>14, <2>1, <2>2, <3>1 DEF PingOK
  <2> QED BY <2>4, <2>5
<1>15. ~Dead(s) /\ l \in {"request", "ping_pong"} => Len(s.up) = s.down_read
  <2>1. SUFFICES ASSUME ~Dead(s), l \in {"request", "ping_pong"} PROVE Len(s.up) = s.down_read
    OBVIOUS
  <2>2. s.down_read \in Nat /\ Len(s.down) \in Nat /\ s.down_read <= Len(s.down) /\ Len(s.up) \in Nat
    BY <1>5 DEF CallOK, CallRecord
  <2>3. CASE l = "request"
    <3>1. Len(c.up) = 0
      BY <1>1, <1>5, <2>1, <2>3 DEF PingOK, Dead
    <3>2. Len(s.down) <= Len(s.up)
      BY <1>5 DEF EchoOK
    <3> QED BY <1>5, <2>2, <3>1, <3>2
  <2>4. CASE l = "ping_pong"
    <3>1. Len(s.up) = s.down_read + (IF "Read" \in pending[Pinger] \ {fn} THEN 1 ELSE 0)
      BY <1>2, <2>1, <2>4, PingCompleted DEF l
    <3>2. "Read" \notin pending[Pinger] \ {fn}
      BY <1>2
    <3>3. Len(s.up) = s.down_read + 0
      BY <3>1, <3>2
    <3> QED BY <2>2, <3>3
  <2> QED BY <2>1, <2>3, <2>4
<1>16. CASE p = "ping_pong"
  <2>1. l \in {"request", "ping_pong"} /\ a = "Write" /\ p \notin Ended
    BY <1>4, <1>10, <1>16 DEF Ended
  <2>2. u.half_closed = s.half_closed /\ u.up = IF ~Dead(s) THEN Append(s.up, n) ELSE s.up
    BY <1>5, <1>11, <1>12, <2>1 DEF Closing, Multi, ServerMultiArgRequestInitFunction
  <2>3. CASE Dead(s)
    <3>1. Dead(u)
      BY <1>12, <2>1, <2>3 DEF Dead
    <3>2. EchoOK(u, q, w, m)
      BY <1>5, <1>12, <2>1, <2>2, <2>3, <3>1, EchoSame
    <3> QED BY <3>1, <3>2 DEF PingOK
  <2>4. CASE ~Dead(s)
    <3>1. ~s.half_closed
      BY <1>9, <2>1, RpcMethodsList DEF MayInitiate, Upstream
    <3>2. q \in Seq(Nat)
      BY EchoChannel DEF q
    <3>3. EchoOK(u, q, w, m) /\ Len(u.up) = Len(s.up) + 1
      BY <1>5, <1>6, <1>8, <1>12, <2>1, <2>2, <2>4, <3>1, <3>2, EchoWritten
    <3>4. Len(u.up) = u.down_read + 1
      BY <1>12, <1>15, <2>1, <2>4, <3>3
    <3>5. "Read" \in AwaitsAt(p)
      BY <1>16, <2>1 DEF AwaitsAt, AwaitAt
    <3> QED BY <1>16, <3>3, <3>4, <3>5 DEF PingOK
  <2> QED BY <2>3, <2>4
<1>17. CASE p = "writes_done"
  <2>1. l = "ping_pong" /\ a = "WritesDone" /\ p \notin Ended
    BY <1>4, <1>10, <1>17 DEF Ended
  <2>2. u.up = s.up
    BY <1>11, <2>1
  <2>3. ~Dead(s) => Len(s.down) = Len(s.up)
    <3>1. SUFFICES ASSUME ~Dead(s) PROVE Len(s.down) = Len(s.up)
      OBVIOUS
    <3>2. Len(s.up) = s.down_read /\ Len(s.down) <= Len(s.up)
      BY <1>5, <1>15, <2>1, <3>1 DEF EchoOK
    <3>3. s.down_read <= Len(s.down) /\ Len(s.down) \in Nat /\ s.down_read \in Nat
      BY <1>5 DEF CallOK, CallRecord
    <3> QED BY <3>2, <3>3
  <2>4. EchoOK(u, q, w, m)
    BY <1>5, <1>12, <2>1, <2>2, <2>3, EchoClosed
  <2>5. PingOK(u, p, AwaitsAt(p), "true")
    BY <1>17 DEF PingOK
  <2> QED BY <2>4, <2>5
<1> QED BY <1>4, <1>13, <1>14, <1>16, <1>17

(* One of the two operations of the ping-pong completes.                    *)
LEMMA EchoPart ==
    ASSUME ProgramInvariant, EchoInvariant, example = "streaming_bidirectional",
           NEW f \in Frames, NEW fn \in pending[f], NEW r, NEW s, Part(f, fn, r, s)
    PROVE  EchoNext
<1>1. /\ TypeInvariant /\ ControlInvariant /\ CallInvariant /\ Outcome(f, fn, r, s)
      /\ at[f] \in {"ping_pong", "deadline"}
  BY DEF ProgramInvariant, Part
<1>2. f = Pinger /\ at[f] = "ping_pong"
  <2>1. /\ TableOK(example, f, SideOf(f), CallOf(f), TableOf(f))
        /\ at[f] \in LiveAt(f)
    BY <1>1, FrameFacts, CompletedAt
  <2>2. \/ at[f] = "ping_pong" /\ SideOf(f) = "client" /\ CallOf(f) = "bidirectional"
        \/ CallOf(f) = "slow_unary"
    BY <1>1, <2>1 DEF TableOK, LiveAt, Live
  <2> QED BY <2>2, EchoFrames
<1>3. fn \in {"Read", "Write"} /\ CallOf(f) = "bidirectional" /\ f # "writer" /\ "writer" \in Frames
  BY <1>1, <1>2, CompletedAt, EchoFrames DEF AwaitAt, Pinger
<1>4. calls'["bidirectional"] = s
  BY <1>3, PartCall
<1>5. EchoOK(s, channel.queue, at["writer"], message["writer"])
  BY <1>1, <1>2, PingerCompletes
<1>6. /\ channel' = channel /\ at' = at /\ message'["writer"] = message["writer"]
      /\ pending'[Pinger] = pending[Pinger] \ {fn}
      /\ result'[Pinger] = Combined(Pinger, fn, r)
  BY <1>1, <1>2, <1>3 DEF Part, TypeInvariant
<1>7. PingOK(s, at[Pinger], pending'[Pinger], result'[Pinger])
  <2>1. SUFFICES ASSUME ~Dead(s)
                 PROVE  /\ Len(s.up) = s.down_read + (IF "Read" \in pending'[Pinger] THEN 1 ELSE 0)
                        /\ result'[Pinger] = "true"
    BY <1>2 DEF PingOK
  <2>2. /\ Combined(Pinger, fn, r) = "true"
        /\ Len(s.up) = s.down_read + (IF "Read" \in pending[Pinger] \ {fn} THEN 1 ELSE 0)
    BY <1>1, <1>2, <2>1, PingCompleted
  <2> QED BY <1>6, <2>2
<1> QED BY <1>4, <1>5, <1>6, <1>7 DEF EchoNext

(* The client aborts, or the call fails.                                    *)
LEMMA EchoFails ==
    ASSUME ProgramInvariant, EchoInvariant, example = "streaming_bidirectional",
           UNCHANGED <<message, result, channel>>,
           \/ UNCHANGED <<at, pending>>
           \/ ClientsAbort,
           LET c == calls["bidirectional"]
           IN calls'["bidirectional"] = c \/ calls'["bidirectional"] = Kill(c, "ERROR")
    PROVE  EchoNext
<1> DEFINE c == calls["bidirectional"]
<1>1. /\ CallOK(c) /\ EchoOK(c, channel.queue, at["writer"], message["writer"])
      /\ PingOK(c, at[Pinger], pending[Pinger], result[Pinger])
      /\ calls'["bidirectional"] = c \/ calls'["bidirectional"] = Kill(c, "ERROR")
  BY EchoFrames DEF EchoInvariant, ProgramInvariant, CallInvariant
<1>2. /\ at'["writer"] = at["writer"]
      /\ at'[Pinger] = at[Pinger] \/ at'[Pinger] = "aborted"
      /\ at'[Pinger] = at[Pinger] => pending'[Pinger] = pending[Pinger] \/ at'[Pinger] = "aborted"
  BY EchoFrames DEF ClientsAbort
<1> HIDE DEF c
<1>3. EchoOK(calls'["bidirectional"], channel.queue, at["writer"], message["writer"])
  <2>1. CASE calls'["bidirectional"] = c
    BY <1>1, <2>1
  <2>2. CASE calls'["bidirectional"] = Kill(c, "ERROR")
    BY <1>1, <2>2, EchoKilled
  <2> QED BY <1>1, <2>1, <2>2
<1>4. PingOK(calls'["bidirectional"], at'[Pinger], pending'[Pinger], result[Pinger])
  <2>1. CASE at'[Pinger] = "aborted"
    BY <2>1 DEF PingOK
  <2>2. CASE at'[Pinger] = at[Pinger] /\ pending'[Pinger] = pending[Pinger]
    <3>1. CASE calls'["bidirectional"] = c
      BY <1>1, <2>2, <3>1
    <3>2. CASE calls'["bidirectional"] = Kill(c, "ERROR")
      <4>1. PingOK(Kill(c, "ERROR"), at[Pinger], pending[Pinger], result[Pinger])
        BY <1>1, EchoKilled
      <4> QED BY <2>2, <3>2, <4>1
    <3> QED BY <1>1, <3>1, <3>2
  <2> QED BY <1>2, <2>1, <2>2
<1> QED BY <1>2, <1>3, <1>4 DEF EchoNext

(* Every step preserves the invariant.                                      *)
LEMMA NextEcho ==
    ASSUME ProgramInvariant, EchoInvariant, [Next]_vars
    PROVE  EchoInvariant'
<1>0. example' = example
  <2>1. ASSUME NEW f \in Frames, Step(f) PROVE example' = example
    BY <2>1 DEF Step, CompletePart, Resume, ResumeTo, AbortClient
  <2> QED BY <2>1 DEF Next, Progress, CancelSignals, ShutdownServer, RefuseCall, CallFails,
                      Signal, Done, vars
<1>1. SUFFICES ASSUME example = "streaming_bidirectional" PROVE EchoNext
  BY <1>0 DEF EchoInvariant, EchoNext
<1>2. TypeInvariant /\ "bidirectional" \in CallsOf(example)
  BY <1>1, EchoFrames DEF ProgramInvariant
<1>3. ASSUME NEW f \in Frames, Step(f) PROVE EchoNext
  <2>1. PICK fn \in pending[f] : CompletePart(f, fn) \/ Resume(f, fn) \/ AbortClient(f, fn)
    BY <1>3 DEF Step
  <2>2. CASE CompletePart(f, fn)
    BY <1>1, <2>2, CompletePartIs, EchoPart
  <2>3. CASE Resume(f, fn)
    <3>1. PICK r, s, p, e, u : Moves(f, fn, r, s, p, e, u)
      BY <2>3, ResumeMoves
    <3>2. CASE f \notin {Handler, Pinger, "reader", "writer"}
      BY <1>1, <3>1, <3>2, EchoOutsider
    <3>3. CASE f = "reader"
      BY <1>1, <3>1, <3>3, EchoReader
    <3>4. CASE f = "writer"
      BY <1>1, <3>1, <3>4, EchoWriter
    <3>5. CASE f = Handler
      BY <1>1, <3>1, <3>5, EchoHandler
    <3>6. CASE f = Pinger
      BY <1>1, <3>1, <3>6, EchoPinger
    <3> QED BY <3>2, <3>3, <3>4, <3>5, <3>6
  <2>4. CASE AbortClient(f, fn)
    <3>1. /\ UNCHANGED <<message, result, channel>> /\ ClientsAbort
          /\ calls'["bidirectional"] = Kill(calls["bidirectional"], "ERROR")
      BY <1>2, <2>4 DEF AbortClient, ClientsAbort, TypeInvariant
    <3> QED BY <1>1, <3>1, EchoFails
  <2> QED BY <2>1, <2>2, <2>3, <2>4
<1>4. CASE \/ CancelSignals \/ ShutdownServer \/ Signal
           \/ \E c \in DOMAIN calls : RefuseCall(c) \/ CallFails(c)
           \/ UNCHANGED vars
  <2>1. UNCHANGED <<at, pending, message, result, channel>>
    BY <1>4 DEF CancelSignals, ShutdownServer, Signal, RefuseCall, CallFails, vars
  <2>2. \/ UNCHANGED calls
        \/ \E c \in DOMAIN calls : calls' = [calls EXCEPT ![c] = Kill(@, "ERROR")]
    BY <1>4 DEF CancelSignals, ShutdownServer, Signal, RefuseCall, CallFails, vars
  <2>3. \/ calls'["bidirectional"] = calls["bidirectional"]
        \/ calls'["bidirectional"] = Kill(calls["bidirectional"], "ERROR")
    BY <1>2, <2>2 DEF TypeInvariant
  <2> QED BY <1>1, <2>1, <2>3, EchoFails
<1> QED BY <1>3, <1>4 DEF Next, Progress, Done

(* The first states.                                                        *)
LEMMA InitEcho ==
    ASSUME Init, ProgramInvariant
    PROVE  EchoInvariant
<1>1. SUFFICES ASSUME example = "streaming_bidirectional"
      PROVE  /\ EchoOK(calls["bidirectional"], channel.queue, at["writer"], message["writer"])
             /\ PingOK(calls["bidirectional"], at[Pinger], pending[Pinger], result[Pinger])
  BY DEF EchoInvariant
<1> DEFINE c == calls["bidirectional"]
<1>2. /\ "bidirectional" \in CallsOf(example) /\ "writer" \in Frames /\ Pinger \in Frames
      /\ SideOf("writer") = "server" /\ CallOf("writer") = "bidirectional"
      /\ SideOf(Pinger) = "client"
  BY <1>1, EchoFrames
<1>3. c = NewCall(KindOf("bidirectional")) /\ channel.queue = <<>>
  BY <1>2 DEF Init
<1>4. /\ c.held = <<>> /\ c.status = "none" /\ c.down = <<>> /\ c.up = <<>>
      /\ c.up_read = 0 /\ c.down_read = 0 /\ c.half_closed = FALSE /\ c.accepted = FALSE
  BY <1>3 DEF NewCall
<1>5. at["writer"] # "post"
  <2>1. AcceptInvariant /\ "bidirectional" # "never"
    BY DEF ProgramInvariant
  <2>2. at["writer"] \in Resting \cup {"request"}
    BY <1>2, <1>4, <2>1 DEF AcceptInvariant
  <2> QED BY <2>2 DEF Resting, Ended
<1>6. at[Pinger] \in {"idle", "start"}
  BY <1>2 DEF Init
<1>7. Len(c.down) = 0 /\ Len(c.up) = 0 /\ Len(channel.queue) = 0
  BY <1>3, <1>4
<1>8. Taken(c, at["writer"]) = 0
  BY <1>5, <1>7 DEF Taken
<1> HIDE DEF c
<1>9. EchoOK(c, channel.queue, at["writer"], message["writer"])
  BY <1>4, <1>5, <1>7, <1>8 DEF EchoOK
<1>10. PingOK(c, at[Pinger], pending[Pinger], result[Pinger])
  BY <1>6, <1>7 DEF PingOK
<1> QED BY <1>9, <1>10 DEF c

(* The answers of the bidirectional call are those to its requests, in      *)
(* every behaviour.                                                         *)
THEOREM EchoInvariantAlways == Spec => []EchoInvariant
<1>1. Init /\ ProgramInvariant => EchoInvariant
  BY InitEcho
<1>2. ProgramInvariant /\ EchoInvariant /\ [Next]_vars => EchoInvariant'
  BY NextEcho
<1> QED BY <1>1, <1>2, ProgramInvariantAlways, PTL DEF Spec

(* The writer belongs to the streaming example.                             *)
LEMMA WriterOf ==
    ASSUME TypeInvariant, "writer" \in Frames
    PROVE  example = "streaming_bidirectional"
<1>1. example # "streaming_client_streaming"
  BY Frames_streaming_client_streaming DEF Frames
<1>2. example # "streaming_slow_unary"
  BY Frames_streaming_slow_unary DEF Frames
<1>3. example # "unifex"
  BY Frames_unifex DEF Frames
<1>4. example # "hello_world"
  BY Frames_hello_world DEF Frames
<1>5. example # "share_io_context"
  BY Frames_share_io_context DEF Frames
<1>6. example # "unary"
  BY Frames_unary DEF Frames
<1>7. example # "client_streaming"
  BY Frames_client_streaming DEF Frames
<1>8. example # "server_streaming"
  BY Frames_server_streaming DEF Frames
<1>9. example # "bidirectional"
  BY Frames_bidirectional DEF Frames
<1> QED BY <1>1, <1>2, <1>3, <1>4, <1>5, <1>6, <1>7, <1>8, <1>9, ProgramNames DEF TypeInvariant

(* When a client has received the status OK, each side has read all that    *)
(* the other one has sent, and handle_bidirectional_streaming_request has   *)
(* answered every request.                                                  *)
THEOREM DeliveredWholeAlways == Spec => []DeliveredWhole
<1>1. ProgramInvariant /\ EchoInvariant => DeliveredWhole
  <2>1. SUFFICES ASSUME ProgramInvariant, EchoInvariant, NEW c \in DOMAIN calls
        PROVE  /\ calls[c].received = "OK" =>
                    /\ calls[c].up_read = Len(calls[c].up)
                    /\ calls[c].down_read = Len(calls[c].down)
                    /\ calls[c].held = <<>>
               /\ c = "bidirectional" /\ "writer" \in Frames =>
                    /\ \A i \in 1 .. Len(calls[c].down) : calls[c].down[i] = 2 * calls[c].up[i]
                    /\ calls[c].status = "OK" => Len(calls[c].down) = Len(calls[c].up)
    BY DEF DeliveredWhole
  <2>2. TypeInvariant /\ CallOK(calls[c])
    BY <2>1 DEF ProgramInvariant, TypeInvariant, CallInvariant
  <2>3. calls[c].received = "OK" =>
            /\ calls[c].up_read = Len(calls[c].up)
            /\ calls[c].down_read = Len(calls[c].down)
            /\ calls[c].held = <<>>
    BY <2>2 DEF CallOK, Whole
  <2>4. ASSUME c = "bidirectional", "writer" \in Frames
        PROVE  /\ \A i \in 1 .. Len(calls[c].down) : calls[c].down[i] = 2 * calls[c].up[i]
               /\ calls[c].status = "OK" => Len(calls[c].down) = Len(calls[c].up)
    <3>1. example = "streaming_bidirectional"
      BY <2>2, <2>4, WriterOf
    <3>2. EchoOK(calls[c], channel.queue, at["writer"], message["writer"])
      BY <2>1, <2>4, <3>1 DEF EchoInvariant
    <3> QED BY <3>2 DEF EchoOK
  <2> QED BY <2>3, <2>4
<1> QED BY <1>1, ProgramInvariantAlways, EchoInvariantAlways, PTL

-----------------------------------------------------------------------------
Slow == "make_and_cancel_unary_request"

(* The coroutines that work on the slow call.                               *)
LEMMA SlowFrames ==
    ASSUME TypeInvariant, "slow_unary" \in CallsOf(example)
    PROVE  /\ Slow \in Frames /\ SideOf(Slow) = "client" /\ CallOf(Slow) = "slow_unary"
           /\ example \notin {"unary", "client_streaming"}
           /\ \A f \in Frames : CallOf(f) = "slow_unary" /\ f # Slow => SideOf(f) = "server"
<1>0. PICK h \in Frames : CallOf(h) = "slow_unary"
  BY DEF CallsOf, CallOf, Frames
<1>1. example # "streaming_client_streaming"
  BY <1>0, SidesOf, Frames_streaming_client_streaming DEF Frames, CallOf
<1>2. example # "streaming_bidirectional"
  BY <1>0, SidesOf, Frames_streaming_bidirectional DEF Frames, CallOf
<1>3. example # "hello_world"
  BY <1>0, SidesOf, Frames_hello_world DEF Frames, CallOf
<1>4. example # "share_io_context"
  BY <1>0, SidesOf, Frames_share_io_context DEF Frames, CallOf
<1>5. example # "unary"
  BY <1>0, SidesOf, Frames_unary DEF Frames, CallOf
<1>6. example # "client_streaming"
  BY <1>0, SidesOf, Frames_client_streaming DEF Frames, CallOf
<1>7. example # "server_streaming"
  BY <1>0, SidesOf, Frames_server_streaming DEF Frames, CallOf
<1>8. example # "bidirectional"
  BY <1>0, SidesOf, Frames_bidirectional DEF Frames, CallOf
<1>9. example \in {"streaming_slow_unary", "unifex"}
  BY <1>1, <1>2, <1>3, <1>4, <1>5, <1>6, <1>7, <1>8, ProgramNames DEF TypeInvariant
<1>10. Slow \in Frames /\ SideOf(Slow) = "client" /\ CallOf(Slow) = "slow_unary"
  <2>1. CASE example = "streaming_slow_unary"
    BY <2>1, SidesOf, Frames_streaming_slow_unary DEF Frames, SideOf, CallOf, Slow
  <2>2. CASE example = "unifex"
    BY <2>2, SidesOf, Frames_unifex DEF Frames, SideOf, CallOf, Slow
  <2> QED BY <1>9, <2>1, <2>2
<1>11. ASSUME NEW f \in Frames, CallOf(f) = "slow_unary", f # Slow
       PROVE  SideOf(f) = "server"
  <2>1. SideOf(f) \in Sides /\ example \in DOMAIN Programs
    BY FrameFacts DEF TypeInvariant
  <2>2. ~(SideOf(f) = "client")
    BY <1>10, <1>11, <2>1, SidesAndCalls DEF Frames, SideOf, CallOf
  <2> QED BY <2>1, <2>2 DEF Sides
<1> QED BY <1>5, <1>6, <1>10, <1>11

(* A point where two things are awaited tells the call.                     *)
LEMMA PointOfCall ==
    ASSUME ProgramInvariant, NEW f \in Frames
    PROVE  /\ at[f] = "deadline" => SideOf(f) = "client" /\ CallOf(f) = "slow_unary" /\ f = Slow
           /\ at[f] = "ping_pong" => CallOf(f) = "bidirectional"
<1>1. TypeInvariant /\ ControlInvariant /\ TableOK(example, f, SideOf(f), CallOf(f), TableOf(f))
      /\ CallOf(f) \in CallsOf(example)
  BY FrameFacts DEF ProgramInvariant
<1>2. at[f] \in {"deadline", "ping_pong"} => at[f] \in LiveAt(f)
  BY <1>1 DEF ControlInvariant, Resting, Ended
<1>3. /\ at[f] = "deadline" => SideOf(f) = "client" /\ CallOf(f) = "slow_unary"
      /\ at[f] = "ping_pong" => CallOf(f) = "bidirectional"
  BY <1>1, <1>2 DEF TableOK, LiveAt, Live
<1>4. at[f] = "deadline" => f = Slow
  BY <1>1, <1>3, SlowFrames
<1> QED BY <1>3, <1>4

-----------------------------------------------------------------------------
(* The answer to the unary request of share_io_context is the request.      *)
ReplyOK(s, l) ==
    /\ s.held = <<>>
    /\ l \in {"idle", "start", "request"} => s.down = <<>>
    /\ s.down # <<>> => s.accepted /\ s.down = <<s.up[1]>>
    /\ s.status # "none" => s.down # <<>>

ReplyInvariant ==
    example = "share_io_context" => ReplyOK(calls["unary"], at["server"])

(* The coroutines of share_io_context.                                      *)
LEMMA ReplyFrames ==
    ASSUME example = "share_io_context"
    PROVE  /\ Frames = {"server", "client"} /\ "unary" \in CallsOf(example)
           /\ SideOf("server") = "server" /\ CallOf("server") = "unary"
           /\ SideOf("client") = "client" /\ CallOf("client") = "unary"
           /\ DOMAIN TableOf("server") = {"start", "request", "finish"}
<1>1. /\ Frames = {"server", "client"}
      /\ SideOf("server") = "server" /\ CallOf("server") = "unary"
      /\ SideOf("client") = "client" /\ CallOf("client") = "unary"
      /\ TableOf("server") = handle_grpc_request
  BY Frames_share_io_context, SidesOf DEF Frames, SideOf, CallOf, TableOf
<1>2. DOMAIN handle_grpc_request = {"start", "request", "finish"}
  BY DEF handle_grpc_request
<1> QED BY <1>1, <1>2 DEF CallsOf, CallOf, Frames

(* What the completion of an operation does not change.                     *)
LEMMA ReplyCompletes ==
    ASSUME ProgramInvariant, NEW f \in Frames, NEW fn, NEW r, NEW s, Outcome(f, fn, r, s)
    PROVE  /\ s.up = calls[CallOf(f)].up /\ s.down = calls[CallOf(f)].down
           /\ s.held = calls[CallOf(f)].held /\ s.status = calls[CallOf(f)].status
           /\ s.half_closed = calls[CallOf(f)].half_closed
           /\ calls[CallOf(f)].accepted => s.accepted
<1>1. CASE fn \in RpcMethods
  BY <1>1 DEF Outcome, Completes, CallStep
<1>2. CASE fn \notin RpcMethods
  BY <1>2 DEF Outcome
<1> QED BY <1>1, <1>2

(* The server moves: it answers with the message that came with the call.   *)
LEMMA ReplyServer ==
    ASSUME ProgramInvariant, ReplyInvariant, example = "share_io_context",
           NEW f, f = "server",
           NEW fn, NEW r, NEW s, NEW p, NEW e, NEW u, Moves(f, fn, r, s, p, e, u)
    PROVE  ReplyOK(calls'["unary"], at'["server"])
<1> DEFINE t == calls["unary"]
           l == at[f]
<1>1. /\ f \in Frames /\ SideOf(f) = "server" /\ CallOf(f) = "unary"
      /\ "unary" \in CallsOf(example) /\ DOMAIN TableOf(f) = {"start", "request", "finish"}
  BY ReplyFrames
<1>2. /\ TypeInvariant /\ ControlInvariant /\ CallInvariant
      /\ fn \in pending[f] /\ Outcome(f, fn, r, s) /\ l \notin Resting
  <2>1. TypeInvariant /\ ControlInvariant /\ CallInvariant
    BY DEF ProgramInvariant
  <2>2. fn \in pending[f] /\ Outcome(f, fn, r, s)
    BY DEF Moves
  <2>3. l \notin Resting
    BY <1>1, MovesFacts
  <2> QED BY <2>1, <2>2, <2>3
<1>3. calls'["unary"] = u /\ at'[f] = p
  BY <1>1, MovesFacts, MovesSelf
<1>4. /\ s.up = t.up /\ s.down = t.down /\ s.held = t.held /\ s.status = t.status
      /\ t.accepted => s.accepted
  BY <1>1, <1>2, ReplyCompletes
<1>5. CallOK(s) /\ s.kind = "unary"
  BY <1>1, <1>2, OutcomeCall DEF KindOf
<1>6. ReplyOK(t, l)
  BY DEF ReplyInvariant
<1>7. ServerEdge(example, "unary", ReadyPoints(f), l, Combined(f, fn, r), p, e)
  BY <1>1 DEF Moves, Edge
<1>8. CASE p \in Ended
  <2>1. u = s /\ p \notin {"idle", "start", "request"}
    BY <1>8 DEF Moves, Ended
  <2> HIDE DEF t
  <2> QED BY <1>3, <1>4, <1>6, <2>1 DEF ReplyOK
<1>9. CASE p \notin Ended
  <2> DEFINE m == Payload(f, rounds'[f], message'[f])
  <2>1. MayInitiate("server", Act(e, p), s) /\ u \in Initiate("server", Act(e, p), m, s)
    BY <1>1, <1>9 DEF Moves
  <2>2. m = message'[f] /\ m \in Nat
    BY <1>1, MovesFacts DEF Payload
  <2>3. p \in {"request", "finish"}
    BY <1>1, <1>9 DEF Moves, LiveAt, Live
  <2>4. e # "AsyncUnary"
    BY <1>7 DEF ServerEdge
  <2>5. Act(e, p) = IF p = "request" THEN "Request" ELSE "Finish"
    BY <2>3, <2>4 DEF Act, Sole, AwaitAt
  <2> HIDE DEF m, t
  <2>6. CASE p = "request"
    <3>1. l = "start"
      BY <1>7, <2>6 DEF ServerEdge
    <3>2. u = s
      <4>1. MayInitiate("server", "Request", s) /\ u \in Initiate("server", "Request", m, s)
        BY <2>1, <2>5, <2>6
      <4>2. CallOK(s)
        BY <1>5
      <4> QED BY <2>2, <4>1, <4>2, ServerInitiate
    <3> QED BY <1>3, <1>4, <1>6, <3>1, <3>2 DEF ReplyOK
  <2>7. CASE p = "finish"
    <3>1. l # "start" /\ l # "finish"
      BY <1>1, <1>7, <1>9, <2>7 DEF ServerEdge, ReadyPoints, FinalPoints
    <3>2. l = "request"
      BY <1>1, <1>2, <3>1 DEF ControlInvariant, LiveAt, Live
    <3>3. fn = "Request" /\ Combined(f, fn, r) = r
      BY <1>1, <1>2, <3>2, CompletedAt DEF AwaitAt
    <3>4. Completes("server", "Request", calls["unary"], shutdown = "shut_down", r, s)
      BY <1>1, <1>2, <3>3, RpcMethodsList DEF Outcome
    <3>5. r = "true" /\ s.accepted
      <4>1. r \in Ok
        BY <1>7, <1>9, <3>2, <3>3 DEF ServerEdge
      <4> QED BY <3>4, <4>1 DEF Completes, Ok
    <3>6. s.up_read = 1
      BY <1>5, <3>5 DEF CallOK, Multi, ServerMultiArgRequestInitFunction
    <3>7. m = s.up[1]
      <4>1. Got(f, fn, r, s) = s.up[1]
        BY <3>3, <3>5, <3>6 DEF Got
      <4> QED BY <1>1, <2>2, <4>1, MovesSelf
    <3>8. t.down = <<>> /\ t.held = <<>> /\ t.status = "none"
      BY <1>6, <3>2 DEF ReplyOK
    <3>9. /\ Initiates("server", "Finish", s, u)
          /\ Dead(s) => u.status = s.status
          /\ u.held = <<>> /\ u.down = IF Dead(s) THEN <<>> ELSE <<m>>
      BY <1>4, <1>5, <2>1, <2>2, <2>5, <2>7, <3>8, ServerInitiate DEF Finishing
    <3>10. u.up = s.up /\ u.accepted = s.accepted
      BY <3>9 DEF Initiates
    <3>11. <<m>> # <<>>
      OBVIOUS
    <3> QED BY <1>3, <1>4, <2>7, <3>5, <3>7, <3>8, <3>9, <3>10, <3>11 DEF ReplyOK
  <2> QED BY <2>3, <2>6, <2>7
<1> QED BY <1>8, <1>9

(* The client moves: the request is sent once.                              *)
LEMMA ReplyClient ==
    ASSUME ProgramInvariant, ReplyInvariant, example = "share_io_context",
           NEW f, f = "client",
           NEW fn, NEW r, NEW s, NEW p, NEW e, NEW u, Moves(f, fn, r, s, p, e, u)
    PROVE  ReplyOK(calls'["unary"], at'["server"])
<1> DEFINE t == calls["unary"]
<1>1. /\ f \in Frames /\ "server" \in Frames /\ "server" # f
      /\ SideOf(f) = "client" /\ CallOf(f) = "unary" /\ "unary" \in CallsOf(example)
  BY ReplyFrames
<1>2. /\ TypeInvariant /\ CallInvariant /\ fn \in pending[f] /\ Outcome(f, fn, r, s)
  BY <1>1, MovesFacts DEF ProgramInvariant, Moves
<1>3. calls'["unary"] = u
  BY <1>1, MovesFacts
<1>4. /\ s.up = t.up /\ s.down = t.down /\ s.held = t.held /\ s.status = t.status
      /\ s.half_closed = t.half_closed
      /\ t.accepted => s.accepted
  BY <1>1, <1>2, ReplyCompletes
<1>5. CallOK(s) /\ s.kind = "unary" /\ CallOK(t) /\ t.kind = "unary"
  BY <1>1, <1>2, OutcomeCall DEF KindOf, CallInvariant
<1>6. /\ ReplyOK(t, at["server"])
      /\ \/ at'["server"] = at["server"]
         \/ at["server"] = "idle" /\ at'["server"] = "start"
  BY <1>1, MovesOthers DEF ReplyInvariant
<1>7. /\ u.down = s.down /\ u.held = s.held /\ u.status = s.status
      /\ s.accepted => u.accepted
      /\ s.half_closed => u.up = s.up
  <2>1. CASE p \in Ended
    BY <2>1 DEF Moves
  <2>2. CASE p \notin Ended
    <3> DEFINE m == Payload(f, rounds'[f], message'[f])
               a == Act(e, p)
    <3>1. MayInitiate("client", a, s) /\ u \in Initiate("client", a, m, s)
      BY <1>1, <2>2 DEF Moves
    <3>2. m \in Nat
      BY <1>1, MovesFacts DEF Payload
    <3> HIDE DEF m, a
    <3>3. Initiates("client", a, s, u) /\ (a \notin Upstream => u = s)
      BY <1>5, <3>1, <3>2, ClientInitiate
    <3>4. s.half_closed => a \notin Upstream
      BY <3>1 DEF MayInitiate
    <3> QED BY <3>3, <3>4 DEF Initiates
  <2> QED BY <2>1, <2>2
<1>8. t.down # <<>> => s.half_closed
  <2>1. t.down # <<>> => t.accepted
    BY <1>6 DEF ReplyOK
  <2>2. t.accepted => t.half_closed
    BY <1>5 DEF CallOK, Multi, ServerMultiArgRequestInitFunction
  <2>3. s.half_closed = t.half_closed
    BY <1>4
  <2> HIDE DEF t
  <2> QED BY <2>1, <2>2, <2>3
<1> HIDE DEF t
<1>9. /\ u.down = t.down /\ u.held = t.held /\ u.status = t.status
      /\ t.accepted => u.accepted
      /\ t.down # <<>> => u.up = t.up
  BY <1>4, <1>7, <1>8
<1>10. ReplyOK(t, at["server"])
  BY <1>6
<1>11. ReplyOK(u, at'["server"])
  <2>1. at'["server"] \in {"idle", "start", "request"} =>
           at["server"] \in {"idle", "start", "request"}
    BY <1>6
  <2> QED BY <1>9, <1>10, <2>1 DEF ReplyOK
<1> QED BY <1>3, <1>11

(* The call fails, or nothing happens to it.                                *)
LEMMA ReplyFails ==
    ASSUME ProgramInvariant, ReplyInvariant, example = "share_io_context",
           UNCHANGED at \/ ClientsAbort,
           \/ calls'["unary"] = calls["unary"]
           \/ calls'["unary"] = Kill(calls["unary"], "ERROR")
    PROVE  ReplyOK(calls'["unary"], at'["server"])
<1>1. at'["server"] = at["server"]
  BY ReplyFrames DEF ClientsAbort
<1>2. CallOK(calls["unary"]) /\ ReplyOK(calls["unary"], at["server"])
  BY ReplyFrames DEF ProgramInvariant, CallInvariant, ReplyInvariant
<1>3. CASE calls'["unary"] = calls["unary"]
  BY <1>1, <1>2, <1>3
<1>4. CASE calls'["unary"] = Kill(calls["unary"], "ERROR")
  <2> DEFINE t == calls["unary"]
             v == Kill(t, "ERROR")
  <2>1. /\ v.accepted = t.accepted /\ v.up = t.up /\ v.down = t.down /\ v.held = t.held
        /\ v.status = t.status
    BY <1>2, KillCall
  <2> HIDE DEF t, v
  <2>2. ReplyOK(v, at["server"])
    BY <1>2, <2>1 DEF ReplyOK, t
  <2> QED BY <1>1, <1>4, <2>2 DEF v, t
<1> QED BY <1>3, <1>4

(* Every step preserves the invariant.                                      *)
LEMMA NextReply ==
    ASSUME ProgramInvariant, ReplyInvariant, [Next]_vars
    PROVE  ReplyInvariant'
<1>0. example' = example
  <2>1. ASSUME NEW f \in Frames, Step(f) PROVE example' = example
    BY <2>1 DEF Step, CompletePart, Resume, ResumeTo, AbortClient
  <2> QED BY <2>1 DEF Next, Progress, CancelSignals, ShutdownServer, RefuseCall, CallFails,
                      Signal, Done, vars
<1>1. SUFFICES ASSUME example = "share_io_context"
               PROVE  ReplyOK(calls'["unary"], at'["server"])
  BY <1>0 DEF ReplyInvariant
<1>2. TypeInvariant /\ "unary" \in CallsOf(example)
  BY <1>1, ReplyFrames DEF ProgramInvariant
<1>3. ASSUME NEW f \in Frames, Step(f) PROVE ReplyOK(calls'["unary"], at'["server"])
  <2>1. PICK fn \in pending[f] : CompletePart(f, fn) \/ Resume(f, fn) \/ AbortClient(f, fn)
    BY <1>3 DEF Step
  <2>2. ~CompletePart(f, fn)
    <3>1. SUFFICES ASSUME NEW r, NEW s, Part(f, fn, r, s) PROVE FALSE
      BY CompletePartIs
    <3>2. at[f] \in {"ping_pong", "deadline"}
      BY <3>1 DEF Part
    <3>3. CallOf(f) \in {"bidirectional", "slow_unary"}
      BY <3>2, PointOfCall
    <3> QED BY <1>1, <3>3, ReplyFrames
  <2>3. CASE Resume(f, fn)
    <3>1. PICK r, s, p, e, u : Moves(f, fn, r, s, p, e, u)
      BY <2>3, ResumeMoves
    <3> QED BY <1>1, <3>1, ReplyFrames, ReplyServer, ReplyClient
  <2>4. CASE AbortClient(f, fn)
    <3>1. /\ ClientsAbort
          /\ calls'["unary"] = Kill(calls["unary"], "ERROR")
      BY <1>2, <2>4 DEF AbortClient, ClientsAbort, TypeInvariant
    <3> QED BY <1>1, <3>1, ReplyFails
  <2> QED BY <2>1, <2>2, <2>3, <2>4
<1>4. CASE \/ CancelSignals \/ ShutdownServer \/ Signal
           \/ \E c \in DOMAIN calls : RefuseCall(c) \/ CallFails(c)
           \/ UNCHANGED vars
  <2>1. UNCHANGED at
    BY <1>4 DEF CancelSignals, ShutdownServer, Signal, RefuseCall, CallFails, vars
  <2>2. \/ UNCHANGED calls
        \/ \E c \in DOMAIN calls : calls' = [calls EXCEPT ![c] = Kill(@, "ERROR")]
    BY <1>4 DEF CancelSignals, ShutdownServer, Signal, RefuseCall, CallFails, vars
  <2>3. \/ calls'["unary"] = calls["unary"]
        \/ calls'["unary"] = Kill(calls["unary"], "ERROR")
    BY <1>2, <2>2 DEF TypeInvariant
  <2> QED BY <1>1, <2>1, <2>3, ReplyFails
<1> QED BY <1>3, <1>4 DEF Next, Progress, Done

(* The client of share_io_context gets the integer that it has sent, in     *)
(* every behaviour.                                                         *)
THEOREM ReplyInvariantAlways == Spec => []ReplyInvariant
<1>1. Init /\ ProgramInvariant => ReplyInvariant
  <2>1. SUFFICES ASSUME Init, ProgramInvariant, example = "share_io_context"
                 PROVE  ReplyOK(calls["unary"], at["server"])
    BY DEF ReplyInvariant
  <2>2. calls["unary"] = NewCall(KindOf("unary"))
    BY <2>1, ReplyFrames DEF Init
  <2> QED BY <2>2 DEF NewCall, ReplyOK
<1>2. ProgramInvariant /\ ReplyInvariant /\ [Next]_vars => ReplyInvariant'
  BY NextReply
<1> QED BY <1>1, <1>2, ProgramInvariantAlways, PTL DEF Spec

-----------------------------------------------------------------------------
(* No client aborts unless a call fails or a signal arrives.                *)

Peace == ~failed /\ ~signalled

(* The call that is cancelled: only the alarm of the client ends it, and    *)
(* the client learns of that before the server answers.                     *)
SlowInvariant ==
    "slow_unary" \in CallsOf(example) =>
        LET s == calls["slow_unary"]
        IN /\ s.status = "none"
           /\ at[Slow] \in {"idle", "start", "deadline"} \cup Ended
           /\ s.started => at[Slow] \in Ended \cup {"deadline"}
           /\ at[Slow] = "deadline" =>
                 s.started /\ result[Slow] = "true" /\ "Finish" \in pending[Slow]
           /\ Dead(s) <=> \/ at[Slow] \in Ended
                          \/ at[Slow] = "deadline" /\ "wait" \notin pending[Slow]
           /\ at[Slow] \notin Ended => "Finish" \notin begun["slow_unary"]["server"]

(* The server is shut down after the calls of the client.                   *)
OrderInvariant ==
    example \in Streaming =>
        /\ shutdown # "no" => calls["shutdown"].accepted
        /\ ~calls["never"].started
        /\ calls["shutdown"].started =>
              at["make_shutdown_request"] \notin {"idle", "start"}
        /\ \A l \in PointsOf("main") : Rank(l) <= Rank(at["main"]) =>
              \A g \in TableOf("main")[l].starts : at[g] # "idle"
        /\ \A f \in Frames : SideOf(f) = "client" /\ at[f] \in Ended /\ CallOf(f) # "never" =>
              calls[CallOf(f)].accepted \/ Dead(calls[CallOf(f)])

(* As long as nothing has failed, no client has aborted and the library has *)
(* ended no call but the slow one; only the unrestricted users of rpc.hpp   *)
(* answer with an error.                                                    *)
HealthInvariant ==
    Peace =>
        /\ \A f \in Frames : at[f] # "aborted"
        /\ \A c \in CallsOf(example) :
              /\ Dead(calls[c]) => c = "slow_unary" /\ calls[c].dead = "CANCELLED"
              /\ calls[c].status = "ERROR" => example \in {"unary", "client_streaming"}
        /\ ~cancelled
        /\ SlowInvariant
        /\ OrderInvariant

(* The clients of the streaming example, which main starts.                 *)
LEMMA StreamingFrames ==
    ASSUME example \in Streaming
    PROVE  /\ {"main", "make_shutdown_request"} \subseteq Frames
           /\ SideOf("main") = "client" /\ CallOf("main") = "never"
           /\ SideOf("make_shutdown_request") = "client"
           /\ CallOf("make_shutdown_request") = "shutdown"
           /\ {"never", "shutdown"} \subseteq CallsOf(example)
           /\ PointsOf("main") = {"both", "cancel", "shutdown"}
           /\ TableOf("main")["shutdown"].starts = {"make_shutdown_request"}
           /\ \A c \in CallsOf(example) \ {"never", "shutdown"} :
                 \E l \in {"both", "cancel"} : \E g \in TableOf("main")[l].starts :
                    g \in Frames /\ SideOf(g) = "client" /\ CallOf(g) = c
<1>1. \A part : /\ DOMAIN streaming_client_main(part) \ {"start"} = {"both", "cancel", "shutdown"}
                /\ streaming_client_main(part)["both"].starts =
                      part \cap {"make_client_streaming_request",
                                 "make_bidirectional_streaming_request"}
                /\ streaming_client_main(part)["cancel"].starts =
                      part \cap {"make_and_cancel_unary_request"}
                /\ streaming_client_main(part)["shutdown"].starts = {"make_shutdown_request"}
  <2>1. TAKE part
  <2> DEFINE T == streaming_client_main(part)
  <2>2. DOMAIN T \ {"start"} = {"both", "cancel", "shutdown"}
    BY DEF streaming_client_main
  <2>3. \A l \in DOMAIN T \ {"start"} :
          T[l].starts = CASE l = "both" -> part \cap {"make_client_streaming_request",
                                                      "make_bidirectional_streaming_request"}
                          [] l = "cancel" -> part \cap {"make_and_cancel_unary_request"}
                          [] OTHER -> {"make_shutdown_request"}
    BY Started
  <2> HIDE DEF T
  <2>4. /\ DOMAIN T \ {"start"} = {"both", "cancel", "shutdown"}
        /\ T["both"].starts = part \cap {"make_client_streaming_request",
                                         "make_bidirectional_streaming_request"}
        /\ T["cancel"].starts = part \cap {"make_and_cancel_unary_request"}
        /\ T["shutdown"].starts = {"make_shutdown_request"}
    BY <2>2, <2>3
  <2> QED BY <2>4 DEF T
<1>2. CASE example = "streaming_client_streaming"
  <2> DEFINE g == "make_client_streaming_request"
  <2>1. /\ {"main", "make_shutdown_request", g} \subseteq Frames
        /\ SideOf("main") = "client" /\ CallOf("main") = "never"
        /\ SideOf("make_shutdown_request") = "client"
        /\ CallOf("make_shutdown_request") = "shutdown"
        /\ TableOf("main") = streaming_client_main(DOMAIN streaming_client_streaming)
        /\ SideOf(g) = "client" /\ CallOf(g) = "client_streaming"
    BY <1>2, SidesOf, Frames_streaming_client_streaming DEF Frames, SideOf, CallOf, TableOf
  <2>2. \A f \in Frames : CallOf(f) \in {"never", "shutdown", "client_streaming"}
    BY <1>2, SidesOf, Frames_streaming_client_streaming DEF Frames, CallOf
  <2>3. g \in TableOf("main")["both"].starts
    <3>1. g \in DOMAIN streaming_client_streaming
      BY DEF streaming_client_streaming
    <3> QED BY <1>1, <2>1, <3>1
  <2>4. /\ {"never", "shutdown"} \subseteq CallsOf(example)
        /\ CallsOf(example) \subseteq {"never", "shutdown", "client_streaming"}
    BY <2>1, <2>2 DEF CallsOf, CallOf, Frames
  <2> QED BY <1>1, <2>1, <2>3, <2>4 DEF PointsOf
<1>3. CASE example = "streaming_bidirectional"
  <2> DEFINE g == "make_bidirectional_streaming_request"
  <2>1. /\ {"main", "make_shutdown_request", g} \subseteq Frames
        /\ SideOf("main") = "client" /\ CallOf("main") = "never"
        /\ SideOf("make_shutdown_request") = "client"
        /\ CallOf("make_shutdown_request") = "shutdown"
        /\ TableOf("main") = streaming_client_main(DOMAIN streaming_bidirectional)
        /\ SideOf(g) = "client" /\ CallOf(g) = "bidirectional"
    BY <1>3, SidesOf, Frames_streaming_bidirectional DEF Frames, SideOf, CallOf, TableOf
  <2>2. \A f \in Frames : CallOf(f) \in {"never", "shutdown", "bidirectional"}
    BY <1>3, SidesOf, Frames_streaming_bidirectional DEF Frames, CallOf
  <2>3. g \in TableOf("main")["both"].starts
    <3>1. g \in DOMAIN streaming_bidirectional
      BY DEF streaming_bidirectional
    <3> QED BY <1>1, <2>1, <3>1
  <2>4. /\ {"never", "shutdown"} \subseteq CallsOf(example)
        /\ CallsOf(example) \subseteq {"never", "shutdown", "bidirectional"}
    BY <2>1, <2>2 DEF CallsOf, CallOf, Frames
  <2> QED BY <1>1, <2>1, <2>3, <2>4 DEF PointsOf
<1>4. CASE example = "streaming_slow_unary"
  <2> DEFINE g == "make_and_cancel_unary_request"
  <2>1. /\ {"main", "make_shutdown_request", g} \subseteq Frames
        /\ SideOf("main") = "client" /\ CallOf("main") = "never"
        /\ SideOf("make_shutdown_request") = "client"
        /\ CallOf("make_shutdown_request") = "shutdown"
        /\ TableOf("main") = streaming_client_main(DOMAIN streaming_slow_unary)
        /\ SideOf(g) = "client" /\ CallOf(g) = "slow_unary"
    BY <1>4, SidesOf, Frames_streaming_slow_unary DEF Frames, SideOf, CallOf, TableOf
  <2>2. \A f \in Frames : CallOf(f) \in {"never", "shutdown", "slow_unary"}
    BY <1>4, SidesOf, Frames_streaming_slow_unary DEF Frames, CallOf
  <2>3. g \in TableOf("main")["cancel"].starts
    <3>1. g \in DOMAIN streaming_slow_unary
      BY DEF streaming_slow_unary
    <3> QED BY <1>1, <2>1, <3>1
  <2>4. /\ {"never", "shutdown"} \subseteq CallsOf(example)
        /\ CallsOf(example) \subseteq {"never", "shutdown", "slow_unary"}
    BY <2>1, <2>2 DEF CallsOf, CallOf, Frames
  <2> QED BY <1>1, <2>1, <2>3, <2>4 DEF PointsOf
<1> QED BY <1>2, <1>3, <1>4 DEF Streaming

(* A call has one coroutine of the client.                                  *)
LEMMA OneClient ==
    ASSUME TypeInvariant, NEW f \in Frames, NEW g \in Frames, f # g,
           SideOf(f) = "client", CallOf(f) = CallOf(g)
    PROVE  SideOf(g) = "server"
<1>1. SideOf(g) \in Sides /\ example \in DOMAIN Programs
  BY FrameFacts DEF TypeInvariant
<1>2. ~(SideOf(g) = "client")
  BY <1>1, SidesAndCalls DEF Frames, SideOf, CallOf
<1> QED BY <1>1, <1>2 DEF Sides

(* What a move does to the status of a call, and who starts it.             *)
LEMMA MovesStatus ==
    ASSUME ProgramInvariant, NEW f \in Frames, NEW fn, NEW r, NEW s, NEW p, NEW e, NEW u,
           Moves(f, fn, r, s, p, e, u)
    PROVE  /\ u.dead = calls[CallOf(f)].dead
           /\ u.started /\ ~calls[CallOf(f)].started =>
                 SideOf(f) = "client" /\ p \notin Ended /\ Act(e, p) \in Opening
           /\ SideOf(f) = "client" /\ p \notin Ended /\ Act(e, p) \in Opening => u.started
           /\ u.status # calls[CallOf(f)].status =>
                 /\ SideOf(f) = "server" /\ ~Dead(calls[CallOf(f)])
                 /\ p \in {"finish", "finish_with_error", "write_and_finish"}
                 /\ p = "write_and_finish" =>
                       "WriteAndFinish" \in Methods("server", KindOf(CallOf(f)))
                 /\ u.status = "ERROR" => p = "finish_with_error"
<1> DEFINE t == calls[CallOf(f)]
           a == Act(e, p)
<1>1. /\ TypeInvariant /\ CallInvariant /\ SideOf(f) \in Sides
      /\ Outcome(f, fn, r, s) /\ fn \in pending[f]
  BY FrameFacts DEF ProgramInvariant, Moves
<1>2. /\ CallOK(s) /\ s.status = t.status /\ s.started = t.started /\ s.dead = t.dead
      /\ s.kind = KindOf(CallOf(f))
  BY <1>1, OutcomeCall
<1>3. CASE p \in Ended
  <2>1. u = s
    BY <1>3 DEF Moves
  <2> QED BY <1>2, <1>3, <2>1
<1>4. CASE p \notin Ended
  <2>1. Initiates(SideOf(f), a, s, u) /\ p \in Points /\ message'[f] \in Nat
    BY <1>4, MovesFacts
  <2>2. /\ MayInitiate(SideOf(f), a, s)
        /\ u \in Initiate(SideOf(f), a, Payload(f, rounds'[f], message'[f]), s)
        /\ Edge(example, f, SideOf(f), CallOf(f), at[f], Combined(f, fn, r), p, e)
    BY <1>4 DEF Moves
  <2>3. ASSUME u.status # t.status
        PROVE  /\ SideOf(f) = "server" /\ ~Dead(t)
               /\ p \in {"finish", "finish_with_error", "write_and_finish"}
               /\ p = "write_and_finish" =>
                     "WriteAndFinish" \in Methods("server", KindOf(CallOf(f)))
               /\ u.status = "ERROR" => p = "finish_with_error"
    <3>1. SideOf(f) = "server" /\ a \in Finishing
      BY <1>2, <2>1, <2>3 DEF Initiates
    <3>2. e # "AsyncUnary"
      BY <2>2, <3>1 DEF Edge, ServerEdge
    <3>3. a \in AwaitAt(p) /\ p # "deadline"
      <4>1. CASE p \in {"ping_pong", "deadline"}
        BY <3>1, <3>2, <4>1 DEF Act, AwaitAt, Finishing
      <4>2. CASE p \notin {"ping_pong", "deadline"}
        BY <2>1, <3>2, <4>2, SoleAwaited DEF Act
      <4> QED BY <4>1, <4>2
    <3> HIDE DEF a
    <3>4. /\ p \in {"finish", "finish_with_error", "write_and_finish"}
          /\ a = "FinishWithError" => p = "finish_with_error"
          /\ p = "write_and_finish" => a = "WriteAndFinish"
      BY <2>1, <3>1, <3>3 DEF AwaitAt, Points, Joins, Finishing
    <3>5. ~Dead(t)
      <4> DEFINE m == Payload(f, rounds'[f], message'[f])
      <4>1. m \in Nat
        <5>1. rounds'[f] \in Nat
          BY RoundsAssumption DEF Moves
        <5> QED BY <2>1, <5>1 DEF Payload
      <4>2. MayInitiate("server", a, s) /\ u \in Initiate("server", a, m, s)
        BY <2>2, <3>1
      <4> HIDE DEF m
      <4>3. CallOK(s)
        BY <1>2
      <4>4. /\ Initiates("server", a, s, u)
            /\ a \notin RpcMethods \/ a \in {"Request", "Read"} => u = s
            /\ a \in Finishing /\ Dead(s) => u.status = s.status
            /\ (s.kind = "bidirectional" /\ s.held = <<>> /\ a \in {"Write", "Finish"}) =>
                  /\ u.held = <<>>
                  /\ u.down = IF a = "Write" /\ ~Dead(s) THEN s.down \o <<m>> ELSE s.down
        BY <4>1, <4>2, <4>3, ServerInitiate
      <4> QED BY <1>2, <2>3, <3>1, <4>4 DEF Dead
    <3>6. u.status = "ERROR" => a = "FinishWithError"
      BY <1>2, <2>1, <2>3 DEF Initiates
    <3>7. p = "write_and_finish" => "WriteAndFinish" \in Methods("server", KindOf(CallOf(f)))
      BY <1>2, <2>2, <3>1, <3>4, RpcMethodsList DEF MayInitiate
    <3> QED BY <3>1, <3>4, <3>5, <3>6, <3>7
  <2> HIDE DEF a
  <2>4. /\ u.dead = t.dead
        /\ u.started /\ ~t.started => SideOf(f) = "client" /\ a \in Opening
        /\ SideOf(f) = "client" /\ a \in Opening => u.started
    BY <1>2, <2>1 DEF Initiates
  <2> QED BY <1>4, <2>3, <2>4 DEF a
<1> QED BY <1>3, <1>4

(* What is known of the calls when nothing has failed.                      *)
LEMMA HealthyCalls ==
    ASSUME ProgramInvariant, HealthInvariant, Peace, NEW f \in Frames, SideOf(f) = "client",
           Dead(calls[CallOf(f)])
    PROVE  f = Slow /\ at[f] \in {"idle", "start", "deadline"} \cup Ended
<1>1. TypeInvariant /\ CallOf(f) \in CallsOf(example)
  BY FrameFacts DEF ProgramInvariant
<1>2. CallOf(f) = "slow_unary" /\ SlowInvariant
  BY <1>1 DEF HealthInvariant
<1>3. f = Slow
  BY <1>1, <1>2, SlowFrames
<1> QED BY <1>1, <1>2, <1>3 DEF SlowInvariant

(* When nothing has failed, no result makes a client abort.                 *)
LEMMA HealthyClient ==
    ASSUME ProgramInvariant, HealthInvariant, Peace, NEW f \in Frames, NEW fn,
           pending[f] = {fn}, NEW r, NEW s, Outcome(f, fn, r, s), NEW p, NEW e,
           Edge(example, f, SideOf(f), CallOf(f), at[f], Combined(f, fn, r), p, e)
    PROVE  e # "abort"
<1> DEFINE c == CallOf(f)
           o == Combined(f, fn, r)
<1>1. /\ TypeInvariant /\ ControlInvariant /\ CallInvariant /\ SlowInvariant
      /\ c \in CallsOf(example) /\ SideOf(f) \in Sides /\ fn \in pending[f]
      /\ calls[c] \in CallRecord
  BY FrameFacts DEF ProgramInvariant, HealthInvariant, CallInvariant, CallOK
<1>2. SUFFICES ASSUME e = "abort" PROVE FALSE
  OBVIOUS
<1>3. SideOf(f) = "client" /\ ClientCourse(example, c, at[f], o, p, e)
  BY <1>1, <1>2 DEF Edge, ServerEdge, Course, Sides
<1>4. /\ example \notin {"unary", "client_streaming"}
      /\ \/ at[f] \in {"finish", "request"} /\ o \notin Ok
         \/ at[f] = "deadline" /\ o # "CANCELLED"
  BY <1>2, <1>3 DEF ClientCourse
<1>5. CASE at[f] \in {"finish", "request"}
  <2>1. /\ ~Dead(calls[c])
    BY <1>3, <1>5, HealthyCalls DEF Ended
  <2>2. fn \in AwaitAt(at[f]) /\ o = r
    BY <1>1, <1>5, CompletedAt DEF AwaitAt
  <2>3. fn = IF at[f] = "finish" THEN "Finish" ELSE "Request"
    BY <1>5, <2>2 DEF AwaitAt
  <2>4. r \notin Ok
    BY <1>4, <1>5, <2>2
  <2>5. Completes("client", fn, calls[c], shutdown = "shut_down", r, s)
    BY <1>3, <2>3, RpcMethodsList DEF Outcome
  <2>6. fn = "Finish" /\ calls[c].status # "none" /\ r = calls[c].status
    BY <2>1, <2>3, <2>4, <2>5 DEF Completes, Ok
  <2>7. calls[c].status = "ERROR"
    BY <1>1, <2>4, <2>6 DEF CallRecord, Ok
  <2> QED BY <1>1, <1>4, <2>7 DEF HealthInvariant
<1>6. CASE at[f] = "deadline"
  <2>1. f = Slow /\ c = "slow_unary"
    BY <1>6, PointOfCall
  <2>2. /\ calls[c].status = "none" /\ result[f] = "true" /\ "Finish" \in pending[f]
        /\ "wait" \notin pending[f] => Dead(calls[c])
    BY <1>1, <1>6, <2>1 DEF SlowInvariant
  <2>3. fn = "Finish" /\ Dead(calls[c])
    BY <2>2
  <2>4. calls[c].dead = "CANCELLED"
    BY <1>1, <2>3 DEF HealthInvariant
  <2>5. Completes("client", fn, calls[c], shutdown = "shut_down", r, s)
    BY <1>3, <2>3, RpcMethodsList DEF Outcome
  <2>6. r = "CANCELLED"
    BY <2>2, <2>3, <2>4, <2>5 DEF Completes
  <2>7. o = r
    BY <2>2, <2>3 DEF Combined
  <2> QED BY <1>4, <1>6, <2>6, <2>7
<1> QED BY <1>4, <1>5, <1>6

(* Nor does the response or the time: the answer is the request, and the    *)
(* slow call is cancelled before the server answers.                        *)
LEMMA MeetsExpectation ==
    ASSUME ProgramInvariant, HealthInvariant, ReplyInvariant, Peace, NEW f \in Frames, NEW fn,
           pending[f] = {fn}, NEW r, NEW s, Outcome(f, fn, r, s), NEW p,
           Edge(example, f, SideOf(f), CallOf(f), at[f], Combined(f, fn, r), p, "expect")
    PROVE  AsExpected(f, s)
<1> DEFINE c == CallOf(f)
           o == Combined(f, fn, r)
<1>1. /\ TypeInvariant /\ CallInvariant /\ SlowInvariant
      /\ c \in CallsOf(example) /\ SideOf(f) \in Sides /\ fn \in pending[f]
  BY FrameFacts DEF ProgramInvariant, HealthInvariant
<1>2. SideOf(f) = "client" /\ ClientCourse(example, c, at[f], o, p, "expect")
  BY <1>1 DEF Edge, ServerEdge, Course, Sides
<1>3. \/ at[f] = "deadline" /\ c = "slow_unary"
      \/ at[f] = "finish" /\ o \in Ok /\ example = "share_io_context"
  BY <1>2 DEF ClientCourse
<1>4. CASE at[f] = "deadline"
  <2>1. f = Slow /\ c = "slow_unary"
    BY <1>4, PointOfCall
  <2>2. "Finish" \notin begun["slow_unary"]["server"]
    BY <1>1, <1>4, <2>1 DEF SlowInvariant, Ended
  <2> QED BY <2>1, <2>2 DEF AsExpected, Slow
<1>5. CASE at[f] = "finish" /\ o \in Ok /\ example = "share_io_context"
  <2> DEFINE t == calls["unary"]
  <2>1. f = "client" /\ c = "unary" /\ f # "make_and_cancel_unary_request"
    BY <1>2, <1>5, ReplyFrames
  <2>2. fn = "Finish" /\ o = r
    BY <1>1, <1>5, CompletedAt DEF AwaitAt
  <2>3. Completes("client", "Finish", t, shutdown = "shut_down", r, s)
    BY <1>2, <2>1, <2>2, RpcMethodsList DEF Outcome
  <2>4. CallOK(s) /\ s.received = r /\ s.up = t.up /\ s.down = t.down /\ s.status = t.status
    BY <2>3 DEF Completes
  <2>5. s.received = "OK"
    <3>1. s.received \in Ok
      BY <1>5, <2>2, <2>4
    <3>2. s \in CallRecord
      BY <2>4 DEF CallOK
    <3> QED BY <3>1, <3>2 DEF CallRecord, Statuses, Ok
  <2>6. s.status = "OK" /\ s.down_read = Len(s.down)
    BY <2>4, <2>5 DEF CallOK
  <2>7. s.down = <<s.up[1]>>
    BY <1>5, <2>4, <2>6 DEF ReplyInvariant, ReplyOK
  <2>8. s.down[s.down_read] = s.up[1]
    BY <2>6, <2>7
  <2> QED BY <2>1, <2>8 DEF AsExpected
<1> QED BY <1>3, <1>4, <1>5

(* No coroutine that moves aborts, makes a call fail or cancels the alarm.  *)
LEMMA MovesHealthy ==
    ASSUME ProgramInvariant, HealthInvariant, Peace,
           NEW f \in Frames, NEW fn, NEW r, NEW s, NEW p, NEW e, NEW u,
           Moves(f, fn, r, s, p, e, u)
    PROVE  /\ \A g \in Frames : at'[g] # "aborted"
           /\ \A c \in CallsOf(example) :
                 /\ Dead(calls'[c]) => c = "slow_unary" /\ calls'[c].dead = "CANCELLED"
                 /\ calls'[c].status = "ERROR" => example \in {"unary", "client_streaming"}
           /\ ~cancelled'
<1>1. /\ TypeInvariant /\ SideOf(f) \in Sides /\ CallOf(f) \in CallsOf(example)
      /\ ~cancelled /\ \A g \in Frames : at[g] # "aborted"
  BY FrameFacts DEF ProgramInvariant, HealthInvariant
<1>2. /\ Edge(example, f, SideOf(f), CallOf(f), at[f], Combined(f, fn, r), p, e)
      /\ e # "abort" /\ cancelled' = cancelled
  BY DEF Moves
<1>3. p # "aborted"
  BY <1>1, <1>2 DEF Edge, ServerEdge, ClientEdge, Sides
<1>4. ASSUME NEW g \in Frames PROVE at'[g] # "aborted"
  <2>1. CASE g = f
    BY <1>3, <2>1, MovesSelf
  <2>2. CASE g # f
    BY <1>1, <2>2, MovesOthers
  <2> QED BY <2>1, <2>2
<1>5. ASSUME NEW c \in CallsOf(example)
      PROVE  /\ Dead(calls'[c]) => c = "slow_unary" /\ calls'[c].dead = "CANCELLED"
             /\ calls'[c].status = "ERROR" => example \in {"unary", "client_streaming"}
  <2>1. /\ Dead(calls[c]) => c = "slow_unary" /\ calls[c].dead = "CANCELLED"
        /\ calls[c].status = "ERROR" => example \in {"unary", "client_streaming"}
    BY DEF HealthInvariant
  <2>2. calls'[c] = IF c = CallOf(f) THEN u ELSE calls[c]
    BY MovesFacts
  <2>3. CASE c # CallOf(f)
    BY <2>1, <2>2, <2>3
  <2>4. CASE c = CallOf(f)
    <3>1. /\ u.dead = calls[c].dead
          /\ u.status # calls[c].status /\ u.status = "ERROR" =>
                SideOf(f) = "server" /\ p = "finish_with_error"
      BY <2>4, MovesStatus
    <3>2. SideOf(f) = "server" /\ p = "finish_with_error" =>
             example \in {"unary", "client_streaming"}
      BY <1>2 DEF Edge, Course, ServerCourse
    <3> QED BY <2>1, <2>2, <2>4, <3>1, <3>2 DEF Dead
  <2> QED BY <2>3, <2>4
<1> QED BY <1>1, <1>2, <1>4, <1>5

(* The slow call ends by its alarm only.                                    *)
LEMMA MovesSlow ==
    ASSUME ProgramInvariant, HealthInvariant, Peace,
           NEW f \in Frames, NEW fn, NEW r, NEW s, NEW p, NEW e, NEW u,
           Moves(f, fn, r, s, p, e, u)
    PROVE  SlowInvariant'
<1> DEFINE c == "slow_unary"
           t == calls[c]
<1>1. /\ TypeInvariant /\ ControlInvariant /\ AcceptInvariant /\ CallInvariant
      /\ SlowInvariant /\ SideOf(f) \in Sides /\ CallOf(f) \in CallsOf(example)
      /\ example' = example
  BY FrameFacts DEF ProgramInvariant, HealthInvariant, Moves
<1>2. SUFFICES ASSUME c \in CallsOf(example)
      PROVE  /\ calls'[c].status = "none"
             /\ at'[Slow] \in {"idle", "start", "deadline"} \cup Ended
             /\ calls'[c].started => at'[Slow] \in Ended \cup {"deadline"}
             /\ at'[Slow] = "deadline" =>
                   calls'[c].started /\ result'[Slow] = "true" /\ "Finish" \in pending'[Slow]
             /\ Dead(calls'[c]) <=> \/ at'[Slow] \in Ended
                                    \/ at'[Slow] = "deadline" /\ "wait" \notin pending'[Slow]
             /\ at'[Slow] \notin Ended => "Finish" \notin begun'[c]["server"]
  BY <1>1 DEF SlowInvariant
<1>3. /\ Slow \in Frames /\ SideOf(Slow) = "client" /\ CallOf(Slow) = c
      /\ example \notin {"unary", "client_streaming"}
      /\ \A g \in Frames : CallOf(g) = c /\ g # Slow => SideOf(g) = "server"
  BY <1>1, <1>2, SlowFrames
<1>4. /\ t.status = "none"
      /\ at[Slow] \in {"idle", "start", "deadline"} \cup Ended
      /\ t.started => at[Slow] \in Ended \cup {"deadline"}
      /\ at[Slow] = "deadline" =>
            t.started /\ result[Slow] = "true" /\ "Finish" \in pending[Slow]
      /\ Dead(t) <=> \/ at[Slow] \in Ended
                     \/ at[Slow] = "deadline" /\ "wait" \notin pending[Slow]
      /\ at[Slow] \notin Ended => "Finish" \notin begun[c]["server"]
  BY <1>1, <1>2 DEF SlowInvariant
<1>5. /\ fn \in pending[f] /\ pending[f] = {fn} /\ Outcome(f, fn, r, s)
      /\ Edge(example, f, SideOf(f), CallOf(f), at[f], Combined(f, fn, r), p, e)
  BY DEF Moves
<1>6. /\ calls'[c] = IF c = CallOf(f) THEN u ELSE t
      /\ at[f] \notin Resting
  BY <1>2, MovesFacts
<1>7. ASSUME at'[Slow] \notin Ended, "Finish" \in begun'[c]["server"] PROVE FALSE
  <2>1. at[Slow] \notin Ended
    <3>1. CASE f = Slow
      BY <1>6, <3>1 DEF Resting
    <3>2. CASE f # Slow
      BY <1>3, <1>7, <3>2, MovesOthers DEF Ended
    <3> QED BY <3>1, <3>2
  <2>2. "server" \in Sides /\ "Finish" \notin begun[c]["server"]
    BY <1>4, <2>1 DEF Sides
  <2>3. CallOf(f) = c /\ SideOf(f) = "server" /\ "Finish" \in AwaitsAt(p) \cup {e}
    <3>1. begun'[c]["server"] =
             IF c = CallOf(f) /\ "server" = SideOf(f)
             THEN begun[c]["server"] \cup ((AwaitsAt(p) \cup {e}) \cap RpcMethods)
             ELSE begun[c]["server"]
      BY <1>2, <2>2, MovesBegins
    <3> QED BY <1>7, <2>2, <3>1
  <2>4. /\ ServerCourse(example, f, c, at[f], Combined(f, fn, r), p, e)
        /\ e # "Finish"
    BY <1>5, <2>3 DEF Edge, Course, ServerEdge
  <2>5. p = "finish"
    <3>1. p \notin Ended /\ "Finish" \in AwaitAt(p)
      BY <2>3, <2>4 DEF AwaitsAt
    <3>2. p \in LiveAt(f)
      BY <3>1 DEF Moves
    <3>3. p \in Points /\ p # "deadline"
      BY <1>1, <2>3, <3>2, FrameFacts DEF LiveAt, Live, TableOK
    <3> QED BY <3>1, <3>3 DEF AwaitAt, Points, Joins
  <2>6. at[f] = "wait"
    BY <2>4, <2>5 DEF ServerCourse
  <2>7. fn = "wait"
    BY <1>5, <2>6, CompletedAt DEF AwaitAt
  <2>8. "wait" \notin pending[Slow] /\ (Dead(t) => "Finish" \notin pending[Slow])
    BY <1>5, <2>3, <2>7 DEF Outcome, Slow
  <2>9. t.accepted
    BY <1>1, <2>3, <2>6 DEF AcceptInvariant, Resting, Ended
  <2>10. t.started
    BY <1>1, <1>2, <2>9 DEF CallInvariant, CallOK
  <2> QED BY <1>4, <2>1, <2>8, <2>10
<1>8. CASE f # Slow
  <2>1. /\ result'[Slow] = result[Slow]
        /\ \/ at'[Slow] = at[Slow] /\ pending'[Slow] = pending[Slow]
           \/ at[Slow] = "idle" /\ at'[Slow] = "start"
    BY <1>3, <1>8, MovesOthers
  <2>2. calls'[c].status = "none" /\ calls'[c].started = t.started /\ calls'[c].dead = t.dead
    <3>1. CASE CallOf(f) # c
      BY <1>4, <1>6, <3>1
    <3>2. CASE CallOf(f) = c
      <4>1. SideOf(f) = "server"
        BY <1>3, <1>8, <3>2
      <4>2. u.dead = t.dead /\ (u.started => t.started)
        BY <3>2, <4>1, MovesStatus
      <4>3. t.started => u.started
        <5>1. CallStep(t, u)
          BY <3>2, MovesFacts
        <5> QED BY <5>1 DEF CallStep
      <4>4. t \in CallRecord /\ u \in CallRecord
        <5>1. CallOK(u) /\ CallOK(t)
          BY <1>1, <1>2, MovesFacts DEF CallInvariant
        <5> QED BY <5>1 DEF CallOK
      <4>5. u.started = t.started
        BY <4>2, <4>3, <4>4 DEF CallRecord
      <4>6. ASSUME u.status # "none" PROVE FALSE
        <5>1. /\ ~Dead(t) /\ p \in {"finish", "finish_with_error", "write_and_finish"}
              /\ p = "write_and_finish" => "WriteAndFinish" \in Methods("server", KindOf(c))
          BY <1>4, <3>2, <4>6, MovesStatus
        <5>2. p # "write_and_finish"
          BY <5>1, MethodsLists DEF KindOf
        <5>3. ServerCourse(example, f, c, at[f], Combined(f, fn, r), p, e)
          BY <1>5, <3>2, <4>1 DEF Edge, Course
        <5>4. p = "finish" /\ at[f] = "wait"
          BY <1>3, <5>1, <5>2, <5>3 DEF ServerCourse
        <5>5. fn = "wait"
          BY <1>5, <5>4, CompletedAt DEF AwaitAt
        <5>6. "wait" \notin pending[Slow]
          BY <1>5, <4>1, <5>5 DEF Outcome, Slow
        <5>7. t.accepted
          BY <1>1, <3>2, <4>1, <5>4 DEF AcceptInvariant, Resting, Ended
        <5>8. t.started
          BY <1>1, <1>2, <5>7 DEF CallInvariant, CallOK
        <5> QED BY <1>4, <5>1, <5>6, <5>8
      <4> QED BY <1>6, <3>2, <4>2, <4>5, <4>6
    <3> QED BY <3>1, <3>2
  <2>3. Dead(calls'[c]) <=> Dead(t)
    BY <2>2 DEF Dead
  <2>4. CASE at'[Slow] = at[Slow] /\ pending'[Slow] = pending[Slow]
    BY <1>4, <1>7, <2>1, <2>2, <2>3, <2>4
  <2>5. CASE at[Slow] = "idle" /\ at'[Slow] = "start"
    BY <1>4, <1>7, <2>2, <2>3, <2>5 DEF Ended
  <2> QED BY <2>1, <2>4, <2>5
<1>9. CASE f = Slow
  <2>1. /\ at'[Slow] = p /\ pending'[Slow] = AwaitsAt(p) /\ result'[Slow] = "true"
    BY <1>9, MovesSelf
  <2>2. /\ p \in {"deadline"} \cup Ended
        /\ p = "deadline" <=> at[f] = "start"
        /\ p = "deadline" => e = "AsyncUnary"
    BY <1>3, <1>5, <1>9 DEF Edge, Course, ClientCourse
  <2>3. calls'[c] = u /\ u.dead = t.dead /\ u.status = t.status
    BY <1>3, <1>6, <1>9, MovesStatus
  <2>4. at[f] \in {"start", "deadline"}
    BY <1>4, <1>6, <1>9 DEF Resting
  <2>5. CASE at[f] = "start"
    <3>1. p = "deadline" /\ e = "AsyncUnary" /\ p \notin Ended
      BY <2>2, <2>5 DEF Ended
    <3>2. Act(e, p) \in Opening
      BY <3>1 DEF Act, Opening
    <3>3. u.started
      BY <1>3, <1>9, <3>1, <3>2, MovesStatus
    <3>4. pending'[Slow] = {"wait", "Finish"}
      BY <2>1, <3>1 DEF AwaitsAt, AwaitAt
    <3>5. ~Dead(t)
      BY <1>4, <1>9, <2>5 DEF Ended
    <3> QED BY <1>4, <1>7, <2>1, <2>3, <3>1, <3>3, <3>4, <3>5 DEF Dead
  <2>6. CASE at[f] = "deadline"
    <3>1. p \in Ended /\ p # "deadline"
      BY <2>2, <2>6
    <3>2. Dead(t)
      BY <1>4, <1>5, <1>9, <2>6
    <3> QED BY <1>4, <1>7, <2>1, <2>3, <3>1, <3>2 DEF Dead, Ended
  <2> QED BY <2>4, <2>5, <2>6
<1> QED BY <1>8, <1>9

(* The server is shut down after the calls of the client: a coroutine       *)
(* moves.                                                                   *)
LEMMA MovesOrder ==
    ASSUME ProgramInvariant, HealthInvariant, Peace,
           NEW f \in Frames, NEW fn, NEW r, NEW s, NEW p, NEW e, NEW u,
           Moves(f, fn, r, s, p, e, u)
    PROVE  OrderInvariant'
<1> DEFINE M == "make_shutdown_request"
<1>1. /\ TypeInvariant /\ ControlInvariant /\ AcceptInvariant /\ CallInvariant
      /\ OrderInvariant /\ SlowInvariant
      /\ SideOf(f) \in Sides /\ CallOf(f) \in CallsOf(example)
      /\ example' = example
  BY FrameFacts DEF ProgramInvariant, HealthInvariant, Moves
<1>2. SUFFICES ASSUME example \in Streaming
      PROVE  /\ shutdown' # "no" => calls'["shutdown"].accepted
             /\ ~calls'["never"].started
             /\ calls'["shutdown"].started => at'[M] \notin {"idle", "start"}
             /\ \A l \in PointsOf("main") : Rank(l) <= Rank(at'["main"]) =>
                   \A g \in TableOf("main")[l].starts : at'[g] # "idle"
             /\ \A g \in Frames :
                   SideOf(g) = "client" /\ at'[g] \in Ended /\ CallOf(g) # "never" =>
                      calls'[CallOf(g)].accepted \/ Dead(calls'[CallOf(g)])
  BY <1>1 DEF OrderInvariant, Frames, PointsOf, TableOf, SideOf, CallOf
<1>3. /\ "main" \in Frames /\ M \in Frames
      /\ SideOf("main") = "client" /\ CallOf("main") = "never"
      /\ SideOf(M) = "client" /\ CallOf(M) = "shutdown"
      /\ "never" \in CallsOf(example) /\ "shutdown" \in CallsOf(example)
      /\ PointsOf("main") = {"both", "cancel", "shutdown"}
  BY <1>2, StreamingFrames
<1>4. /\ shutdown # "no" => calls["shutdown"].accepted
      /\ ~calls["never"].started
      /\ calls["shutdown"].started => at[M] \notin {"idle", "start"}
      /\ \A l \in PointsOf("main") : Rank(l) <= Rank(at["main"]) =>
            \A g \in TableOf("main")[l].starts : at[g] # "idle"
      /\ \A g \in Frames : SideOf(g) = "client" /\ at[g] \in Ended /\ CallOf(g) # "never" =>
            calls[CallOf(g)].accepted \/ Dead(calls[CallOf(g)])
  BY <1>1, <1>2 DEF OrderInvariant
<1>5. /\ fn \in pending[f] /\ pending[f] = {fn} /\ Outcome(f, fn, r, s) /\ e # "abort"
      /\ Edge(example, f, SideOf(f), CallOf(f), at[f], Combined(f, fn, r), p, e)
      /\ e # "shutdown" => shutdown' = shutdown
      /\ p \in Ended => u = s
  BY DEF Moves
<1>6. /\ \A c \in CallsOf(example) : calls'[c] = IF c = CallOf(f) THEN u ELSE calls[c]
      /\ CallStep(calls[CallOf(f)], u) /\ at[f] \notin Resting
      /\ p \in Ended \/ p \in Points \cap PointsOf(f)
  BY MovesFacts
<1>7. \A c \in CallsOf(example) : /\ calls[c].accepted => calls'[c].accepted
                                  /\ Dead(calls[c]) => Dead(calls'[c])
  BY <1>6 DEF CallStep, Dead
<1>8. /\ at'[f] = p
      /\ \A g \in Frames \ {f} : at'[g] = at[g] \/ (at[g] = "idle" /\ at'[g] = "start")
  BY MovesSelf, MovesOthers
<1>9. p \notin {"idle", "start", "aborted"}
  <2>1. p # "aborted"
    BY <1>1, <1>5 DEF Edge, ServerEdge, ClientEdge, Sides
  <2> QED BY <1>6, <2>1 DEF Points, Joins, Ended
<1>10. shutdown' # "no" => calls'["shutdown"].accepted
  <2>1. CASE shutdown # "no" \/ e # "shutdown"
    BY <1>3, <1>4, <1>5, <1>7, <2>1
  <2>2. CASE shutdown = "no" /\ e = "shutdown"
    <3>1. SideOf(f) = "server"
      BY <1>1, <1>5, <2>2 DEF Edge, ClientEdge, Sides
    <3>2. at[f] = "signal" \/ (at[f] = "finish" /\ CallOf(f) = "shutdown")
      BY <1>5, <2>2, <3>1 DEF Edge, Course, ServerCourse
    <3>3. at[f] # "signal"
      <4>1. SUFFICES ASSUME at[f] = "signal" PROVE FALSE
        OBVIOUS
      <4>2. fn = "signal"
        BY <1>5, <4>1, CompletedAt DEF AwaitAt
      <4> QED BY <1>5, <2>2, <4>2 DEF Outcome, Peace
    <3>4. calls["shutdown"].accepted
      BY <1>1, <3>1, <3>2, <3>3 DEF AcceptInvariant, Resting, Ended
    <3> QED BY <1>3, <1>7, <3>4
  <2> QED BY <2>1, <2>2
<1>11. ~calls'["never"].started
  <2>1. CASE CallOf(f) # "never"
    BY <1>3, <1>4, <1>6, <2>1
  <2>2. CASE CallOf(f) = "never"
    <3>1. SUFFICES ASSUME u.started PROVE FALSE
      BY <1>3, <1>6, <2>2
    <3>2. SideOf(f) = "client" /\ p \notin Ended /\ Act(e, p) \in Opening
      BY <1>4, <2>2, <3>1, MovesStatus
    <3>3. f = "main"
      BY <1>1, <1>3, <2>2, <3>2, OneClient
    <3>4. p \in {"both", "cancel", "shutdown"} /\ p \in Points
      BY <1>3, <1>6, <3>2, <3>3
    <3>5. e # "AsyncUnary"
      BY <1>5, <3>2, <3>4 DEF Edge, ClientEdge
    <3>6. Act(e, p) \in AwaitAt(p)
      BY <3>4, <3>5, SoleAwaited DEF Act
    <3>7. Act(e, p) = "join"
      BY <3>4, <3>6 DEF AwaitAt
    <3> QED BY <3>2, <3>7 DEF Opening
  <2> QED BY <2>1, <2>2
<1>12. ASSUME calls'["shutdown"].started PROVE at'[M] \notin {"idle", "start"}
  <2>1. CASE f = M
    BY <1>8, <1>9, <2>1
  <2>2. CASE f # M
    <3>1. calls["shutdown"].started
      <4>1. CASE CallOf(f) # "shutdown"
        BY <1>3, <1>6, <1>12, <4>1
      <4>2. CASE CallOf(f) = "shutdown"
        <5>1. SideOf(f) = "server"
          BY <1>1, <1>3, <2>2, <4>2, OneClient
        <5>2. u.started
          BY <1>3, <1>6, <1>12, <4>2
        <5> QED BY <4>2, <5>1, <5>2, MovesStatus
      <4> QED BY <4>1, <4>2
    <3> QED BY <1>3, <1>4, <1>8, <2>2, <3>1
  <2> QED BY <2>1, <2>2
<1>13. ASSUME NEW l \in PointsOf("main"), Rank(l) <= Rank(at'["main"]),
              NEW g \in TableOf("main")[l].starts
       PROVE  at'[g] # "idle"
  <2>1. g \in Frames
    BY <1>1, <1>3, FrameFacts DEF FrameOK, StartsOK, PointsOf, TableOf, Frames
  <2>2. CASE Rank(l) <= Rank(at["main"])
    <3>1. at[g] # "idle"
      BY <1>4, <2>2
    <3> QED BY <1>8, <1>9, <2>1, <3>1
  <2>3. CASE ~(Rank(l) <= Rank(at["main"]))
    <3>1. f = "main"
      <4>1. SUFFICES ASSUME f # "main" PROVE FALSE
        OBVIOUS
      <4>2. Rank(at'["main"]) = Rank(at["main"])
        BY <1>3, <1>8, <4>1 DEF Rank
      <4> QED BY <1>13, <2>3, <4>2
    <3>2. Rank(l) <= Rank(p) /\ Rank(p) <= Rank(at[f]) + 1 /\ ~(Rank(l) <= Rank(at[f]))
      <4>1. Rank(p) <= Rank(at[f]) + 1
        BY <1>3, <1>5, <3>1 DEF Edge, Course, ClientCourse
      <4> QED BY <1>8, <1>13, <2>3, <3>1, <4>1
    <3>3. Rank(l) \in Nat /\ Rank(p) \in Nat /\ Rank(at[f]) \in Nat
      BY DEF Rank
    <3>4. Rank(p) = Rank(l)
      BY <3>2, <3>3
    <3>5. l \in {"both", "cancel", "shutdown"}
      BY <1>3
    <3>6. p \notin Ended
      BY <3>4, <3>5 DEF Rank, Ended
    <3>7. p \in {"both", "cancel", "shutdown"}
      BY <1>3, <1>6, <3>1, <3>6
    <3>8. p = l
      BY <3>4, <3>5, <3>7 DEF Rank
    <3>9. g \in StartsAt(f, p)
      BY <3>1, <3>6, <3>8 DEF StartsAt
    <3>10. g # f
      BY <3>9, StartedFresh
    <3>11. at'[g] = "start"
      BY <2>1, <3>9, <3>10 DEF Moves
    <3> QED BY <3>11
  <2> QED BY <2>2, <2>3
<1>14. ASSUME NEW g \in Frames, SideOf(g) = "client", at'[g] \in Ended, CallOf(g) # "never"
       PROVE  calls'[CallOf(g)].accepted \/ Dead(calls'[CallOf(g)])
  <2>0. CallOf(g) \in CallsOf(example)
    BY <1>1, FrameFacts
  <2>1. CASE g # f
    <3>1. at[g] \in Ended
      BY <1>8, <1>14, <2>1 DEF Ended
    <3> QED BY <1>4, <1>7, <1>14, <2>0, <3>1
  <2>2. CASE g = f
    <3> DEFINE t == calls[CallOf(f)]
               o == Combined(f, fn, r)
    <3>1. p = "end"
      BY <1>5, <1>8, <1>9, <1>14, <2>2 DEF Edge, ClientEdge, Ended
    <3>2. \/ at[f] = "finish" /\ o \in Ok
          \/ at[f] = "request" /\ o \notin Ok
          \/ at[f] = "deadline" /\ o = "CANCELLED"
      BY <1>2, <1>5, <1>14, <2>2, <3>1 DEF Edge, Course, ClientCourse
    <3>3. CallOK(t) /\ t \in CallRecord
      BY <1>1 DEF CallInvariant, CallOK
    <3>4. t.accepted \/ Dead(t)
      <4>1. CASE at[f] = "finish" /\ o \in Ok
        <5>1. fn = "Finish" /\ o = r
          BY <1>5, <4>1, CompletedAt DEF AwaitAt
        <5>2. Completes("client", fn, t, shutdown = "shut_down", r, s)
          BY <1>5, <1>14, <2>2, <5>1, RpcMethodsList DEF Outcome
        <5>3. Dead(t) \/ (t.status # "none" /\ r = t.status)
          BY <5>1, <5>2 DEF Completes
        <5>4. Dead(t) \/ t.status = "OK"
          BY <3>3, <4>1, <5>1, <5>3 DEF CallRecord, Ok
        <5> QED BY <3>3, <5>4 DEF CallOK, Whole
      <4>2. CASE at[f] = "request" /\ o \notin Ok
        <5>1. fn = "Request" /\ o = r
          BY <1>5, <4>2, CompletedAt DEF AwaitAt
        <5>2. Completes("client", fn, t, shutdown = "shut_down", r, s)
          BY <1>5, <1>14, <2>2, <5>1, RpcMethodsList DEF Outcome
        <5> QED BY <4>2, <5>1, <5>2 DEF Completes, Ok
      <4>3. CASE at[f] = "deadline"
        <5>1. f = Slow /\ CallOf(f) = "slow_unary"
          BY <4>3, PointOfCall
        <5>2. "Finish" \in pending[Slow] /\ ("wait" \notin pending[Slow] => Dead(t))
          BY <1>1, <4>3, <5>1 DEF SlowInvariant
        <5> QED BY <1>5, <5>1, <5>2
      <4> QED BY <3>2, <4>1, <4>2, <4>3
    <3> QED BY <1>7, <2>0, <2>2, <3>4
  <2> QED BY <2>1, <2>2
<1> QED BY <1>10, <1>11, <1>12, <1>13, <1>14

(* The order is kept by a step that moves no coroutine.                     *)
LEMMA StaysOrder ==
    ASSUME ProgramInvariant, OrderInvariant, example' = example, at' = at,
           shutdown' # "no" => shutdown # "no",
           \A c \in CallsOf(example) : /\ calls[c].accepted => calls'[c].accepted
                                       /\ Dead(calls[c]) => Dead(calls'[c])
                                       /\ calls'[c].started => calls[c].started
    PROVE  OrderInvariant'
<1>1. TypeInvariant
  BY DEF ProgramInvariant
<1>2. \A g \in Frames : CallOf(g) \in CallsOf(example)
  BY <1>1, FrameFacts
<1>3. example \in Streaming => {"never", "shutdown"} \subseteq CallsOf(example)
  BY StreamingFrames
<1>4. SUFFICES ASSUME example \in Streaming
      PROVE  /\ shutdown' # "no" => calls'["shutdown"].accepted
             /\ ~calls'["never"].started
             /\ calls'["shutdown"].started =>
                   at["make_shutdown_request"] \notin {"idle", "start"}
             /\ \A l \in PointsOf("main") : Rank(l) <= Rank(at["main"]) =>
                   \A g \in TableOf("main")[l].starts : at[g] # "idle"
             /\ \A g \in Frames :
                   SideOf(g) = "client" /\ at[g] \in Ended /\ CallOf(g) # "never" =>
                      calls'[CallOf(g)].accepted \/ Dead(calls'[CallOf(g)])
  BY DEF OrderInvariant, Frames, PointsOf, TableOf, SideOf, CallOf
<1> QED BY <1>2, <1>3, <1>4 DEF OrderInvariant

(* One of two operations completes: of the two at the deadline this is the  *)
(* alarm, which cancels the call.                                           *)
LEMMA PartHealth ==
    ASSUME ProgramInvariant, HealthInvariant, Peace,
           NEW f \in Frames, NEW fn \in pending[f], NEW r, NEW s, Part(f, fn, r, s)
    PROVE  HealthInvariant'
<1> DEFINE c == CallOf(f)
           t == calls[c]
<1>1. /\ TypeInvariant /\ ControlInvariant /\ CallInvariant /\ SlowInvariant /\ OrderInvariant
      /\ c \in CallsOf(example) /\ SideOf(f) \in Sides /\ ~cancelled
      /\ CallOK(t)
      /\ \A g \in Frames : at[g] # "aborted"
      /\ \A k \in CallsOf(example) :
            /\ Dead(calls[k]) => k = "slow_unary" /\ calls[k].dead = "CANCELLED"
            /\ calls[k].status = "ERROR" => example \in {"unary", "client_streaming"}
  BY FrameFacts DEF ProgramInvariant, HealthInvariant, CallInvariant
<1>2. /\ Outcome(f, fn, r, s) /\ at[f] \in {"ping_pong", "deadline"} /\ pending[f] \ {fn} # {}
      /\ example' = example /\ at' = at /\ shutdown' = shutdown /\ begun' = begun
      /\ cancelled' = (cancelled \/ (fn = "Finish" /\ "wait" \in pending[f]))
      /\ pending'[f] = pending[f] \ {fn} /\ result'[f] = Combined(f, fn, r)
      /\ \A g \in Frames \ {f} : pending'[g] = pending[g] /\ result'[g] = result[g]
  BY <1>1 DEF Part, TypeInvariant, RunWithDeadline
<1>3. /\ s.status = t.status /\ s.started = t.started /\ s.dead = t.dead
      /\ CallStep(t, s)
  BY <1>1, <1>2, OutcomeCall
<1>4. /\ \A k \in CallsOf(example) : k # c => calls'[k] = calls[k]
      /\ calls'[c] = IF fn = "wait" /\ r = "true" /\ "Finish" \in pending[f]
                     THEN Kill(s, "CANCELLED") ELSE s
      /\ CallsAdvance
  BY PartCall
<1>5. fn \in AwaitAt(at[f])
  BY <1>2, CompletedAt
<1>6. calls'[c].started = t.started
  <2>1. CASE calls'[c] = s
    BY <1>3, <2>1
  <2>2. CASE fn = "wait" /\ calls'[c] = Kill(s, "CANCELLED")
    <3>1. s = t
      BY <1>2, <2>2, RpcMethodsList DEF Outcome
    <3>2. \A v : v = Kill(t, "CANCELLED") => v.started = t.started
      BY <1>1, KillCall
    <3> QED BY <2>2, <3>1, <3>2
  <2> QED BY <1>4, <2>1, <2>2
<1>7. OrderInvariant'
  <2>1. ASSUME NEW k \in CallsOf(example)
        PROVE  /\ calls[k].accepted => calls'[k].accepted
               /\ Dead(calls[k]) => Dead(calls'[k])
               /\ calls'[k].started => calls[k].started
    <3>1. CallStep(calls[k], calls'[k])
      BY <1>4 DEF CallsAdvance
    <3> QED BY <1>4, <1>6, <3>1 DEF CallStep, Dead
  <2> QED BY <1>1, <1>2, <2>1, StaysOrder
<1>8. \A k \in CallsOf(example) : calls'[k].status = calls[k].status
  BY <1>4 DEF CallsAdvance
<1>9. CASE at[f] = "ping_pong"
  <2>1. c = "bidirectional" /\ fn \in {"Read", "Write"}
    BY <1>5, <1>9, PointOfCall DEF AwaitAt
  <2>2. calls'[c] = s /\ ~cancelled' /\ c # "slow_unary"
    BY <1>1, <1>2, <1>4, <2>1
  <2>3. \A k \in CallsOf(example) : calls'[k].dead = calls[k].dead
    BY <1>3, <1>4, <2>2
  <2>4. SlowInvariant'
    <3>1. SUFFICES ASSUME "slow_unary" \in CallsOf(example)
                   PROVE  SlowInvariant'
      BY <1>2 DEF SlowInvariant
    <3>2. Slow \in Frames /\ CallOf(Slow) = "slow_unary"
      BY <1>1, <3>1, SlowFrames
    <3>3. /\ calls'["slow_unary"] = calls["slow_unary"]
          /\ pending'[Slow] = pending[Slow] /\ result'[Slow] = result[Slow]
      BY <1>2, <1>4, <2>2, <3>1, <3>2
    <3> QED BY <1>1, <1>2, <3>1, <3>3 DEF SlowInvariant
  <2> QED BY <1>1, <1>2, <1>7, <1>8, <2>2, <2>3, <2>4 DEF HealthInvariant, Frames, Dead
<1>10. CASE at[f] = "deadline"
  <2>1. SideOf(f) = "client" /\ c = "slow_unary" /\ f = Slow
    BY <1>10, PointOfCall
  <2>2. pending[f] = {"wait", "Finish"}
    <3>1. pending[f] \subseteq {"wait", "Finish"}
      BY <1>1, <1>10 DEF ControlInvariant, AwaitAt, Resting, Ended
    <3> QED BY <1>2, <3>1
  <2>3. t.status = "none" /\ ~Dead(t) /\ t.started /\ result[f] = "true"
    BY <1>1, <1>10, <2>1, <2>2 DEF SlowInvariant, Ended
  <2>4. fn = "wait"
    <3>1. SUFFICES ASSUME fn = "Finish" PROVE FALSE
      BY <2>2
    <3>2. Completes("client", "Finish", t, shutdown = "shut_down", r, s)
      BY <1>2, <2>1, <3>1, RpcMethodsList DEF Outcome
    <3> QED BY <2>3, <3>2 DEF Completes
  <2>5. r = "true" /\ s = t
    BY <1>1, <1>2, <2>1, <2>4, RpcMethodsList DEF Outcome
  <2>6. calls'[c] = Kill(t, "CANCELLED")
    BY <1>4, <2>2, <2>4, <2>5
  <2>7. calls'[c].dead = "CANCELLED"
    <3>1. \A v : v = Kill(t, "CANCELLED") => v.dead = IF t.started /\ ~Dead(t) THEN "CANCELLED" ELSE t.dead
      BY <1>1, KillCall
    <3> QED BY <2>3, <2>6, <3>1
  <2>8. ~cancelled' /\ result'[f] = "true" /\ pending'[f] = {"Finish"}
    BY <1>1, <1>2, <2>2, <2>3, <2>4 DEF Combined
  <2>9. SlowInvariant'
    BY <1>1, <1>2, <1>6, <1>8, <1>10, <2>1, <2>3, <2>7, <2>8 DEF SlowInvariant, Dead
  <2>10. ASSUME NEW k \in CallsOf(example)
         PROVE  Dead(calls'[k]) => k = "slow_unary" /\ calls'[k].dead = "CANCELLED"
    BY <1>1, <1>4, <2>1, <2>7 DEF Dead
  <2> QED BY <1>1, <1>2, <1>7, <1>8, <2>8, <2>9, <2>10 DEF HealthInvariant, Frames
<1> QED BY <1>2, <1>9, <1>10

(* No client aborts.                                                        *)
LEMMA NoAbort ==
    ASSUME ProgramInvariant, HealthInvariant, ReplyInvariant, Peace,
           NEW f \in Frames, NEW fn \in pending[f]
    PROVE  ~AbortClient(f, fn)
<1>1. SUFFICES ASSUME AbortClient(f, fn) PROVE FALSE
  OBVIOUS
<1>2. /\ TypeInvariant /\ ControlInvariant /\ CallInvariant
      /\ TableOK(example, f, SideOf(f), CallOf(f), TableOf(f))
  BY FrameFacts DEF ProgramInvariant
<1>3. PICK o \in ResultsOf(f, fn) :
        /\ Resumes(f, pending[f] \ {fn})
        /\ \E target \in TargetsOf(f, Combined(f, fn, o[1])) :
              \/ target.effect = "abort"
              \/ target.effect = "expect" /\ ~AsExpected(f, o[2])
  BY <1>1 DEF AbortClient
<1>4. PICK target \in TargetsOf(f, Combined(f, fn, o[1])) :
        \/ target.effect = "abort"
        \/ target.effect = "expect" /\ ~AsExpected(f, o[2])
  BY <1>3
<1> DEFINE r == o[1]
           s == o[2]
           p == target.point
           e == target.effect
<1>5. Outcome(f, fn, r, s)
  BY <1>2, OutcomeOf
<1>6. pending[f] = {fn}
  BY <1>3 DEF Resumes
<1>7. /\ at[f] \notin Resting /\ (at[f] = "start" <=> fn = "start")
      /\ (fn # "start" => at[f] \in LiveAt(f))
  BY <1>2, PendingMethods
<1>8. Combined(f, fn, r) \in Results
  BY <1>2, <1>5 DEF Combined, TypeInvariant, Outcome
<1>9. Edge(example, f, SideOf(f), CallOf(f), at[f], Combined(f, fn, r), p, e)
  <2>1. CASE at[f] = "start"
    <3>1. Combined(f, fn, r) = "true"
      <4>1. result[f] = "true"
        BY <1>2, <2>1 DEF ControlInvariant
      <4> QED BY <1>5, <1>7, <2>1, <4>1 DEF Combined, Outcome
    <3>2. target \in TableOf(f).start
      BY <2>1 DEF TargetsOf
    <3> QED BY <1>2, <2>1, <3>1, <3>2 DEF TableOK, LiveAt
  <2>2. CASE at[f] # "start"
    <3>1. target \in TableOf(f)[at[f]].next[Combined(f, fn, r)]
      BY <2>2 DEF TargetsOf
    <3> QED BY <1>2, <1>7, <1>8, <2>2, <3>1 DEF TableOK, LiveAt
  <2> QED BY <2>1, <2>2
<1>10. e # "abort" /\ (e = "expect" => AsExpected(f, s))
  <2> HIDE DEF r, s, p, e
  <2> QED BY <1>5, <1>6, <1>9, HealthyClient, MeetsExpectation
<1> QED BY <1>4, <1>10

(* No call is refused: when the server has been shut down, the client had   *)
(* ended its other calls before it made the shutdown request.               *)
LEMMA NoRefusal ==
    ASSUME ProgramInvariant, HealthInvariant, Peace, NEW c \in CallsOf(example)
    PROVE  ~RefuseCall(c)
<1>1. SUFFICES ASSUME shutdown = "shut_down", calls[c].started, ~calls[c].accepted,
                      ~Dead(calls[c])
               PROVE  FALSE
  BY DEF RefuseCall
<1>2. /\ TypeInvariant /\ FamilyInvariant /\ CallInvariant /\ OrderInvariant
      /\ example \in Streaming
  BY <1>1 DEF ProgramInvariant, HealthInvariant
<1>3. /\ {"main", "make_shutdown_request"} \subseteq Frames
      /\ "shutdown" \in CallsOf(example)
      /\ PointsOf("main") = {"both", "cancel", "shutdown"}
      /\ TableOf("main")["shutdown"].starts = {"make_shutdown_request"}
      /\ \A k \in CallsOf(example) \ {"never", "shutdown"} :
            \E l \in {"both", "cancel"} : \E g \in TableOf("main")[l].starts :
               g \in Frames /\ SideOf(g) = "client" /\ CallOf(g) = k
  BY <1>2, StreamingFrames
<1>4. calls["shutdown"].accepted /\ ~calls["never"].started
  BY <1>1, <1>2 DEF OrderInvariant
<1>5. calls["shutdown"].started
  BY <1>2, <1>3, <1>4 DEF CallInvariant, CallOK
<1>6. at["make_shutdown_request"] # "idle"
  BY <1>2, <1>5 DEF OrderInvariant
<1>7. ~(Rank(at["main"]) < Rank("shutdown"))
  BY <1>2, <1>3, <1>6 DEF FamilyInvariant
<1>8. c \notin {"never", "shutdown"}
  BY <1>1, <1>4
<1>9. PICK l \in {"both", "cancel"} : \E g \in TableOf("main")[l].starts :
         g \in Frames /\ SideOf(g) = "client" /\ CallOf(g) = c
  BY <1>3, <1>8
<1>10. PICK g \in TableOf("main")[l].starts :
         g \in Frames /\ SideOf(g) = "client" /\ CallOf(g) = c
  BY <1>9
<1>11. Rank(l) <= Rank(at["main"]) /\ at["main"] # l
  BY <1>7, <1>9 DEF Rank
<1>12. at[g] # "idle"
  BY <1>2, <1>3, <1>9, <1>11 DEF OrderInvariant
<1>13. at[g] \in Resting
  BY <1>2, <1>3, <1>9, <1>11 DEF FamilyInvariant
<1>14. at[g] \in Ended
  BY <1>12, <1>13 DEF Resting
<1>15. calls[c].accepted \/ Dead(calls[c])
  BY <1>2, <1>8, <1>10, <1>14 DEF OrderInvariant
<1> QED BY <1>1, <1>15

(* Every step preserves the invariant.                                      *)
LEMMA NextHealth ==
    ASSUME ProgramInvariant, HealthInvariant, ReplyInvariant, [Next]_vars
    PROVE  HealthInvariant'
<1>1. SUFFICES ASSUME Peace' PROVE HealthInvariant'
  BY DEF HealthInvariant
<1>2. TypeInvariant
  BY DEF ProgramInvariant
<1>3. ASSUME NEW f \in Frames, Step(f) PROVE HealthInvariant'
  <2>1. PICK fn \in pending[f] : CompletePart(f, fn) \/ Resume(f, fn) \/ AbortClient(f, fn)
    BY <1>3 DEF Step
  <2>2. CASE CompletePart(f, fn)
    <3>1. Peace
      BY <1>1, <2>2 DEF CompletePart, Peace
    <3> QED BY <2>2, <3>1, CompletePartIs, PartHealth
  <2>3. CASE Resume(f, fn)
    <3>1. PICK r, s, p, e, u : Moves(f, fn, r, s, p, e, u)
      BY <2>3, ResumeMoves
    <3>2. Peace /\ example' = example
      BY <1>1, <3>1 DEF Moves, Peace
    <3>3. SlowInvariant' /\ OrderInvariant'
      BY <3>1, <3>2, MovesSlow, MovesOrder
    <3>4. /\ \A g \in Frames : at'[g] # "aborted"
          /\ \A c \in CallsOf(example) :
                /\ Dead(calls'[c]) => c = "slow_unary" /\ calls'[c].dead = "CANCELLED"
                /\ calls'[c].status = "ERROR" => example \in {"unary", "client_streaming"}
          /\ ~cancelled'
      BY <3>1, <3>2, MovesHealthy
    <3> QED BY <3>2, <3>3, <3>4 DEF HealthInvariant, Frames
  <2>4. CASE AbortClient(f, fn)
    <3>1. Peace
      BY <1>1, <2>4 DEF AbortClient, Peace
    <3> QED BY <2>4, <3>1, NoAbort
  <2> QED BY <2>1, <2>2, <2>3, <2>4
<1>4. CASE CancelSignals \/ ShutdownServer \/ UNCHANGED vars
  <2>1. /\ UNCHANGED <<example, calls, at, pending, result, begun, cancelled>> /\ Peace
        /\ shutdown' # "no" => shutdown # "no"
    BY <1>1, <1>4 DEF CancelSignals, ShutdownServer, vars, Peace
  <2>2. OrderInvariant /\ SlowInvariant
    BY <2>1 DEF HealthInvariant
  <2>3. OrderInvariant'
    BY <2>1, <2>2, StaysOrder
  <2>4. SlowInvariant'
    BY <2>1, <2>2 DEF SlowInvariant
  <2> QED BY <2>1, <2>3, <2>4 DEF HealthInvariant, Frames
<1>5. ASSUME NEW c \in DOMAIN calls, RefuseCall(c) PROVE HealthInvariant'
  <2>1. Peace /\ c \in CallsOf(example)
    BY <1>1, <1>2, <1>5 DEF RefuseCall, Peace, TypeInvariant
  <2> QED BY <1>5, <2>1, NoRefusal
<1>6. ~Signal /\ \A c \in DOMAIN calls : ~CallFails(c)
  BY <1>1 DEF Signal, CallFails, Peace
<1> QED BY <1>3, <1>4, <1>5, <1>6 DEF Next, Progress, Done

(* The first states.                                                        *)
LEMMA InitHealth ==
    ASSUME Init, ProgramInvariant
    PROVE  HealthInvariant
<1>1. /\ TypeInvariant /\ ControlInvariant
      /\ shutdown = "no" /\ ~cancelled
  BY DEF ProgramInvariant, Init
<1>2. ASSUME NEW c \in CallsOf(example)
      PROVE  ~Dead(calls[c]) /\ calls[c].status = "none" /\ ~calls[c].started
  <2>1. calls[c] = NewCall(KindOf(c))
    BY DEF Init
  <2> QED BY <2>1 DEF NewCall, Dead
<1>3. ASSUME NEW f \in Frames, SideOf(f) = "client" PROVE at[f] \in {"idle", "start"}
  BY <1>3 DEF Init
<1>4. ASSUME NEW f \in Frames PROVE at[f] # "aborted"
  <2>1. SideOf(f) \in Sides
    BY <1>1, FrameFacts
  <2> QED BY <1>1, <1>3, <2>1 DEF ControlInvariant, Sides
<1>5. SlowInvariant
  <2>1. SUFFICES ASSUME "slow_unary" \in CallsOf(example) PROVE SlowInvariant
    BY DEF SlowInvariant
  <2>2. at[Slow] \in {"idle", "start"}
    BY <1>1, <1>3, <2>1, SlowFrames
  <2>3. /\ ~Dead(calls["slow_unary"]) /\ calls["slow_unary"].status = "none"
        /\ ~calls["slow_unary"].started
        /\ begun["slow_unary"]["server"] = {}
    BY <1>2, <2>1 DEF Init, Sides
  <2> QED BY <2>2, <2>3 DEF SlowInvariant, Ended
<1>6. OrderInvariant
  <2>1. SUFFICES ASSUME example \in Streaming PROVE OrderInvariant
    BY DEF OrderInvariant
  <2>2. /\ {"never", "shutdown"} \subseteq CallsOf(example) /\ "main" \in Frames
        /\ SideOf("main") = "client"
        /\ PointsOf("main") = {"both", "cancel", "shutdown"}
    BY <2>1, StreamingFrames
  <2>3. ~calls["never"].started /\ ~calls["shutdown"].started
    BY <1>2, <2>2
  <2>4. ASSUME NEW l \in PointsOf("main") PROVE ~(Rank(l) <= Rank(at["main"]))
    <3>1. Rank(at["main"]) = 0
      BY <1>3, <2>2 DEF Rank
    <3> QED BY <2>2, <3>1 DEF Rank
  <2>5. \A f \in Frames : SideOf(f) = "client" => at[f] \notin Ended
    BY <1>3 DEF Ended
  <2> QED BY <1>1, <2>3, <2>4, <2>5 DEF OrderInvariant
<1> QED BY <1>1, <1>2, <1>4, <1>5, <1>6 DEF HealthInvariant

(* As long as no call fails and no signal arrives, the only call that the   *)
(* library ends is the slow one, by its alarm, and none is refused.         *)
THEOREM HealthInvariantAlways == Spec => []HealthInvariant
<1>1. Init /\ ProgramInvariant => HealthInvariant
  BY InitHealth
<1>2. ProgramInvariant /\ HealthInvariant /\ ReplyInvariant /\ [Next]_vars => HealthInvariant'
  BY NextHealth
<1> QED BY <1>1, <1>2, ProgramInvariantAlways, ReplyInvariantAlways, PTL DEF Spec

(* abort_if_not does not abort a client unless a call has failed or a       *)
(* signal has arrived: not on a status, not on the response of              *)
(* share-io-context-client.cpp and not on the time limit of                 *)
(* streaming-client.cpp.  The last one rests on what WaitResults assumes of *)
(* the two alarms.                                                          *)
THEOREM AbortsOnlyOnFailureAlways == Spec => []AbortsOnlyOnFailure
<1>1. HealthInvariant => AbortsOnlyOnFailure
  BY DEF HealthInvariant, AbortsOnlyOnFailure, Peace
<1> QED BY <1>1, HealthInvariantAlways, PTL

=============================================================================
