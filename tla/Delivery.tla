------------------------------ MODULE Delivery ------------------------------
(***************************************************************************)
(* From main() to the client's eyes: the process starts (Startup), and     *)
(* then one connection turns requests into responses (Handler), queues     *)
(* them in its output buffer (ByteBuf), and flushes that into a socket     *)
(* with little room, while the client decodes what it reads by the rules   *)
(* of HTTP: a status and a method that have no body, or Content-Length.    *)
(*                                                                         *)
(* Connection and EventLoop have the output as whole responses and every   *)
(* way a socket can fail; here the socket is sound and the bytes count,    *)
(* and the limits are those of the command line.                           *)
(***************************************************************************)
EXTENDS Startup, Handler, ByteBuf

LOCAL INSTANCE FiniteSetsExt

CONSTANTS Scripts(_),  \* what clients send to a server started with argv
          SendRoom     \* units the socket takes ahead of the client

(* expect: the head asks for 100-continue; fault: where it is malformed.   *)
Message == [req : Request, expect : BOOLEAN, fault : {"none", "head", "body"}]

ASSUME DeliveryAssumption ==
  /\ \A line \in CommandLines : Scripts(line) \subseteq Seq(Message)
  /\ SendRoom \in Nat

VARIABLES script,    \* what the client sends, without waiting
          taken,     \* how many of them the parser has done with
          expected,  \* the parser's expect_sent_ for the next one
          conn,      \* the Connection
          wire,      \* in the socket's send buffer
          queued,    \* ghost: the responses given to out_, see Recorded
          reader     \* the client's decoder

vars == <<configVars, startupVars, script, taken, expected, conn, wire, queued,
          reader>>

(* in_flight: the worker has script[taken].                                *)
NewConn == [alive |-> TRUE, close_after |-> FALSE, draining |-> FALSE,
            in_flight |-> FALSE, last_head |-> FALSE, minor |-> 1,
            out |-> EmptyBuf]

NewReader == [head |-> <<>>, need |-> 0, done |-> <<>>, finals |-> 0]

Init == /\ StartupInit
        /\ script \in Scripts(argv) /\ taken = 0 /\ expected = FALSE
        /\ conn = NewConn /\ wire = <<>> /\ queued = <<>> /\ reader = NewReader

-----------------------------------------------------------------------------
(* What a client makes of a head.                                          *)

(* A 100 is followed by the response it is part of.                        *)
Final(head) == IF head.status = "100" THEN 0 ELSE 1

(* The n-th final response is to the n-th message.                         *)
ToHead(n) == n <= Len(script) /\ is_head(script[n].req)

BodyOf(head, n) == IF head.status \in {"100", "204", "304"} \/ ToHead(n)
                   THEN 0 ELSE head.length[1]
Closing(head) == head.connection = "close"
                   \/ (head.minor = 0 /\ head.connection # "keep-alive")

Told(head, n) == [status |-> head.status, body |-> BodyOf(head, n),
                  close |-> Closing(head)]

-----------------------------------------------------------------------------
(* Connection's output, on k = [c, wire, queued].                          *)

Now == [c |-> conn, wire |-> wire, queued |-> queued]
Becomes(next) ==
  \E k \in {next} : conn' = k.c /\ wire' = k.wire /\ queued' = k.queued

(* send() until out_ is empty or the socket is full.                       *)
flush(k) ==
  LET n == Least2(SendRoom - Len(k.wire), size(k.c.out))
  IN  IF ~k.c.alive THEN k
      ELSE [k EXCEPT !.wire = @ \o SubSeq(view(k.c.out), 1, n),
                     !.c.out = consume(@, n)]

(* The ghost: what the head tells the client, the length it announces, the *)
(* body that follows it, and how many final responses there are by now.    *)
Finals(q) == IF q = <<>> THEN 0 ELSE q[Len(q)].finals
Recorded(k, bytes) ==
  Append(k.queued, [told |-> Told(bytes[1], Finals(k.queued) + 1),
                    length |-> bytes[1].length, sent |-> Len(bytes) - 1,
                    finals |-> Finals(k.queued) + Final(bytes[1])])

Promised(q) == [i \in DOMAIN q |-> q[i].told]

queue_response(k, response) ==
  LET res == [response EXCEPT !.send_body = @ /\ ~k.c.last_head]
      bytes == serialize_response(res)
  IN  [k EXCEPT !.c.out = append_to_target(@, bytes),
                !.c.close_after = @ \/ ~res.keep_alive \/ res.close_after,
                !.queued = Recorded(k, bytes)]

(* Mutant: an error does not end the connection.                           *)
ErrorGoesOn(k, status) ==
  queue_response(k, [make_error_response(status, TRUE) EXCEPT !.minor = k.c.minor])

queue_error(k, status) ==
  [queue_response(k, [make_error_response(status, FALSE)
                        EXCEPT !.minor = k.c.minor])
     EXCEPT !.c.close_after = TRUE]

-----------------------------------------------------------------------------
(* Connection's input                                                      *)

(* Mutant: output is no reason not to read.                                *)
ReadsDespiteOutput(c) ==
  c.alive /\ ~c.close_after /\ ~c.in_flight /\ ~c.draining

want_read(c) == /\ c.alive /\ ~c.close_after /\ ~c.in_flight /\ ~c.draining
                /\ size(c.out) < cfg["max_output"]

finished(c) == ~c.alive \/ (c.close_after /\ c.out = EmptyBuf /\ ~c.in_flight)

(* A head is one unit.                                                     *)
MessageSize(m) == 1 + m.req.body

(* parser_.parse() on the whole of a message.                              *)
Judgement(m) == IF m.fault = "head" THEN "400"
                ELSE IF m.req.body > cfg["max_body"] THEN "413"
                ELSE IF m.fault = "body" THEN "400" ELSE "request"

(* finish_headers() asks for a 100 once, and only for a body it would take. *)
Asks(m) == /\ m.expect /\ ~expected /\ m.req.minor = 1 /\ m.req.body > 0
           /\ m.fault # "head" /\ m.req.body <= cfg["max_body"]

Continued(k, full) ==
  flush([k EXCEPT !.c.out = append(@, kContinue, full),
                  !.queued = Recorded(k, kContinue)])

(* A request is submitted to the pool, or refused with a 503 that waits in *)
(* out_ for EPOLLOUT.                                                      *)
Dispatch(k, req, accepts) ==
  LET k1 == [k EXCEPT !.c.minor = req.minor, !.c.last_head = is_head(req),
                      !.c.in_flight = accepts]
  IN  IF accepts THEN k1 ELSE queue_error(k1, "503")

drain_requests(k, m, accepts) ==
  CASE Judgement(m) = "request" -> Dispatch(k, m.req, accepts)
    [] OTHER                    -> flush(queue_error(k, Judgement(m)))

Serving == stage = "serving" /\ UNCHANGED <<configVars, startupVars>>

(* The next message, after its 100 if it asks for one.  If its body is     *)
(* there by then the parser goes on, without another look at want_read().  *)
on_readable ==
  /\ Serving /\ want_read(conn) /\ taken < Len(script)
  /\ LET m == script[taken + 1]
         After100 == IF Asks(m) THEN {Continued(Now, full) : full \in BOOLEAN}
                     ELSE {Now}
     IN  \E k \in After100 :
           \/ /\ Asks(m)
              /\ Becomes(k) /\ expected' = TRUE /\ UNCHANGED taken
           \/ \E accepts \in BOOLEAN :
                /\ Becomes(drain_requests(k, m, accepts))
                /\ expected' = FALSE /\ taken' = taken + 1
  /\ UNCHANGED <<script, reader>>

(* More has been received than one request may have.                       *)
on_readable_too_much ==
  /\ Serving /\ want_read(conn)
  /\ MapThenSumSet(LAMBDA i : MessageSize(script[i]), (taken + 1)..Len(script))
       > cfg["max_request"]
  /\ Becomes(flush(queue_error(Now, "413")))
  /\ UNCHANGED <<script, taken, expected, reader>>

(* threw: the handler threw an exception.                                  *)
on_worker_result(threw) ==
  /\ Serving /\ conn.alive /\ conn.in_flight
  /\ Becomes(flush(queue_response([Now EXCEPT !.c.in_flight = FALSE],
                                  Answer(script[taken].req, cfg["max_response"],
                                         threw))))
  /\ UNCHANGED <<script, taken, expected, reader>>

(* Mutant: a connection that is closing is not written to any more.        *)
WritableUntilClosing ==
  /\ Serving /\ ~conn.close_after /\ conn.out # EmptyBuf
  /\ Len(wire) < SendRoom
  /\ Becomes(flush(Now))
  /\ UNCHANGED <<script, taken, expected, reader>>

on_writable ==
  /\ Serving /\ conn.alive /\ conn.out # EmptyBuf
  /\ Len(wire) < SendRoom
  /\ Becomes(flush(Now))
  /\ UNCHANGED <<script, taken, expected, reader>>

(* idle_timeout_sec has passed without activity.  NaN is not <= 0, and     *)
(* what it converts to is undefined.                                       *)
TimesOut == ~(cfg["idle_timeout"] # NaN /\ cfg["idle_timeout"] <= 0)

on_tick ==
  /\ Serving /\ ~finished(conn) /\ ~conn.in_flight
  /\ IF conn.draining /\ conn.out = EmptyBuf
     THEN Becomes([Now EXCEPT !.c.close_after = TRUE])
     ELSE /\ TimesOut
          /\ IF conn.out # EmptyBuf
             THEN Becomes([Now EXCEPT !.c.alive = FALSE, !.c.close_after = TRUE,
                                      !.c.out = EmptyBuf])
             ELSE Becomes(flush(queue_error(Now, "408")))
  /\ UNCHANGED <<script, taken, expected, reader>>

begin_draining ==
  /\ Serving /\ ~conn.draining /\ ~finished(conn)
  /\ Becomes([Now EXCEPT !.c.draining = TRUE,
                         !.c.close_after = @ \/ (~conn.in_flight
                                                   /\ conn.out = EmptyBuf)])
  /\ UNCHANGED <<script, taken, expected, reader>>

-----------------------------------------------------------------------------
(* The client                                                              *)

Garbage == [status |-> "garbage", body |-> 0, close |-> TRUE]

Understood(told) == [head |-> <<>>, need |-> 0, done |-> Append(reader.done, told),
                     finals |-> reader.finals + Final(told)]

ClientReads ==
  /\ Serving /\ wire # <<>>
  /\ \A i \in DOMAIN reader.done : ~reader.done[i].close
  /\ LET unit == Head(wire)
         in_body == reader.head # <<>>
         told == Told(IF in_body THEN reader.head[1] ELSE unit, reader.finals + 1)
         need == IF in_body THEN reader.need - 1 ELSE told.body
     IN  reader' = IF ~in_body /\ unit.kind # "head" THEN Understood(Garbage)
                   ELSE IF need = 0 THEN Understood(told)
                   ELSE [reader EXCEPT !.head = IF in_body THEN @ ELSE <<unit>>,
                                       !.need = need]
  /\ wire' = Tail(wire)
  /\ UNCHANGED <<script, taken, expected, conn, queued>>

(* Nothing is left to do until the client has another request.             *)
Unread == {i \in 1..Len(queued) : i > Len(reader.done)
                                    /\ queued[i].sent >= queued[i].told.body}

Settled ==
  \/ ~conn.alive
  \/ /\ ~conn.in_flight /\ conn.out = EmptyBuf /\ Unread = {}
     /\ taken = Len(script) \/ conn.close_after \/ conn.draining

AtRest == /\ stage = "exited" \/ (stage = "serving" /\ Settled)
          /\ UNCHANGED vars

Starting == StartupStep /\ UNCHANGED <<script, taken, expected, conn, wire,
                                       queued, reader>>

Result == \E threw \in BOOLEAN : on_worker_result(threw)

Next == \/ Starting \/ on_readable \/ on_readable_too_much \/ Result
        \/ on_writable \/ on_tick \/ begin_draining \/ ClientReads \/ AtRest

(* The server does what it can, and the client goes on reading and         *)
(* sending; nothing makes a connection time out or drain.                  *)
Server == on_writable \/ Result \/ on_readable
Fairness == WF_vars(Server) /\ WF_vars(ClientReads)

Spec == Init /\ [][Next]_vars /\ Fairness

-----------------------------------------------------------------------------
(* Whatever is pipelined, refused, suppressed or only partly written, the  *)
(* client reads whole responses, those the server queued and in that       *)
(* order, and is never told anything after the end was announced.          *)
Channel == INSTANCE ResponseChannel WITH queued <- Promised(queued),
                                         got <- reader.done
ImplementsChannel == Channel!ChannelSpec

(* A body that is not the one its head announces (last_head_ outlives its  *)
(* request, and a 408, 400 or 413 after a HEAD goes without its body) ends *)
(* the connection, so that no later response is read as part of it.        *)
MismatchIsLast ==
  \A i \in 1..Len(queued) :
    queued[i].sent # queued[i].told.body =>
      i = Len(queued) /\ queued[i].told.close /\ conn.close_after

Announced == queued # <<>> /\ queued[Len(queued)].told.close

(* Server and client agree on whether the connection goes on: the server   *)
(* closes after a response exactly if that told the client so, unless it   *)
(* is shutting down or has given the client up.                            *)
PersistenceAgreed ==
  /\ Announced => conn.close_after
  /\ conn.close_after /\ conn.alive /\ ~conn.draining => Announced

(* Backpressure bounds what a connection stores, consumed bytes that are   *)
(* not yet dropped included: less than max_output_bytes before, one 100    *)
(* and one response on top; or a buffer less than half of which is         *)
(* consumed, and a 100.                                                    *)
OutputBounded ==
  stage = "serving" =>
    \/ \E largest \in {Text, cfg["max_body"], cfg["max_response"]} :
         Len(conn.out.data) <= cfg["max_output"] + 1 + largest
    \/ Len(conn.out.data) <= 2 * cfg["max_output"] - 2

(* A HEAD is answered with the length the GET would have had, whether the  *)
(* handler suppressed the body or the job or the connection did.           *)
LoopError == {"400", "408", "413", "503"}
HeadAnnouncesGet ==
  \A i \in 1..Len(queued) :
    LET n == queued[i].finals
    IN  (queued[i].told.status \notin LoopError \cup {"100"} /\ ToHead(n)) =>
          \E threw \in BOOLEAN :
            queued[i].length =
              serialize_response(Answer([script[n].req EXCEPT !.method = "Get"],
                                        cfg["max_response"], threw))[1].length

(* Backpressure, refusals and closing never leave a connection stuck: as   *)
(* long as the client reads, every message is answered up to one that ends *)
(* the connection, and every complete answer is read, unless the idle      *)
(* timeout gives the client up.                                            *)
EveryResponseDelivered == stage = "serving" ~> (Settled \/ stage = "exited")
=============================================================================
