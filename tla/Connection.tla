----------------------------- MODULE Connection -----------------------------
(***************************************************************************)
(* Connection (connection.h, connection.cpp): one client socket's protocol *)
(* state.  Only the event-loop thread runs these methods and a method runs *)
(* to completion, so each is an operator from state to state; EventLoop    *)
(* turns their calls into actions.                                         *)
(*                                                                         *)
(* A method works on k = [c, s, job]: the object, the kernel's half of the *)
(* socket, and the job the method submits (NoJob when it submits none).    *)
(*                                                                         *)
(* Data.  Input is a sequence of segments, each one unit of the byte       *)
(* limits, named for what they mean to the parser; output is a sequence of *)
(* whole responses.                                                        *)
(***************************************************************************)
EXTENDS Naturals, Sequences, FiniteSets

CONSTANTS Client,       \* the sockets clients open; a Connection's identity
          Fd,           \* descriptor numbers
          NoJob,
          MaxRequest,   \* cfg.max_request_bytes, in segments
          MaxOutput,    \* cfg.max_output_bytes, in responses
          SendBuffer,   \* responses the kernel accepts ahead of the client
          IdleTimeout   \* BOOLEAN: cfg.idle_timeout_sec > 0

(* part:   bytes that end neither a head nor a request                     *)
(* expect: ends a head that asks for 100-continue; a body must follow      *)
(* get, head, last: ends a request - with keep-alive, a HEAD request, and  *)
(*         one after which the connection closes                           *)
(* bad, huge: the parser answers kBadRequest, kTooLarge                    *)
Segment == {"part", "expect", "get", "head", "last", "bad", "huge"}
Ending == {"get", "head", "last"}
Unfinished == {"part", "expect"}

(* A request has one head: the body that follows an expect ends it.        *)
OneExpect(in) ==
  \A i, j \in 1..Len(in) : in[i] = "expect" /\ in[j] = "expect" /\ i < j =>
    \E l \in i..j : in[l] \notin Unfinished

Job == [conn : Client, seq : Nat, kind : Ending]

(* of: the job answered, or NoJob for what the loop itself generates;      *)
(* body: the bytes Content-Length announces follow the head;               *)
(* close: !keep_alive || close_after                                       *)
Response == [status : {"100", "200", "400", "408", "413", "503"},
             of : Job \cup {NoJob}, body : BOOLEAN, close : BOOLEAN]

(* The members connection.h declares, plus parser_.bytes_consumed().       *)
ConnState ==
  [fd : Fd, alive : BOOLEAN, close_after : BOOLEAN, draining : BOOLEAN,
   peer_eof : BOOLEAN, in_flight : BOOLEAN, inflight_seq : Nat,
   next_seq : Nat, last_head : BOOLEAN, in : Seq(Segment), consumed : Nat,
   out : Seq(Response), applied_mask : SUBSET {"in", "out"}]

ASSUME ConnectionAssumption ==
  /\ MaxRequest \in Nat /\ MaxOutput \in Nat /\ SendBuffer \in Nat \ {0}
  /\ IdleTimeout \in BOOLEAN
  /\ NoJob \notin Job

NewConn(fd) ==
  [fd |-> fd, alive |-> TRUE, close_after |-> FALSE, draining |-> FALSE,
   peer_eof |-> FALSE, in_flight |-> FALSE, inflight_seq |-> 0,
   next_seq |-> 1, last_head |-> FALSE, in |-> <<>>, consumed |-> 0,
   out |-> <<>>, applied_mask |-> {"in"}]

(* The kernel's half: received and unread, the client's FIN, a dead peer,  *)
(* sent and unread by the client, and what the client has read so far.     *)
SockState == [rcv : Seq(Segment), fin : BOOLEAN, gone : {"no", "hup", "err"},
              snd : Seq(Response), got : Seq(Response)]

NewSock == [rcv |-> <<>>, fin |-> FALSE, gone |-> "no",
            snd |-> <<>>, got |-> <<>>]

-----------------------------------------------------------------------------
(* Mutants: reading regardless of pending output, or of draining.          *)
ReadsDespiteOutput(c) ==
  c.alive /\ ~c.close_after /\ ~c.peer_eof /\ ~c.in_flight /\ ~c.draining
ReadsWhileDraining(c) ==
  /\ c.alive /\ ~c.close_after /\ ~c.peer_eof /\ ~c.in_flight
  /\ Len(c.out) < MaxOutput

want_read(c) ==
  /\ c.alive /\ ~c.close_after /\ ~c.peer_eof /\ ~c.in_flight /\ ~c.draining
  /\ Len(c.out) < MaxOutput

(* Mutant: a connection that is closing no longer asks for EPOLLOUT.       *)
WritesUntilClosing(c) == c.alive /\ c.out # <<>> /\ ~c.close_after

want_write(c) == c.alive /\ c.out # <<>>

interest_mask(c) == (IF want_read(c) THEN {"in"} ELSE {})
                      \cup (IF want_write(c) THEN {"out"} ELSE {})

(* Mutant: closing without waiting for the output to be written.           *)
FinishedUnflushed(c) == ~c.alive \/ (c.close_after /\ ~c.in_flight)

finished(c) == ~c.alive \/ (c.close_after /\ c.out = <<>> /\ ~c.in_flight)

kill(c) == [c EXCEPT !.alive = FALSE, !.in_flight = FALSE,
                     !.close_after = TRUE, !.in = <<>>, !.out = <<>>]

-----------------------------------------------------------------------------
(* Writing                                                                 *)

(* Mutant: out_.consume() is missing.                                      *)
FlushTwice(k) ==
  IF k.c.out = <<>> \/ ~k.c.alive THEN k
  ELSE IF k.s.gone # "no" THEN [k EXCEPT !.c = kill(@)]
  ELSE [k EXCEPT !.s.snd = @ \o SubSeq(k.c.out, 1, SendBuffer - Len(@))]

(* send() until the buffer is empty, EAGAIN, or an error.                  *)
flush(k) ==
  IF k.c.out = <<>> \/ ~k.c.alive THEN k
  ELSE IF k.s.gone # "no" THEN [k EXCEPT !.c = kill(@)]
  ELSE LET room == SendBuffer - Len(k.s.snd)
           n == IF room < Len(k.c.out) THEN room ELSE Len(k.c.out)
       IN  [k EXCEPT !.c.out = SubSeq(@, n + 1, Len(@)),
                     !.s.snd = @ \o SubSeq(k.c.out, 1, n)]

queue_response(c, r) ==
  [c EXCEPT !.out = Append(@, [r EXCEPT !.body = @ /\ ~c.last_head]),
            !.close_after = @ \/ r.close]

queue_error(c, status) ==
  [queue_response(c, [status |-> status, of |-> NoJob, body |-> TRUE,
                      close |-> TRUE])
     EXCEPT !.close_after = TRUE]

Fail(k, status) == flush([k EXCEPT !.c = queue_error(@, status)])

on_writable(k) == flush(k)

(* Mutant: in_flight_ is not cleared.                                      *)
ResultKeepsInFlight(k, res, seq) ==
  IF ~k.c.alive \/ ~k.c.in_flight \/ seq # k.c.inflight_seq THEN k
  ELSE flush([k EXCEPT !.c = queue_response(@, res)])

on_worker_result(k, res, seq) ==
  IF ~k.c.alive \/ ~k.c.in_flight \/ seq # k.c.inflight_seq THEN k
  ELSE flush([k EXCEPT !.c = queue_response([@ EXCEPT !.in_flight = FALSE],
                                            res)])

(* The worker's lambda: what handle_request() and the adjustments after it *)
(* make of a request, as far as the connection can tell.                   *)
ResponseTo(job) == [status |-> "200", of |-> job, body |-> job.kind # "head",
                    close |-> job.kind = "last"]

-----------------------------------------------------------------------------
(* Reading                                                                 *)

(* Mutant: the refused request stays in flight.                            *)
RefusedStaysInFlight(k, job, accepts) ==
  IF accepts THEN [k EXCEPT !.job = job]
  ELSE [k EXCEPT !.c = queue_error(@, "503")]

(* submit(): hand the request to the pool, or answer 503 when it refuses.  *)
(* The 503 is left in out_ for EPOLLOUT.                                   *)
submit(k, job, accepts) ==
  IF accepts THEN [k EXCEPT !.job = job]
  ELSE [k EXCEPT !.c = queue_error([@ EXCEPT !.in_flight = FALSE], "503")]

(* parser_.parse() said kRequest.                                          *)
Dispatch(k, id, kind, accepts) ==
  LET seq == k.c.next_seq
  IN  submit([k EXCEPT !.c.last_head = (kind = "head"), !.c.in_flight = TRUE,
                       !.c.inflight_seq = seq, !.c.next_seq = seq + 1],
             [conn |-> id, seq |-> seq, kind |-> kind], accepts)

Continue == [status |-> "100", of |-> NoJob, body |-> FALSE, close |-> FALSE]

(* The parser eats unfinished segments, each Expect head producing a       *)
(* flushed 100, up to the first segment that ends or breaks a request.     *)
drain_requests(k, id, accepts) ==
  IF ~k.c.alive \/ k.c.in_flight \/ k.c.close_after THEN k
  ELSE
    LET in == k.c.in
        ends == {i \in 1..Len(in) : in[i] \notin Unfinished}
        end == IF ends = {} THEN Len(in) + 1
               ELSE CHOOSE i \in ends : \A j \in ends : i <= j
        expects == Cardinality({i \in 1..(end - 1) : in[i] = "expect"})
        eaten == [k EXCEPT !.c.in = SubSeq(in, end + 1, Len(in)),
                           !.c.consumed = IF ends = {} THEN @ + Len(in) ELSE 0,
                           !.c.out = @ \o [i \in 1..expects |-> Continue]]
        k1 == IF expects = 0 THEN eaten ELSE flush(eaten)
    IN  IF ~k1.c.alive \/ ends = {} THEN k1
        ELSE CASE in[end] = "bad" -> Fail(k1, "400")
               [] in[end] = "huge" -> Fail(k1, "413")
               [] OTHER -> Dispatch(k1, id, in[end], accepts)

(* recv() until EAGAIN, EOF, an error, or the aggregate limit; then parse. *)
on_readable(k, id, accepts) ==
  IF ~want_read(k.c) THEN k
  ELSE
    LET room == MaxRequest - (k.c.consumed + Len(k.c.in))
        Received(n) == [k EXCEPT !.c.in = @ \o SubSeq(k.s.rcv, 1, n),
                                 !.s.rcv = SubSeq(@, n + 1, Len(@))]
    IN  IF Len(k.s.rcv) > room THEN Fail(Received(room + 1), "413")
        ELSE IF k.s.gone = "err"
        THEN [Received(Len(k.s.rcv)) EXCEPT !.c = kill(@)]
        ELSE LET eof == k.s.fin \/ k.s.gone = "hup"
                 k1 == drain_requests(
                         [Received(Len(k.s.rcv)) EXCEPT !.c.peer_eof = eof],
                         id, accepts)
             IN  IF k1.c.peer_eof /\ ~k1.c.in_flight /\ k1.c.out = <<>>
                 THEN [k1 EXCEPT !.c.close_after = TRUE]
                 ELSE k1

-----------------------------------------------------------------------------
(* Errors, timeouts, shutdown                                              *)

on_hangup(k, events) ==
  IF "err" \in events THEN [k EXCEPT !.c = kill(@)]
  ELSE flush([k EXCEPT !.c.peer_eof = TRUE, !.c.close_after = TRUE])

(* Mutant: a draining connection is not closed by the tick.                *)
TickIgnoresDraining(k, idle) ==
  IF ~k.c.alive \/ ~IdleTimeout \/ ~idle \/ k.c.in_flight THEN k
  ELSE IF k.c.out # <<>> THEN [k EXCEPT !.c = kill(@)]
  ELSE Fail(k, "408")

(* idle: more than idle_timeout_sec has passed since last_activity_.       *)
on_tick(k, idle) ==
  IF ~k.c.alive THEN k
  ELSE IF k.c.draining /\ ~k.c.in_flight /\ k.c.out = <<>>
  THEN [k EXCEPT !.c.close_after = TRUE]
  ELSE IF ~IdleTimeout \/ ~idle \/ k.c.in_flight THEN k
  ELSE IF k.c.out # <<>> THEN [k EXCEPT !.c = kill(@)]
  ELSE Fail(k, "408")

(* Mutant: a drain that does not wait for the request in flight.           *)
DrainKills(c) == [kill(c) EXCEPT !.draining = TRUE]

begin_draining(c) ==
  [c EXCEPT !.draining = TRUE,
            !.close_after = @ \/ (~c.in_flight /\ c.out = <<>>)]
-----------------------------------------------------------------------------
(* What a client is to read                                                *)

Final(r) == r.status # "100"

(* How many of the first n responses are final.                            *)
FinalsTo(all, n) == Cardinality({i \in 1..n : Final(all[i])})

(* Each response to a request is of connection id and has the number of    *)
(* final responses up to it; none follows one that closes the connection.  *)
InOrder(all, id) ==
  /\ \A i \in 1..Len(all) : all[i].of # NoJob =>
       all[i].of.conn = id /\ all[i].of.seq = FinalsTo(all, i)
  /\ \A i \in 1..(Len(all) - 1) : ~all[i].close
=============================================================================
