------------------------- MODULE ConnectionContract -------------------------
(***************************************************************************)
(* What the event loop relies on when it calls a Connection, whatever the  *)
(* connection's limits, buffers and input: one statement for each method,  *)
(* and one about the count of final responses.                             *)
(* ConnectionProofs proves it of Connection; LoopInvariant, LoopSteps and  *)
(* LoopRequests reason about the loop from it.                             *)
(***************************************************************************)
EXTENDS Connection

(* A connection, its socket and the job it hands over, as the methods take *)
(* and return them.                                                        *)
K == [c : ConnState, s : SockState, job : Job \cup {NoJob}]

(* Unparsed and parsed input of the request at hand is within the limit;   *)
(* the read that crosses it is the last.                                   *)
InputBounded(c) ==
  c.consumed + Len(c.in) <= MaxRequest + (IF c.close_after THEN 1 ELSE 0)

(* The kernel holds no more than its send buffer takes.                    *)
SocketBounded(s) == Len(s.snd) <= SendBuffer

(* What every method may assume of its connection.                         *)
Sound(k) == k \in K /\ InputBounded(k.c) /\ SocketBounded(k.s)

(* What a method leaves alone.                                             *)
SameConnection(c, d) == /\ d.fd = c.fd /\ d.draining = c.draining
                        /\ d.applied_mask = c.applied_mask

(* The request that is in flight, if any, still is: unless the connection  *)
(* is dead.                                                                *)
SameRequest(c, d) ==
  d.alive => /\ c.alive /\ d.in_flight = c.in_flight
             /\ d.in_flight => d.inflight_seq = c.inflight_seq

(* The next one has been handed over, or it is as before.                  *)
HandedOver(k, m, id) ==
  IF m.job = k.job THEN SameRequest(k.c, m.c)
  ELSE /\ m.job.conn = id
       /\ m.c.alive => m.c.in_flight /\ m.c.inflight_seq = m.job.seq

(* All that was, is being or will be sent, oldest first.                   *)
Sent(k) == k.s.got \o k.s.snd \o k.c.out

(* A live connection has answered every request but the one in flight, or  *)
(* is closing and has answered as many; until the answer that closes it.   *)
Numbered(c, all) ==
  LET answered == FinalsTo(all, Len(all)) + (IF c.in_flight THEN 1 ELSE 0)
  IN  /\ c.next_seq <= answered + 1
      /\ c.in_flight \/ ~c.close_after =>
           c.next_seq = answered + 1 /\ \A i \in 1..Len(all) : ~all[i].close
      /\ c.in_flight => c.inflight_seq + 1 = c.next_seq

Orderly(k, id) == /\ InOrder(Sent(k), id)
                  /\ k.c.alive => Numbered(k.c, Sent(k))

(* Output is within its threshold, but for the answer being produced; what *)
(* is to be parsed, and what the client has yet to send, is well-formed.   *)
OutputBounded(c) == Len(c.out) <= MaxOutput + (IF c.in_flight THEN 0 ELSE 1)
Tidy(k, unsent) == /\ OutputBounded(k.c)
                   /\ k.c.alive => OneExpect(k.c.in \o k.s.rcv \o unsent)

(* The kernel knows best about the peer; nothing revives a connection, or  *)
(* reopens a direction.                                                    *)
Proceeds(k, m) == /\ m.s.fin = k.s.fin /\ m.s.gone = k.s.gone
                  /\ m.c.alive => /\ k.c.alive
                                  /\ k.c.close_after => m.c.close_after
                                  /\ k.c.peer_eof => m.c.peer_eof

(* Output stays orderly and bounded, and only a dead peer kills.           *)
Serves(k, m, id) ==
  /\ Proceeds(k, m)
  /\ Orderly(k, id) => Orderly(m, id)
  /\ \A unsent \in Seq(Segment) : Tidy(k, unsent) => Tidy(m, unsent)
  /\ k.c.alive /\ ~m.c.alive => k.s.gone # "no"

(* Input and output are as before ...                                      *)
SameInput(k, m) == m.c.alive => m.c.in = k.c.in /\ m.s.rcv = k.s.rcv
SameOutput(k, m) == m.c.out = k.c.out /\ m.s.snd = k.s.snd

(* ... or there is none left to read, or to write: unless the socket takes *)
(* no more for now.  A connection listens until a request, its last answer *)
(* or the end of input stops it.                                           *)
Listening(c) == c.alive /\ ~c.close_after /\ ~c.peer_eof /\ ~c.in_flight
Silent(k) == k.c.in = <<>> /\ k.s.rcv = <<>> /\ ~k.s.fin /\ k.s.gone = "no"
Full(s) == s.gone = "no" /\ Len(s.snd) = SendBuffer
Flushed(k) == k.c.alive /\ k.c.out # <<>> => Full(k.s)

(* What a method makes of k: in particular, finished stays finished.       *)
Keeps(k, m) == /\ Sound(m)
               /\ SameConnection(k.c, m.c)
               /\ finished(k.c) => finished(m.c)

(* A request is handed over only if the connection wants input and the     *)
(* pool accepts.  Input is read to its end, unless that ends the reading;  *)
(* output is flushed, unless the reading ends with a 503.                  *)
ReadableContract ==
  \A k \in K, id \in Client, accepts \in BOOLEAN : Sound(k) =>
    LET m == on_readable(k, id, accepts)
    IN  /\ Keeps(k, m) /\ (m.job # k.job => accepts /\ want_read(k.c))
        /\ k.job = NoJob => HandedOver(k, m, id)
        /\ Serves(k, m, id)
        /\ IF want_read(k.c)
           THEN Listening(m.c) => Silent(m) /\ (Flushed(m) \/ SameOutput(k, m))
           ELSE m = k

(* Writing and hangups hand nothing over.                                  *)
WritableContract ==
  \A k \in K : Sound(k) =>
    LET m == on_writable(k)
    IN  /\ Keeps(k, m) /\ m.job = k.job /\ SameRequest(k.c, m.c)
        /\ \A id \in Client : Serves(k, m, id)
        /\ SameInput(k, m) /\ Flushed(m)

(* An error is reported only of a dead peer.                               *)
HangupContract ==
  \A k \in K, events \in SUBSET {"in", "out", "hup", "err"} : Sound(k) =>
    LET m == on_hangup(k, events)
    IN  /\ Keeps(k, m) /\ m.job = k.job /\ SameRequest(k.c, m.c)
        /\ ("err" \in events => k.s.gone # "no") =>
             \A id \in Client : Serves(k, m, id)
        /\ Flushed(m)
        /\ m.c.alive => "err" \notin events /\ m.c.close_after /\ m.c.peer_eof

(* r is the answer to request seq of connection id.                        *)
Answering(r, id, seq) ==
  r.of # NoJob /\ r.of.conn = id /\ r.of.seq = seq /\ Final(r)

(* Nor does the result of a job, which may parse the next request later,   *)
(* by way of a re-scan.                                                    *)
ResultContract ==
  \A k \in K, r \in Response, seq \in Nat : Sound(k) =>
    LET m == on_worker_result(k, r, seq)
    IN  /\ Keeps(k, m) /\ m.job = k.job
        /\ m.c.alive => k.c.alive
                         /\ (k.c.in_flight /\ seq = k.c.inflight_seq
                               => ~m.c.in_flight)
        /\ \A id \in Client : Answering(r, id, seq) => Serves(k, m, id)
        /\ SameInput(k, m)
        /\ Flushed(m) \/ SameOutput(k, m)

(* A tick may finish a connection, and may answer 408 before it does; it   *)
(* may not meet one that finished by itself.                               *)
TickContract ==
  \A k \in K, idle \in BOOLEAN : Sound(k) =>
    LET m == on_tick(k, idle)
    IN  /\ Sound(m) /\ SameConnection(k.c, m.c) /\ SameRequest(k.c, m.c)
        /\ m.c.next_seq = k.c.next_seq
        /\ Proceeds(k, m)
        /\ (finished(k.c) => k.c.draining) =>
             \A id \in Client : Orderly(k, id) => Orderly(m, id)
        /\ finished(k.c) /\ k.c.draining => finished(m.c)
        /\ \A unsent \in Seq(Segment) : Tidy(k, unsent) => Tidy(m, unsent)
        /\ k.c.alive /\ ~m.c.alive => k.s.gone # "no" \/ k.c.out # <<>>
        /\ m = k \/ m.c.close_after
        /\ IdleTimeout \/ (SameOutput(k, m) /\ m.c.alive = k.c.alive)

(* A drain marks the connection, and revives none.                         *)
DrainingContract ==
  \A c \in ConnState : InputBounded(c) =>
    LET d == begin_draining(c)
    IN  /\ d \in ConnState /\ InputBounded(d)
        /\ d.fd = c.fd /\ d.draining = TRUE /\ d.applied_mask = c.applied_mask
        /\ finished(c) => finished(d)
        /\ SameRequest(c, d)
        /\ \A k \in K, id \in Client : k.c = c => Serves(k, [k EXCEPT !.c = d], id)
        /\ d.out = c.out /\ d.peer_eof = c.peer_eof /\ d.alive = c.alive

(* Of any responses a number is final, and none before the first.          *)
CountContract == /\ FinalsTo(<<>>, 0) = 0
                 /\ \A all \in Seq(Response) : FinalsTo(all, Len(all)) \in Nat

(* All of it: what ConnectionMeetsContract proves.                         *)
Contract == /\ ReadableContract /\ WritableContract /\ HangupContract
            /\ ResultContract /\ TickContract /\ DrainingContract
            /\ CountContract
=============================================================================
