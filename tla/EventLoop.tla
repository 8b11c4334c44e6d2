----------------------------- MODULE EventLoop ------------------------------
(***************************************************************************)
(* EventLoop (event_loop.h, event_loop.cpp) with what it runs among: the   *)
(* Connections it owns, the worker pool, the completion queue and eventfd  *)
(* between them, the kernel's sockets and edge-triggered epoll, clients    *)
(* and signals.                                                            *)
(*                                                                         *)
(* The loop thread is a program counter over the phases of run(); a call   *)
(* of a Connection method, together with the bookkeeping run() does for    *)
(* it, is one step, and a phase with nothing to do takes none.  Workers,   *)
(* clients and signals move between any two steps.                         *)
(***************************************************************************)
EXTENDS Connection

CONSTANTS Worker,
          MaxQueue,         \* cfg.queue_size
          MaxConnections,   \* cfg.max_connections
          AcceptBatch,      \* kAcceptBatch
          Scripts,          \* what a client may send: sequences of segments
          MaxSignals,       \* bound on SIGINT/SIGTERM deliveries
          Faults,           \* which environment faults may happen
          NoClient,         \* no connection under this descriptor
          NoConn            \* no Connection object exists (yet, or any more)

(* fin, hup, reset: the client half-closes, vanishes, resets               *)
(* modin: EPOLL_CTL_MOD may report readability that predates it            *)
(* aborted, enfile, accept: accept4() fails with ECONNABORTED, with ENFILE *)
(*   (EMFILE needs no fault), with an errno accept_batch() does not name   *)
(* add, mod, wait: EPOLL_CTL_ADD, EPOLL_CTL_MOD, epoll_wait() fail         *)
FaultKinds == {"fin", "hup", "reset", "modin", "aborted", "enfile", "accept",
               "add", "mod", "wait"}

ASSUME LoopAssumption ==
  /\ MaxQueue \in Nat \ {0} /\ MaxConnections \in Nat /\ AcceptBatch \in Nat \ {0}
  /\ MaxSignals \in Nat /\ Faults \subseteq FaultKinds
  /\ Scripts \subseteq Seq(Segment) /\ \A s \in Scripts : OneExpect(s)
  /\ NoClient \notin Client /\ NoConn \notin ConnState

VARIABLES
  \* the kernel and the clients
  script,      \* script[c]: what client c has still to send
  sock,        \* sock[c]: see SockState
  phase,       \* phase[c]: "new", "backlog", "open" or "closed"
  backlog,     \* the listener's accept queue
  ready,       \* registered sockets epoll holds a pending event for
  edges,       \* the same for "listen" and "sig"
  wake,        \* the eventfd counter is non-zero
  signals,     \* signals raised and not yet read from the signalfd
  raised,      \* signals raised so far
  \* the loop thread
  pc, batch, conn, conns, reap, rescan, pending, finishing,
  accepting, accept_retry,
  shutdown_requested, second_signal, draining, forced, detached,
  \* the pool and the completion queue
  queue, running, closed,   \* see JobQueue
  posted,      \* workers between completions_.push_back() and wake()
  completions  \* completions_

netVars == <<script, phase, backlog, edges, wake, signals, raised>>
kernelVars == <<netVars, sock, ready>>
flags == <<accepting, accept_retry, shutdown_requested, second_signal, draining,
           forced, detached>>
loopVars == <<pc, batch, conn, conns, reap, rescan, pending, finishing, flags>>
poolVars == <<queue, running, closed>>
workerVars == <<poolVars, posted, completions>>
vars == <<kernelVars, loopVars, workerVars>>

Pool == INSTANCE JobQueue

Completion == [conn : Client, seq : Nat, response : Response]

(* An epoll_event.  of is the socket it is about, which the code does not  *)
(* see: it has only the descriptor number.                                 *)
Event == [fd : Fd, of : Client, ev : SUBSET {"in", "out", "hup", "err"}]
Special == {"wake", "sig", "listen"}

PC == {"wait", "events", "accept", "completions", "rescan", "drain",
       "timer", "tick", "check", "stop", "join", "tryjoin", "returned",
       "destroyed", "exited"}

TypeOK ==
  /\ script \in [Client -> Seq(Segment)]
  /\ sock \in [Client -> SockState]
  /\ phase \in [Client -> {"new", "backlog", "open", "closed"}]
  /\ backlog \in Seq(Client)
  /\ ready \in SUBSET Client
  /\ edges \in SUBSET {"listen", "sig"}
  /\ wake \in BOOLEAN /\ signals \in 0..MaxSignals /\ raised \in 0..MaxSignals
  /\ pc \in PC
  /\ batch \in [events : SUBSET Event, special : SUBSET Special]
  /\ conn \in [Client -> ConnState \cup {NoConn}]
  /\ conns \in [Fd -> Client \cup {NoClient}]
  /\ reap \in SUBSET Fd
  /\ rescan \in SUBSET Client /\ pending \in SUBSET Client
  /\ finishing \in Seq(Completion)
  /\ accepting \in [tries : 0..AcceptBatch, back : {"events", "tick"}]
  /\ accept_retry \in BOOLEAN /\ shutdown_requested \in BOOLEAN
  /\ second_signal \in BOOLEAN /\ draining \in BOOLEAN
  /\ forced \in BOOLEAN /\ detached \in BOOLEAN
  /\ Pool!PoolTypeOK
  /\ posted \in SUBSET Worker
  /\ completions \in Seq(Completion)

Init ==
  /\ script \in [Client -> Scripts]
  /\ sock = [c \in Client |-> NewSock]
  /\ phase = [c \in Client |-> "new"]
  /\ backlog = <<>> /\ ready = {} /\ edges = {} /\ wake = FALSE
  /\ signals = 0 /\ raised = 0
  /\ pc = "wait"
  /\ batch = [events |-> {}, special |-> {}]
  /\ conn = [c \in Client |-> NoConn]
  /\ conns = [fd \in Fd |-> NoClient]
  /\ reap = {} /\ rescan = {} /\ pending = {} /\ finishing = <<>>
  /\ accepting = [tries |-> 0, back |-> "events"]
  /\ accept_retry = FALSE /\ shutdown_requested = FALSE
  /\ second_signal = FALSE /\ draining = FALSE
  /\ forced = FALSE /\ detached = FALSE
  /\ Pool!PoolInit
  /\ posted = {} /\ completions = <<>>

-----------------------------------------------------------------------------
(* epoll, as the code uses it (external).  A registered socket is put on   *)
(* the ready list by an edge its mask asks for (a dead peer needs no       *)
(* mask); epoll_wait() takes it off and reports what holds at that time.   *)

Readable(s) == s.rcv # <<>> \/ s.fin \/ s.gone # "no"
Writable(s) == Len(s.snd) < SendBuffer \/ s.gone # "no"

Reported(c) ==
  ((IF Readable(sock[c]) THEN {"in"} ELSE {}) \cap conn[c].applied_mask)
    \cup ((IF Writable(sock[c]) THEN {"out"} ELSE {}) \cap conn[c].applied_mask)
    \cup ({sock[c].gone} \ {"no"})

Edge(c, bit) ==
  ready' = IF phase[c] = "open" /\ (bit = "dead" \/ bit \in conn[c].applied_mask)
           THEN ready \cup {c} ELSE ready

(* EPOLL_CTL_MOD looks at the socket again.  set_interest() relies on that *)
(* for EPOLLOUT and, by its comment, does not for EPOLLIN: modin is        *)
(* whether old readability is reported.                                    *)
ModReports(s, mask, modin) == \/ s.gone # "no"
                              \/ "out" \in mask /\ Writable(s)
                              \/ "in" \in mask /\ Readable(s) /\ modin

-----------------------------------------------------------------------------
(* Clients and signals                                                     *)

Reachable(c) == phase[c] \in {"backlog", "open"} /\ sock[c].gone = "no"

Connect(c) == /\ phase[c] = "new"
              /\ pc \notin {"destroyed", "exited"}
              /\ phase' = [phase EXCEPT ![c] = "backlog"]
              /\ backlog' = Append(backlog, c)
              /\ edges' = edges \cup {"listen"}
              /\ UNCHANGED <<script, sock, ready, wake, signals, raised,
                             loopVars, workerVars>>

Send(c) == /\ Reachable(c) /\ ~sock[c].fin /\ script[c] # <<>>
           /\ sock' = [sock EXCEPT ![c].rcv = Append(@, Head(script[c]))]
           /\ script' = [script EXCEPT ![c] = Tail(@)]
           /\ Edge(c, "in")
           /\ UNCHANGED <<phase, backlog, edges, wake, signals, raised,
                          loopVars, workerVars>>

HalfClose(c) == /\ "fin" \in Faults
                /\ Reachable(c) /\ ~sock[c].fin
                /\ sock' = [sock EXCEPT ![c].fin = TRUE]
                /\ Edge(c, "in")
                /\ UNCHANGED <<netVars, loopVars, workerVars>>

Vanish(c) == /\ Reachable(c)
             /\ \E g \in (IF "hup" \in Faults THEN {"hup"} ELSE {})
                           \cup (IF "reset" \in Faults THEN {"err"} ELSE {}) :
                  sock' = [sock EXCEPT ![c].gone = g]
             /\ Edge(c, "dead")
             /\ UNCHANGED <<netVars, loopVars, workerVars>>

Read(c) == /\ sock[c].gone = "no" /\ sock[c].snd # <<>>
           /\ sock' = [sock EXCEPT ![c].got = Append(@, Head(sock[c].snd)),
                                   ![c].snd = Tail(@)]
           /\ Edge(c, "out")
           /\ UNCHANGED <<netVars, loopVars, workerVars>>

(* A signal raised again while it is pending is lost; SIGINT and SIGTERM    *)
(* are pending side by side.                                               *)
RaiseSignal == /\ raised < MaxSignals
               /\ pc # "exited"
               /\ raised' = raised + 1
               /\ \/ signals < 2 /\ signals' = signals + 1
                  \/ signals > 0 /\ UNCHANGED signals
               /\ edges' = edges \cup {"sig"}
               /\ UNCHANGED <<script, sock, phase, backlog, ready, wake,
                              loopVars, workerVars>>

-----------------------------------------------------------------------------
(* Workers: run() of the pool around the lambda of Connection::submit()    *)

WorkerTakes(w) == /\ pc # "exited"
                  /\ Pool!Start(w)
                  /\ UNCHANGED <<kernelVars, loopVars, posted, completions>>

(* handle_request() has returned or thrown; post_completion() pushes ...   *)
post_completion(w) ==
  /\ pc # "exited"
  /\ running[w] # NoJob /\ w \notin posted
  /\ completions' = Append(completions, [conn |-> running[w].conn,
                                         seq |-> running[w].seq,
                                         response |-> ResponseTo(running[w])])
  /\ posted' = posted \cup {w}
  /\ UNCHANGED <<kernelVars, loopVars, poolVars>>

(* Mutant: the loop is woken only by the push that finds the queue empty,  *)
(* as judged after the unlock.                                             *)
WakeFirstOnly(w) ==
  /\ pc # "exited"
  /\ w \in posted
  /\ wake' = (wake \/ Len(completions) = 1)
  /\ posted' = posted \ {w}
  /\ Pool!Finish(w)
  /\ UNCHANGED <<script, sock, phase, backlog, ready, edges, signals, raised,
                 loopVars, completions>>

(* ... and wakes the loop outside the lock; the job then ends.             *)
Wake(w) == /\ pc # "exited"
           /\ w \in posted
           /\ wake' = TRUE
           /\ posted' = posted \ {w}
           /\ Pool!Finish(w)
           /\ UNCHANGED <<script, sock, phase, backlog, ready, edges, signals,
                          raised, loopVars, completions>>

-----------------------------------------------------------------------------
(* The loop thread                                                         *)

Here(c) == [c |-> conn[c], s |-> sock[c], job |-> NoJob]

Owned == {c \in Client : \E fd \in Fd : conns[fd] = c}

(* Mutant: nothing is re-scanned.                                          *)
ForgetsRescan(want, have) == FALSE

(* Re-enabling EPOLLIN is not an edge: such a connection is re-scanned.     *)
Rearmed(want, have) == "in" \in want \ have

(* A MOD that fails is logged, and the old mask stays.  (The two errors    *)
(* that mean the descriptor is not registered do not occur: it is, for as  *)
(* long as its connection exists.)                                         *)
ModFails(c, k) ==
  /\ "mod" \in Faults /\ interest_mask(k.c) # k.c.applied_mask
  /\ conn' = [conn EXCEPT ![c] = k.c]
  /\ UNCHANGED <<rescan, ready>>

set_interest(c, k) ==
  LET want == interest_mask(k.c)
      have == k.c.applied_mask
  IN  /\ conn' = [conn EXCEPT ![c] = [k.c EXCEPT !.applied_mask = want]]
      /\ rescan' = IF Rearmed(want, have) THEN rescan \cup {c} ELSE rescan
      /\ IF want = have THEN UNCHANGED ready
         ELSE \E modin \in (IF "modin" \in Faults THEN BOOLEAN ELSE {FALSE}) :
                ready' = IF ModReports(k.s, want, modin) THEN ready \cup {c}
                         ELSE ready

(* What follows every callback in run(), drain_completions() and           *)
(* process_rescans(): hand the job over, then either schedule the reaping  *)
(* or set_interest().                                                      *)
Settle(c, k) ==
  /\ sock' = [sock EXCEPT ![c] = k.s]
  /\ IF k.job = NoJob THEN UNCHANGED poolVars ELSE Pool!Submit(k.job)
  /\ IF finished(k.c)
     THEN /\ conn' = [conn EXCEPT ![c] = k.c]
          /\ reap' = reap \cup {k.c.fd}
          /\ UNCHANGED <<rescan, ready>>
     ELSE /\ UNCHANGED reap
          /\ set_interest(c, k) \/ ModFails(c, k)

(* epoll_wait(): on a timeout nothing is reported.                         *)
EpollWait ==
  /\ pc = "wait"
  /\ batch' = [events |-> {[fd |-> conn[c].fd, of |-> c, ev |-> Reported(c)] :
                           c \in {d \in ready : Reported(d) # {}}},
               special |-> edges \cup (IF wake THEN {"wake"} ELSE {})]
  /\ ready' = {}
  /\ edges' = {}
  /\ pc' = "events"
  /\ UNCHANGED <<script, sock, phase, backlog, wake, signals, raised, conn,
                 conns, reap, rescan, pending, finishing, flags, workerVars>>

(* An error other than EINTR: run() leaves its loop, without a drain.      *)
EpollWaitFails == /\ "wait" \in Faults /\ pc = "wait"
                  /\ pc' = "stop"
                  /\ UNCHANGED <<kernelVars, batch, conn, conns, reap, rescan,
                                 pending, finishing, flags, workerVars>>

drain_wake ==
  /\ pc = "events" /\ "wake" \in batch.special
  /\ batch' = [batch EXCEPT !.special = @ \ {"wake"}]
  /\ wake' = FALSE
  /\ UNCHANGED <<script, sock, phase, backlog, ready, edges, signals, raised,
                 pc, conn, conns, reap, rescan, pending, finishing, flags,
                 workerVars>>

handle_signals ==
  /\ pc = "events" /\ "sig" \in batch.special
  /\ batch' = [batch EXCEPT !.special = @ \ {"sig"}]
  /\ signals' = 0
  /\ shutdown_requested' = (shutdown_requested \/ signals > 0)
  /\ second_signal' = \/ second_signal
                      \/ signals > 1
                      \/ signals = 1 /\ shutdown_requested
  /\ UNCHANGED <<script, sock, phase, backlog, ready, edges, wake, raised, pc,
                 conn, conns, reap, rescan, pending, finishing, accepting,
                 accept_retry, draining, forced, detached, workerVars>>

ListenerEvent ==
  /\ pc = "events" /\ "listen" \in batch.special
  /\ batch' = [batch EXCEPT !.special = @ \ {"listen"}]
  /\ accepting' = [tries |-> 0, back |-> "events"]
  /\ pc' = "accept"
  /\ UNCHANGED <<kernelVars, conn, conns, reap, rescan, pending, finishing,
                 accept_retry, shutdown_requested, second_signal, draining,
                 forced, detached, workerVars>>

(* One event of a connection: errors and hangups exclusively, else input   *)
(* and then output.  An event for a descriptor without a connection is     *)
(* dropped.                                                                *)
Callback(c, ev) ==
  IF ev \cap {"err", "hup"} # {} THEN on_hangup(Here(c), ev)
  ELSE LET k == IF "in" \in ev THEN on_readable(Here(c), c, Pool!Accepts)
                ELSE Here(c)
       IN  IF k.c.alive /\ "out" \in ev THEN on_writable(k) ELSE k

ConnectionEvent(e) ==
  /\ pc = "events" /\ e \in batch.events
  /\ batch' = [batch EXCEPT !.events = @ \ {e}]
  /\ LET c == conns[e.fd]
     IN  IF c = NoClient
         THEN UNCHANGED <<sock, conn, reap, rescan, ready, poolVars>>
         ELSE Settle(c, Callback(c, e.ev))
  /\ UNCHANGED <<netVars, pc, conns, pending, finishing, flags, posted,
                 completions>>

(* Mutant: results are applied, and connections then reaped, before the    *)
(* whole epoll_wait() result has been handled.                             *)
SwapMidBatch ==
  /\ pc = "events" /\ batch.special = {}
  /\ finishing' = completions
  /\ completions' = <<>>
  /\ pc' = "completions"
  /\ UNCHANGED <<kernelVars, batch, conn, conns, reap, rescan, pending, flags,
                 poolVars, posted>>

(* drain_completions(): the swap under comp_mu_, then one result at a      *)
(* time.  A result whose Connection is gone is dropped.                    *)
SwapCompletions ==
  /\ pc = "events" /\ batch = [events |-> {}, special |-> {}]
  /\ finishing' = completions
  /\ completions' = <<>>
  /\ pc' = "completions"
  /\ UNCHANGED <<kernelVars, batch, conn, conns, reap, rescan, pending, flags,
                 poolVars, posted>>

ApplyCompletion ==
  /\ pc = "completions" /\ finishing # <<>>
  /\ finishing' = Tail(finishing)
  /\ LET r == Head(finishing)
     IN  IF conn[r.conn] = NoConn
         THEN UNCHANGED <<sock, conn, reap, rescan, ready, poolVars>>
         ELSE Settle(r.conn, on_worker_result(Here(r.conn), r.response, r.seq))
  /\ UNCHANGED <<netVars, pc, batch, conns, pending, flags, posted,
                 completions>>

(* process_rescans(): likewise.                                            *)
SwapRescans ==
  /\ pc = "completions" /\ finishing = <<>> /\ rescan # {}
  /\ pending' = rescan
  /\ rescan' = {}
  /\ pc' = "rescan"
  /\ UNCHANGED <<kernelVars, batch, conn, conns, reap, finishing, flags,
                 workerVars>>

Rescan(c) ==
  /\ pc = "rescan" /\ c \in pending
  /\ pending' = pending \ {c}
  /\ IF ~want_read(conn[c])
     THEN UNCHANGED <<sock, conn, reap, rescan, ready, poolVars>>
     ELSE Settle(c, on_readable(Here(c), c, Pool!Accepts))
  /\ UNCHANGED <<netVars, pc, batch, conns, finishing, flags, posted,
                 completions>>

-----------------------------------------------------------------------------
(* accept_batch(), one accept4() at a time                                 *)

Accepting == pc = "accept" /\ accepting.tries < AcceptBatch
Free == {fd \in Fd : conns[fd] = NoClient}

NextTry == accepting' = [accepting EXCEPT !.tries = @ + 1]

LeaveAccept(retry) ==
  /\ pc' = accepting.back
  /\ accept_retry' = (accept_retry \/ retry)
  /\ UNCHANGED <<kernelVars, batch, conn, conns, reap, rescan, pending,
                 finishing, accepting, shutdown_requested, second_signal,
                 draining, forced, detached, workerVars>>

AcceptDrained == Accepting /\ backlog = <<>> /\ LeaveAccept(FALSE)

AcceptNoDescriptor ==
  /\ Accepting /\ backlog # <<>>
  /\ Free = {} \/ "enfile" \in Faults
  /\ LeaveAccept(TRUE)

(* Mutant: the cap is hit and no retry is scheduled.                       *)
FullWithoutRetry ==
  pc = "accept" /\ accepting.tries = AcceptBatch /\ LeaveAccept(FALSE)

AcceptBatchFull ==
  pc = "accept" /\ accepting.tries = AcceptBatch /\ LeaveAccept(TRUE)

AcceptError ==
  "accept" \in Faults /\ Accepting /\ backlog # <<>> /\ LeaveAccept(FALSE)

(* accept4() took c off the queue, and it ends closed without becoming a   *)
(* connection; s is its socket then.                                       *)
Dismiss(c, s) ==
  /\ backlog' = Tail(backlog)
  /\ phase' = [phase EXCEPT ![c] = "closed"]
  /\ sock' = [sock EXCEPT ![c] = s]
  /\ NextTry
  /\ UNCHANGED <<script, ready, edges, wake, signals, raised, pc, batch, conn,
                 conns, reap, rescan, pending, finishing, accept_retry,
                 shutdown_requested, second_signal, draining, forced, detached,
                 workerVars>>

AcceptAborted ==
  /\ Accepting /\ backlog # <<>>
  /\ "aborted" \in Faults /\ sock[Head(backlog)].gone # "no"
  /\ Dismiss(Head(backlog), sock[Head(backlog)])

AtLimit == draining \/ Cardinality(Fd \ Free) >= MaxConnections

(* The 503 of admission control, written straight to a brand-new socket.   *)
reject_connection ==
  /\ Accepting /\ backlog # <<>> /\ Free # {}
  /\ AtLimit
  /\ LET c == Head(backlog)
         refusal == [status |-> "503", of |-> NoJob, body |-> TRUE, close |-> TRUE]
     IN  Dismiss(c, IF sock[c].gone # "no" THEN sock[c]
                    ELSE [sock[c] EXCEPT !.snd = Append(@, refusal)])

AddFails ==
  /\ "add" \in Faults
  /\ Accepting /\ backlog # <<>> /\ Free # {}
  /\ ~AtLimit
  /\ Dismiss(Head(backlog), sock[Head(backlog)])

(* EPOLL_CTL_ADD reports what the socket already holds.                    *)
Admit(fd) ==
  /\ Accepting /\ backlog # <<>> /\ fd \in Free
  /\ ~AtLimit
  /\ LET c == Head(backlog)
     IN  /\ conn' = [conn EXCEPT ![c] = NewConn(fd)]
         /\ conns' = [conns EXCEPT ![fd] = c]
         /\ phase' = [phase EXCEPT ![c] = "open"]
         /\ ready' = IF Readable(sock[c]) THEN ready \cup {c} ELSE ready
  /\ backlog' = Tail(backlog)
  /\ NextTry
  /\ UNCHANGED <<script, sock, edges, wake, signals, raised, pc, batch, reap,
                 rescan, pending, finishing, accept_retry, shutdown_requested,
                 second_signal, draining, forced, detached, workerVars>>

accept_batch == \/ AcceptDrained \/ AcceptNoDescriptor \/ AcceptBatchFull
                \/ AcceptError \/ AcceptAborted \/ reject_connection \/ AddFails
                \/ \E fd \in Fd : Admit(fd)

-----------------------------------------------------------------------------
(* The end of an iteration: reaping, draining, timers, shutdown            *)

(* Mutant: reap_ is not cleared.                                           *)
ReapKeepsList(fds) ==
  LET dead == {c \in Client : \E fd \in fds : conns[fd] = c}
  IN  /\ conns' = [fd \in Fd |-> IF fd \in fds THEN NoClient ELSE conns[fd]]
      /\ phase' = [c \in Client |-> IF c \in dead THEN "closed" ELSE phase[c]]
      /\ ready' = ready \ dead
      /\ UNCHANGED reap

(* reap(): erase, destroy and close what the descriptors in fds name.      *)
Reap(fds) ==
  LET dead == {c \in Client : \E fd \in fds : conns[fd] = c}
  IN  /\ conns' = [fd \in Fd |-> IF fd \in fds THEN NoClient ELSE conns[fd]]
      /\ phase' = [c \in Client |-> IF c \in dead THEN "closed" ELSE phase[c]]
      /\ ready' = ready \ dead
      /\ reap' = {}

Survives(c, fds) == c \in Owned /\ \A fd \in fds : conns[fd] # c

reap_finished ==
  /\ \/ pc = "completions" /\ finishing = <<>> /\ rescan = {}
     \/ pc = "rescan" /\ pending = {}
  /\ Reap(reap)
  /\ conn' = [c \in Client |-> IF Survives(c, reap) THEN conn[c] ELSE NoConn]
  /\ pc' = IF shutdown_requested /\ ~draining THEN "drain" ELSE "timer"
  /\ UNCHANGED <<script, sock, backlog, edges, wake, signals, raised, batch,
                 rescan, pending, finishing, flags, workerVars>>

FdsOf(cs) == {fd \in Fd : conns[fd] \in cs}

maybe_begin_drain ==
  /\ pc = "drain"
  /\ LET now == [c \in Client |-> IF c \in Owned THEN begin_draining(conn[c])
                                  ELSE conn[c]]
     IN  /\ conn' = now
         /\ reap' = reap \cup FdsOf({c \in Owned : finished(now[c])})
  /\ draining' = TRUE
  /\ pc' = "timer"
  /\ UNCHANGED <<kernelVars, batch, conns, rescan, pending, finishing, accepting,
                 accept_retry, shutdown_requested, second_signal, forced,
                 detached, workerVars>>

(* tick(): the deferred accepts first ...                                  *)
BeginTick ==
  /\ pc = "timer"
  /\ pc' = IF accept_retry THEN "accept" ELSE "tick"
  /\ accepting' = [tries |-> 0, back |-> "tick"]
  /\ accept_retry' = FALSE
  /\ UNCHANGED <<kernelVars, batch, conn, conns, reap, rescan, pending,
                 finishing, shutdown_requested, second_signal, draining, forced,
                 detached, workerVars>>

(* ... then on_tick() of every connection and, back in run(), reap().      *)
tick ==
  /\ pc = "tick"
  /\ \E idle \in SUBSET Owned :
       LET now == [c \in Owned |-> on_tick(Here(c), c \in idle)]
           fds == reap \cup FdsOf({c \in Owned : finished(now[c].c)})
       IN  /\ Reap(fds)
           /\ sock' = [c \in Client |-> IF c \in Owned THEN now[c].s ELSE sock[c]]
           /\ conn' = [c \in Client |-> IF Survives(c, fds) THEN now[c].c
                                        ELSE NoConn]
  /\ pc' = "check"
  /\ UNCHANGED <<script, backlog, edges, wake, signals, raised, batch, rescan,
                 pending, finishing, flags, workerVars>>

close_all == Reap(Fd) /\ conn' = [c \in Client |-> NoConn]

Quiet == Owned = {} /\ queue = <<>> /\ completions = <<>>

(* shutdown_complete(), after a tick or when none was due: go on, leave in *)
(* order, or leave by force (second signal, or the budget is exhausted).   *)
AtCheck == pc \in {"timer", "check"}

GoOn == /\ AtCheck
        /\ ~draining \/ (~second_signal /\ ~Quiet)
        /\ pc' = "wait"
        /\ UNCHANGED <<kernelVars, batch, conn, conns, reap, rescan, pending,
                       finishing, flags, workerVars>>

LeaveQuietly == /\ AtCheck
                /\ draining /\ ~second_signal /\ Quiet
                /\ pc' = "stop"
                /\ UNCHANGED <<kernelVars, batch, conn, conns, reap, rescan,
                               pending, finishing, flags, workerVars>>

ForcedExit ==
  /\ forced' = TRUE
  /\ close_all
  /\ pc' = "stop"
  /\ UNCHANGED <<script, sock, backlog, edges, wake, signals, raised, batch,
                 rescan, pending, finishing, accepting, accept_retry,
                 shutdown_requested, second_signal, draining, detached,
                 workerVars>>

LeaveOnSecondSignal == AtCheck /\ draining /\ second_signal /\ ForcedExit

BudgetExhausted == AtCheck /\ draining /\ ~second_signal /\ ~Quiet /\ ForcedExit

(* pool_.stop() or pool_.stop_forced(250): the flag, then the joins.       *)
StopPool == /\ pc = "stop"
            /\ Pool!Close
            /\ pc' = IF forced THEN "tryjoin" ELSE "join"
            /\ UNCHANGED <<kernelVars, batch, conn, conns, reap, rescan, pending,
                           finishing, flags, posted, completions>>

(* The joins are over; run() drops the unread results and returns.         *)
Joined(d) == /\ detached' = d
             /\ completions' = <<>>
             /\ close_all
             /\ pc' = "returned"
             /\ UNCHANGED <<script, sock, backlog, edges, wake, signals, raised,
                            batch, rescan, pending, finishing, accepting,
                            accept_retry, shutdown_requested, second_signal,
                            draining, forced, poolVars, posted>>

(* Mutant: not waiting for the workers.                                    *)
NobodyJoined == pc \in {"join", "tryjoin"} /\ Joined(FALSE)

WorkersJoined == pc \in {"join", "tryjoin"} /\ Pool!Drained /\ Joined(FALSE)

WorkersDetached == pc = "tryjoin" /\ ~Pool!Drained /\ Joined(TRUE)

(* ~EventLoop(), the end of the loop's storage, and process exit.          *)
Destroy == /\ pc = "returned"
           /\ pc' = "destroyed"
           /\ phase' = [c \in Client |-> IF phase[c] = "backlog" THEN "closed"
                                         ELSE phase[c]]
           /\ backlog' = <<>>
           /\ UNCHANGED <<script, sock, ready, edges, wake, signals, raised,
                          batch, conn, conns, reap, rescan, pending, finishing,
                          flags, workerVars>>

Exit == /\ pc = "destroyed"
        /\ pc' = "exited"
        /\ UNCHANGED <<kernelVars, batch, conn, conns, reap, rescan, pending,
                       finishing, flags, workerVars>>

LoopStep ==
  \/ EpollWait \/ EpollWaitFails
  \/ drain_wake \/ handle_signals \/ ListenerEvent
  \/ \E e \in batch.events : ConnectionEvent(e)
  \/ accept_batch
  \/ SwapCompletions \/ ApplyCompletion
  \/ SwapRescans \/ \E c \in Client : Rescan(c)
  \/ reap_finished \/ maybe_begin_drain
  \/ BeginTick \/ tick
  \/ GoOn \/ LeaveQuietly \/ LeaveOnSecondSignal \/ BudgetExhausted
  \/ StopPool \/ WorkersJoined \/ WorkersDetached
  \/ Destroy \/ Exit

WorkerStep(w) == WorkerTakes(w) \/ post_completion(w) \/ Wake(w)

ClientStep(c) == Connect(c) \/ Send(c) \/ HalfClose(c) \/ Vanish(c) \/ Read(c)

Next == \/ LoopStep
        \/ \E w \in Worker : WorkerStep(w)
        \/ \E c \in Client : ClientStep(c)
        \/ RaiseSignal
        \/ pc = "exited" /\ UNCHANGED vars   \* the process has ended

Spec == Init /\ [][Next]_vars

(* Weak fairness of LoopStep, with its enabling condition written out: the *)
(* loop thread only ever waits for workers to end.  (TLC evaluates this    *)
(* form, not the ENABLED of WF, at a tolerable speed.)                     *)
Runnable == pc # "exited" /\ (pc = "join" => Pool!Drained)
LoopRuns == []<>~Runnable \/ []<><<LoopStep>>_vars

(* The scheduler runs the loop thread and every worker, handlers return,   *)
(* the clock makes a tick due again and again until one is run, and        *)
(* clients that are still there read their responses.                      *)
Fairness == /\ LoopRuns
            /\ SF_vars(BeginTick)
            /\ \A w \in Worker : WF_vars(WorkerStep(w))
            /\ \A c \in Client : WF_vars(Read(c))

FairSpec == Spec /\ Fairness

(* The same, except that a handler need not return.                        *)
WedgedFairness == /\ LoopRuns
                  /\ SF_vars(BeginTick)
                  /\ \A w \in Worker : WF_vars(WorkerTakes(w) \/ Wake(w))
                  /\ \A c \in Client : WF_vars(Read(c))

WedgedSpec == Spec /\ WedgedFairness

-----------------------------------------------------------------------------
(* Everything client c was, is being or will be sent, oldest first.        *)
Stream(c) == sock[c].got \o sock[c].snd
               \o (IF conn[c] = NoConn THEN <<>> ELSE conn[c].out)

(* A client receives the responses to its own requests, in the order it    *)
(* sent them, without gap or repetition, whatever connections its          *)
(* descriptor served before and however workers overtake each other; and   *)
(* nothing follows a response that closes the connection.                  *)
ResponsesInOrder == \A c \in Client : InOrder(Stream(c), c)

(* Where a job or its result can be on its way through the server: a place *)
(* and a position there.                                                   *)
Spots == {<<"queue", i>> : i \in 1..Len(queue)}
           \cup {<<"worker", w>> : w \in {v \in Worker \ posted : running[v] # NoJob}}
           \cup {<<"finishing", i>> : i \in 1..Len(finishing)}
           \cup {<<"completions", i>> : i \in 1..Len(completions)}
At(p) == CASE p[1] = "queue"       -> queue[p[2]]
           [] p[1] = "worker"      -> running[p[2]]
           [] p[1] = "finishing"   -> finishing[p[2]]
           [] p[1] = "completions" -> completions[p[2]]

(* The jobs and results of connection c that are still under way.          *)
Underway(c) == {p \in Spots : At(p).conn = c}

(* in_flight_ is exact: a live connection waits for a result if and only   *)
(* if exactly one job or result is under way for it in queue_, a worker or *)
(* completions_, and that is of its current request.  (More would be a     *)
(* second response, none a connection that waits for ever.)                *)
InFlightIsExact ==
  \A c \in Client : conn[c] # NoConn /\ conn[c].alive =>
    IF conn[c].in_flight
    THEN \E p \in Spots : Underway(c) = {p} /\ At(p).seq = conn[c].inflight_seq
    ELSE Underway(c) = {}

(* No event of an epoll_wait() result is delivered to a connection other   *)
(* than the one it is about: descriptors are not closed, let alone reused, *)
(* while a result set is being iterated.                                   *)
EventsReachTheirConnection ==
  \A e \in batch.events : conns[e.fd] = e.of

(* reap_ holds descriptor numbers, not connections: each still names the   *)
(* finished connection it was recorded for; no connection awaiting a       *)
(* re-scan has been destroyed; and when the loop goes to sleep no finished *)
(* connection has been forgotten.                                          *)
ReapIsExact ==
  /\ \A fd \in reap : conns[fd] # NoClient /\ finished(conn[conns[fd]])
  /\ rescan \cup pending \subseteq Owned
  /\ pc = "wait" => \A c \in Owned : finished(conn[c]) => conn[c].fd \in reap

Polling(c) == pc = "wait" /\ c \in Owned /\ ~finished(conn[c])

(* Edge-triggered input: when the loop goes to sleep, a connection that    *)
(* wants input has EPOLLIN armed, an event pending if the kernel has       *)
(* something for it, and no unparsed request left in in_; and it has been  *)
(* told of a dead peer, or is about to be.                                 *)
InputNotStranded ==
  \A c \in Client : Polling(c) =>
    /\ want_read(conn[c]) => /\ "in" \in conn[c].applied_mask
                             /\ Readable(sock[c]) => c \in ready
                             /\ conn[c].in = <<>>
    /\ sock[c].gone # "no" => \/ c \in ready
                              \/ sock[c].gone = "hup" /\ conn[c].peer_eof

(* Edge-triggered output: bytes left in out_ have EPOLLOUT armed, and an   *)
(* event pending if the socket can take them.                              *)
OutputNotStranded ==
  \A c \in Client : Polling(c) /\ conn[c].out # <<>> =>
    /\ "out" \in conn[c].applied_mask
    /\ Writable(sock[c]) => c \in ready

(* A result posted behind the loop's back is followed by a wakeup.         *)
CompletionNotStranded ==
  pc = "wait" /\ completions # <<>> => wake \/ posted # {}

(* The edge-triggered listener does not go quiet: clients left in the      *)
(* backlog are announced by a pending event or retried by the next tick.   *)
ListenerNotQuiet ==
  pc = "wait" /\ backlog # <<>> => "listen" \in edges \/ accept_retry

(* Per-connection memory is bounded however a client pipelines or stalls:  *)
(* input by the request limit (the read that crosses it is the last), and  *)
(* output by the threshold plus the response being produced and one        *)
(* 100-continue.                                                           *)
BuffersBounded ==
  \A c \in Client : conn[c] # NoConn =>
    /\ conn[c].consumed + Len(conn[c].in)
         <= MaxRequest + (IF conn[c].close_after THEN 1 ELSE 0)
    /\ Len(conn[c].out) <= MaxOutput + 1

(* The requests of c whose answer the kernel has.                          *)
Answers(c) == LET sent == sock[c].got \o sock[c].snd
              IN  FinalsTo(sent, Len(sent))

(* A connection is closed only when every request taken from it has its    *)
(* answer in the kernel - unless the peer is dead, stalls with output      *)
(* pending at a tick, or the shutdown is forced.  (When epoll itself fails *)
(* there is no such promise: the process gives up.)                        *)
CloseIsClean ==
  [][\A c \in Client : conn[c] # NoConn /\ conn'[c] = NoConn =>
       \/ sock[c].gone # "no" \/ forced'
       \/ pc = "tick" /\ conn[c].out # <<>>
       \/ Answers(c)' >= conn[c].next_seq - 1]_vars

(* Once draining, no request is handed to the pool any more.               *)
DrainTakesNoWork == [][Len(queue') > Len(queue) => ~draining]_vars

(* Nobody uses the loop after its destruction except a worker that a       *)
(* forced shutdown detached.                                               *)
OnlyDetachedOutlive ==
  pc = "destroyed" /\ ~detached => Pool!Drained /\ posted = {}

(* Client c is being served, or should be: it waits to be accepted, or a   *)
(* whole request of its, or an answer, is somewhere in the server.         *)
Waiting(c) ==
  /\ sock[c].gone = "no"
  /\ \/ phase[c] = "backlog"
     \/ /\ conn[c] # NoConn
        /\ \/ conn[c].in_flight \/ conn[c].out # <<>>
           \/ \E i \in 1..Len(conn[c].in) : conn[c].in[i] \in Ending
           \/ \E i \in 1..Len(sock[c].rcv) : sock[c].rcv[i] \in Ending

(* Every client that stays is accepted and its requests answered, or its   *)
(* connection closed (CloseIsClean says when), however accepts, overload,  *)
(* completions, full sockets and re-enabled reads interleave.              *)
EveryRequestAnswered == \A c \in Client : Waiting(c) ~> ~Waiting(c)

(* One signal suffices to end the process, without the shutdown budget's   *)
(* help, as long as handlers return and clients read or leave.             *)
ShutdownTerminates == shutdown_requested ~> pc = "exited"

-----------------------------------------------------------------------------
(* What the comments and documents say and the code does not do            *)

(* "~EventLoop runs after run() has already stopped and joined the         *)
(* workers, so nothing can be posted anymore" (event_loop.cpp:40).         *)
NothingPostedToDestroyedLoop ==
  pc = "destroyed" => Pool!Drained /\ posted = {}

(* "do not let a wedged handler hold the process open" (event_loop.cpp:    *)
(* 660): a second signal ends the process even if a handler never returns. *)
SecondSignalExits ==
  shutdown_requested /\ (second_signal \/ signals > 0) ~> pc = "exited"
=============================================================================
