----------------------------- MODULE LoopSteps ------------------------------
(***************************************************************************)
(* LoopInv is preserved by the remaining steps, the phases of an           *)
(* iteration: the special descriptors, epoll_wait() and accept_batch().    *)
(* And HeardInv, which says what connections are told of, is preserved by  *)
(* every step, where no EPOLL_CTL_MOD fails.                               *)
(***************************************************************************)
EXTENDS LoopInvariant

(* The leaves are Zenon's; those that need arithmetic or sequences are     *)
(* SMT's, and say so.                                                      *)
USE Zenon

-----------------------------------------------------------------------------
(* Special descriptors and the hand-over from one phase to the next.       *)

(* A special event is taken out of the batch.                              *)
LEMMA SpecialTaken ==
  ASSUME PhaseType, NEW x, batch' = [batch EXCEPT !.special = @ \ {x}]
  PROVE  /\ batch' \in [events : SUBSET Event, special : SUBSET Special]
         /\ batch'.events = batch.events /\ batch'.special = batch.special \ {x}
  BY DEF PhaseType

(* tick() begins, with the deferred accepts if there are any.              *)
LEMMA BeginTickInv ==
  ASSUME LoopInv, BeginTick
  PROVE  LoopInv'
  <1>0. /\ TypeOK /\ BatchOK /\ RescanOK /\ signals <= raised /\ PhaseType
    BY TypeParts DEF LoopInv
  <1>1. /\ pc = "timer" /\ pc' \in {"accept", "tick"}
        /\ accepting' = [tries |-> 0, back |-> "tick"] /\ accept_retry' = FALSE
        /\ UNCHANGED <<kernelVars, batch, conn, conns, reap, rescan, pending,
                       finishing, shutdown_requested, second_signal, draining,
                       forced, detached, workerVars>>
    BY DEF BeginTick
  <1>2. KernelType' /\ ObjectType' /\ WorkerType'
    BY <1>0, <1>1, TypeFrame DEF objectVars
  <1>3. /\ accepting' \in [tries : 0..AcceptBatch, back : {"events", "tick"}]
        /\ accepting'.back = "tick"
    BY SMT, <1>1, LoopAssumption
  <1>4. PhaseType'
    BY <1>0, <1>1, <1>3 DEF PhaseType, PC
  <1>5. BatchOK' /\ RescanOK'
    BY <1>0, <1>1, <1>3 DEF BatchOK, RescanOK, InBatch
  <1>6. UNCHANGED Objects /\ signals' <= raised'
    BY <1>0, <1>1 DEF Objects, kernelVars, netVars
  <1> QED
    BY <1>2, <1>4, <1>5, <1>6, PhaseStep

(* The listener's event: accept_batch() begins.                            *)
LEMMA ListenerEventInv ==
  ASSUME LoopInv, ListenerEvent
  PROVE  LoopInv'
  <1>0. TypeOK /\ BatchOK /\ RescanOK /\ signals <= raised /\ PhaseType
    BY TypeParts DEF LoopInv
  <1>1. /\ pc = "events" /\ pc' = "accept"
        /\ batch' = [batch EXCEPT !.special = @ \ {"listen"}]
        /\ accepting' = [tries |-> 0, back |-> "events"]
        /\ UNCHANGED <<kernelVars, conn, conns, reap, rescan, pending,
                       finishing, accept_retry, shutdown_requested,
                       second_signal, draining, forced, detached, workerVars>>
    BY DEF ListenerEvent
  <1>2. KernelType' /\ ObjectType' /\ WorkerType'
    BY <1>0, <1>1, TypeFrame DEF objectVars
  <1>3. /\ accepting' \in [tries : 0..AcceptBatch, back : {"events", "tick"}]
        /\ accepting'.back = "events"
    BY SMT, <1>1, LoopAssumption
  <1>4. /\ batch' \in [events : SUBSET Event, special : SUBSET Special]
        /\ batch'.events = batch.events
    BY <1>0, <1>1, SpecialTaken
  <1>5. PhaseType'
    BY <1>0, <1>1, <1>3, <1>4 DEF PhaseType, PC
  <1>6. InBatch /\ InBatch'
    BY <1>1, <1>3 DEF InBatch
  <1>7. BatchOK' /\ RescanOK'
    BY <1>0, <1>1, <1>4, <1>6 DEF BatchOK, RescanOK
  <1>8. UNCHANGED Objects /\ signals' <= raised'
    BY <1>0, <1>1 DEF Objects, kernelVars, netVars
  <1> QED
    BY <1>2, <1>5, <1>7, <1>8, PhaseStep

(* The eventfd's event.                                                    *)
LEMMA DrainWakeInv ==
  ASSUME LoopInv, drain_wake
  PROVE  LoopInv'
  <1>0. /\ TypeOK /\ BatchOK /\ RescanOK /\ signals <= raised /\ PhaseType
        /\ KernelType
    BY TypeParts DEF LoopInv
  <1>1. /\ pc = "events" /\ batch' = [batch EXCEPT !.special = @ \ {"wake"}]
        /\ wake' = FALSE
        /\ UNCHANGED <<script, sock, phase, backlog, ready, edges, signals,
                       raised, pc, conn, conns, reap, rescan, pending,
                       finishing, flags, workerVars>>
    BY DEF drain_wake
  <1>2. ObjectType' /\ WorkerType'
    BY <1>0, <1>1, TypeFrame DEF objectVars
  <1>3. KernelType'
    BY <1>0, <1>1 DEF KernelType
  <1>4. /\ batch' \in [events : SUBSET Event, special : SUBSET Special]
        /\ batch'.events = batch.events
    BY <1>0, <1>1, SpecialTaken
  <1>5. PhaseType'
    BY <1>0, <1>1, <1>4 DEF PhaseType, flags
  <1>6. BatchOK' /\ RescanOK'
    BY <1>0, <1>1, <1>4 DEF BatchOK, RescanOK, InBatch
  <1>7. UNCHANGED Objects /\ signals' <= raised'
    BY <1>0, <1>1 DEF Objects, flags
  <1> QED
    BY <1>2, <1>3, <1>5, <1>6, <1>7, PhaseStep

(* The signalfd's event.                                                   *)
LEMMA HandleSignalsInv ==
  ASSUME LoopInv, handle_signals
  PROVE  LoopInv'
  <1>0. /\ TypeOK /\ BatchOK /\ RescanOK /\ signals <= raised /\ PhaseType
        /\ KernelType
    BY TypeParts DEF LoopInv
  <1>1. /\ pc = "events" /\ batch' = [batch EXCEPT !.special = @ \ {"sig"}]
        /\ signals' = 0
        /\ shutdown_requested' = (shutdown_requested \/ signals > 0)
        /\ second_signal' = \/ second_signal
                            \/ signals > 1
                            \/ signals = 1 /\ shutdown_requested
        /\ UNCHANGED <<script, sock, phase, backlog, ready, edges, wake, raised,
                       pc, conn, conns, reap, rescan, pending, finishing,
                       accepting, accept_retry, draining, forced, detached,
                       workerVars>>
    BY DEF handle_signals
  <1>2. ObjectType' /\ WorkerType'
    BY <1>0, <1>1, TypeFrame DEF objectVars
  <1>3. KernelType' /\ signals' <= raised'
    BY SMT, <1>0, <1>1, LoopAssumption DEF KernelType
  <1>4. /\ batch' \in [events : SUBSET Event, special : SUBSET Special]
        /\ batch'.events = batch.events
    BY <1>0, <1>1, SpecialTaken
  <1>5. shutdown_requested' \in BOOLEAN /\ second_signal' \in BOOLEAN
    BY <1>0, <1>1 DEF PhaseType
  <1>6. PhaseType'
    BY <1>0, <1>1, <1>4, <1>5 DEF PhaseType
  <1>7. BatchOK' /\ RescanOK'
    BY <1>0, <1>1, <1>4 DEF BatchOK, RescanOK, InBatch
  <1>8. UNCHANGED Objects
    BY <1>1 DEF Objects
  <1> QED
    BY <1>2, <1>3, <1>6, <1>7, <1>8, PhaseStep

(* drain_completions() begins once the result set is done.                 *)
LEMMA SwapCompletionsInv ==
  ASSUME LoopInv, SwapCompletions
  PROVE  LoopInv'
  <1>0. /\ TypeOK /\ BatchOK /\ RescanOK /\ signals <= raised /\ PhaseType
        /\ WorkerType
    BY TypeParts DEF LoopInv
  <1>1. /\ pc = "events" /\ batch.events = {} /\ pc' = "completions"
        /\ finishing' = completions /\ completions' = <<>>
        /\ UNCHANGED <<kernelVars, batch, conn, conns, reap, rescan, pending,
                       flags, poolVars, posted>>
    BY DEF SwapCompletions
  <1>2. KernelType' /\ ObjectType'
    BY <1>0, <1>1, TypeFrame DEF objectVars
  <1>3. PhaseType'
    BY <1>0, <1>1 DEF PhaseType, WorkerType, PC, flags
  <1>4. WorkerType'
    BY <1>0, <1>1, SeqEmpty DEF WorkerType, poolVars
  <1>5. BatchOK' /\ RescanOK'
    BY <1>0, <1>1 DEF BatchOK, RescanOK, InBatch
  <1>6. UNCHANGED Objects /\ signals' <= raised'
    BY <1>0, <1>1 DEF Objects, kernelVars, netVars, flags
  <1> QED
    BY <1>2, <1>3, <1>4, <1>5, <1>6, PhaseStep

(* process_rescans() begins: what awaited a re-scan is now pending.        *)
LEMMA SwapRescansInv ==
  ASSUME LoopInv, SwapRescans
  PROVE  LoopInv'
  <1>0. /\ TypeOK /\ BatchOK /\ RescanOK /\ signals <= raised /\ ObjectType
    BY TypeParts DEF LoopInv
  <1>1. /\ pc = "completions" /\ pc' = "rescan"
        /\ pending' = rescan /\ rescan' = {}
        /\ UNCHANGED <<kernelVars, batch, conn, conns, reap, finishing, flags,
                       workerVars>>
    BY DEF SwapRescans
  <1>2. KernelType' /\ WorkerType'
    BY <1>0, <1>1, TypeFrame
  <1>3. PhaseType'
    BY <1>0, <1>1, PcType DEF PC
  <1>4. ObjectType'
    BY <1>0, <1>1 DEF ObjectType
  <1>5. BatchOK' /\ RescanOK'
    BY <1>0, <1>1 DEF BatchOK, RescanOK, InBatch
  <1>6. UNCHANGED Objects /\ signals' <= raised'
    BY <1>0, <1>1 DEF Objects, kernelVars, netVars, flags
  <1> QED
    BY <1>2, <1>3, <1>4, <1>5, <1>6, PhaseStep

-----------------------------------------------------------------------------
(* epoll_wait(): one event for each ready connection, all of which exist.  *)

(* epoll_wait() returns one event per ready connection, each under the     *)
(* descriptor that names the connection.                                   *)
LEMMA EpollWaitInv ==
  ASSUME LoopInv, EpollWait
  PROVE  LoopInv'
  <1> DEFINE told == {d \in ready : Reported(d) # {}}
             ev(c) == [fd |-> conn[c].fd, of |-> c, ev |-> Reported(c)]
             events == {ev(c) : c \in told}
             special == edges \cup (IF wake THEN {"wake"} ELSE {})
  <1>0. /\ TypeOK /\ Identity /\ Bounded /\ BatchOK /\ RescanOK /\ ReapOK
        /\ DrainOK /\ signals <= raised
        /\ KernelType /\ ObjectType /\ PhaseType /\ WorkerType
    BY TypeParts DEF LoopInv
  <1>1. /\ pc = "wait" /\ pc' = "events" /\ ready' = {} /\ edges' = {}
        /\ batch' = [events |-> events, special |-> special]
        /\ UNCHANGED <<script, sock, phase, backlog, wake, signals, raised,
                       conn, conns, reap, rescan, pending, finishing, flags,
                       workerVars>>
    BY DEF EpollWait
  <1>2. \A c \in told : /\ c \in Client /\ conn[c] \in ConnState
                        /\ conn[c].fd \in Fd /\ conns[conn[c].fd] = c
                        /\ conn[c].applied_mask \subseteq {"in", "out"}
    BY SMTT(30), <1>0, MemberTypes DEF Identity, KernelType, ObjectType
  <1>3. \A c \in told : Reported(c) \subseteq {"in", "out", "hup", "err"}
    <2> SUFFICES ASSUME NEW c \in told
                 PROVE  Reported(c) \subseteq {"in", "out", "hup", "err"}
      OBVIOUS
    <2>1. sock[c].gone \in {"no", "hup", "err"}
      BY <1>0, <1>2 DEF KernelType, SockState
    <2> QED
      BY <2>1, <1>2 DEF Reported
  <1>4. events \subseteq Event
    BY SMT, <1>2, <1>3 DEF Event
  <1>5. \A e \in events : e.of \in told /\ e = ev(e.of) /\ e.fd = conn[e.of].fd
    BY SMT
  <1>6. special \subseteq Special
    BY <1>0 DEF KernelType, Special
  <1> HIDE DEF events, special
  <1>7. /\ batch' \in [events : SUBSET Event, special : SUBSET Special]
        /\ batch'.events = events
    BY <1>1, <1>4, <1>6
  <1>8. KernelType' /\ signals' <= raised'
    BY <1>0, <1>1 DEF KernelType
  <1>9. PhaseType'
    BY <1>0, <1>1, <1>7 DEF PhaseType, PC, flags
  <1>10. ObjectType' /\ WorkerType'
    BY <1>0, <1>1, TypeFrame DEF objectVars
  <1>11. TypeOK'
    BY <1>8, <1>9, <1>10, TypePartsNext
  <1>12. Identity' /\ Bounded' /\ ReapOK' /\ DrainOK'
    BY <1>0, <1>1 DEF Identity, Bounded, ReapOK, DrainOK, flags
  <1>13. BatchOK'
    <2>1. InBatch'
      BY <1>1 DEF InBatch
    <2>2. \A e \in events : conns[e.fd] = e.of
      BY <1>2, <1>5
    <2>3. \A e, f \in events : e.of = f.of => e = f
      BY <1>5
    <2> QED
      BY <2>1, <2>2, <2>3, <1>1, <1>7 DEF BatchOK
  <1>14. rescan = {} /\ pending = {}
    BY <1>0, <1>1 DEF RescanOK, InBatch
  <1>15. RescanOK'
    BY <1>1, <1>14 DEF RescanOK
  <1> QED
    BY <1>8, <1>11, <1>12, <1>13, <1>15 DEF LoopInv

-----------------------------------------------------------------------------
(* accept_batch().                                                         *)

(* accept_batch() returns to where it was called from.                     *)
LEMMA LeaveAcceptInv ==
  ASSUME LoopInv, pc = "accept", NEW retry \in BOOLEAN, LeaveAccept(retry)
  PROVE  LoopInv'
  <1>0. /\ TypeOK /\ BatchOK /\ RescanOK /\ signals <= raised /\ PhaseType
    BY TypeParts DEF LoopInv
  <1>1. /\ pc' = accepting.back /\ accept_retry' = (accept_retry \/ retry)
        /\ UNCHANGED <<kernelVars, batch, conn, conns, reap, rescan, pending,
                       finishing, accepting, shutdown_requested, second_signal,
                       draining, forced, detached, workerVars>>
    BY DEF LeaveAccept
  <1>2. accepting.back \in {"events", "tick"}
    BY <1>0 DEF PhaseType
  <1>3. KernelType' /\ ObjectType' /\ WorkerType'
    BY <1>0, <1>1, TypeFrame DEF objectVars
  <1>4. PhaseType'
    BY <1>0, <1>1, <1>2 DEF PhaseType, PC
  <1>5. InBatch' <=> InBatch
    BY <1>1, <1>2 DEF InBatch
  <1>6. BatchOK' /\ RescanOK'
    BY <1>0, <1>1, <1>5 DEF BatchOK, RescanOK
  <1>7. UNCHANGED Objects /\ signals' <= raised'
    BY <1>0, <1>1 DEF Objects, kernelVars, netVars
  <1> QED
    BY <1>3, <1>4, <1>6, <1>7, PhaseStep

(* One more try.                                                           *)
LEMMA NextTryFacts ==
  ASSUME PhaseType, accepting.tries < AcceptBatch, NextTry
  PROVE  /\ accepting' \in [tries : 0..AcceptBatch, back : {"events", "tick"}]
         /\ accepting'.back = accepting.back
  <1>1. accepting.tries \in 0..AcceptBatch
    BY DEF PhaseType
  <1>2. accepting.tries + 1 \in 0..AcceptBatch
    BY SMT, <1>1, LoopAssumption
  <1> QED
    BY <1>2 DEF PhaseType, NextTry

(* The accepted socket is closed at once.                                  *)
LEMMA DismissInv ==
  ASSUME LoopInv, Accepting, backlog # <<>>,
         NEW s \in SockState, SocketBounded(s), Dismiss(Head(backlog), s)
  PROVE  LoopInv'
  <1> DEFINE c == Head(backlog)
             rest == Tail(backlog)
  <1>0. /\ TypeOK /\ Identity /\ Bounded /\ BatchOK /\ RescanOK /\ ReapOK
        /\ DrainOK /\ signals <= raised
        /\ KernelType /\ ObjectType /\ PhaseType /\ WorkerType
    BY TypeParts DEF LoopInv
  <1>1. /\ pc = "accept" /\ accepting.tries < AcceptBatch /\ NextTry
        /\ backlog' = rest /\ phase' = [phase EXCEPT ![c] = "closed"]
        /\ sock' = [sock EXCEPT ![c] = s]
        /\ UNCHANGED <<script, ready, edges, wake, signals, raised, pc, batch,
                       conn, conns, reap, rescan, pending, finishing,
                       accept_retry, shutdown_requested, second_signal,
                       draining, forced, detached, workerVars>>
    BY DEF Accepting, Dismiss
  <1>2. /\ c \in Client /\ phase[c] = "backlog" /\ conn[c] = NoConn
        /\ rest \in Seq(Client)
        /\ \A i \in 1..Len(rest) : /\ rest[i] \in Client /\ rest[i] # c
                                   /\ phase[rest[i]] = "backlog"
        /\ \A i, j \in 1..Len(rest) : rest[i] = rest[j] => i = j
    BY <1>0, HeadOfBacklog
  <1> HIDE DEF c, rest
  <1>3. \A d \in Client : /\ phase'[d] = IF d = c THEN "closed" ELSE phase[d]
                          /\ sock'[d] = IF d = c THEN s ELSE sock[d]
    BY <1>0, <1>1 DEF KernelType
  <1>4. KernelType'
    BY <1>0, <1>1, <1>2 DEF KernelType
  <1>5. ObjectType' /\ WorkerType'
    BY <1>0, <1>1, TypeFrame DEF objectVars
  <1>6. /\ accepting' \in [tries : 0..AcceptBatch, back : {"events", "tick"}]
        /\ accepting'.back = accepting.back
    BY <1>0, <1>1, NextTryFacts
  <1>7. PhaseType'
    BY <1>0, <1>1, <1>6 DEF PhaseType
  <1>8. TypeOK'
    BY <1>4, <1>5, <1>7, TypePartsNext
  <1>9. Identity'
    <2>1. \A i \in 1..Len(rest) : phase'[rest[i]] = "backlog"
      BY <1>2, <1>3
    <2>2. \A d \in Client : (phase'[d] = "open") <=> (phase[d] = "open")
      BY <1>2, <1>3
    <2> QED
      BY SMT, <2>1, <2>2, <1>0, <1>1, <1>2 DEF Identity
  <1>10. Bounded'
    BY SMT, <1>0, <1>1, <1>3 DEF Bounded
  <1>11. BatchOK' /\ RescanOK'
    BY <1>0, <1>1, <1>6 DEF BatchOK, RescanOK, InBatch
  <1>12. ReapOK' /\ DrainOK' /\ signals' <= raised'
    BY <1>0, <1>1 DEF ReapOK, DrainOK
  <1> QED
    BY <1>8, <1>9, <1>10, <1>11, <1>12 DEF LoopInv

(* A fresh Connection under a descriptor nobody uses.                      *)
LEMMA AdmitInv ==
  ASSUME LoopInv, NEW fd \in Fd, Admit(fd)
  PROVE  LoopInv'
  <1> DEFINE c == Head(backlog)
             rest == Tail(backlog)
  <1>0. /\ TypeOK /\ Identity /\ Bounded /\ BatchOK /\ RescanOK /\ ReapOK
        /\ DrainOK /\ signals <= raised
        /\ KernelType /\ ObjectType /\ PhaseType /\ WorkerType
    BY TypeParts DEF LoopInv
  <1>1. /\ pc = "accept" /\ accepting.tries < AcceptBatch /\ NextTry
        /\ backlog # <<>> /\ conns[fd] = NoClient /\ ~draining
        /\ backlog' = rest /\ phase' = [phase EXCEPT ![c] = "open"]
        /\ conn' = [conn EXCEPT ![c] = NewConn(fd)]
        /\ conns' = [conns EXCEPT ![fd] = c]
        /\ ready' \subseteq ready \cup {c}
        /\ UNCHANGED <<script, sock, edges, wake, signals, raised, pc, batch,
                       reap, rescan, pending, finishing, accept_retry,
                       shutdown_requested, second_signal, draining, forced,
                       detached, workerVars>>
    BY DEF Accepting, Admit, Free, AtLimit
  <1>2. /\ c \in Client /\ phase[c] = "backlog" /\ conn[c] = NoConn
        /\ rest \in Seq(Client)
        /\ \A i \in 1..Len(rest) : /\ rest[i] \in Client /\ rest[i] # c
                                   /\ phase[rest[i]] = "backlog"
        /\ \A i, j \in 1..Len(rest) : rest[i] = rest[j] => i = j
    BY <1>0, <1>1, HeadOfBacklog
  <1> HIDE DEF c, rest
  <1>3. /\ NewConn(fd) \in ConnState /\ InputBounded(NewConn(fd))
        /\ NewConn(fd).fd = fd /\ ~finished(NewConn(fd))
        /\ NewConn(fd) # NoConn
    BY NewConnFacts, LoopAssumption
  <1>4. /\ \A d \in Client : /\ phase'[d] = IF d = c THEN "open" ELSE phase[d]
                             /\ conn'[d] = IF d = c THEN NewConn(fd) ELSE conn[d]
        /\ \A g \in Fd : conns'[g] = IF g = fd THEN c ELSE conns[g]
    BY <1>0, <1>1 DEF KernelType, ObjectType
  <1>5. KernelType'
    BY <1>0, <1>1, <1>2 DEF KernelType
  <1>6. ObjectType'
    BY <1>0, <1>1, <1>2, <1>3 DEF ObjectType
  <1>7. WorkerType'
    BY <1>0, <1>1, TypeFrame
  <1>8. /\ accepting' \in [tries : 0..AcceptBatch, back : {"events", "tick"}]
        /\ accepting'.back = accepting.back
    BY <1>0, <1>1, NextTryFacts
  <1>9. PhaseType'
    BY <1>0, <1>1, <1>8 DEF PhaseType
  <1>10. TypeOK'
    BY <1>5, <1>6, <1>7, <1>9, TypePartsNext
  <1>11. c # NoClient
    BY <1>2, LoopAssumption
  <1>12. \A d \in Client : conn[d] # NoConn =>
           d # c /\ conn[d].fd \in Fd /\ conn[d].fd # fd
    BY SMT, <1>0, <1>1, <1>2, LoopAssumption, MemberTypes DEF Identity, ObjectType
  <1>13. Identity'
    <2>1. \A g \in Fd : conns'[g] # NoClient =>
            conn'[conns'[g]] # NoConn /\ conn'[conns'[g]].fd = g
      <3> SUFFICES ASSUME NEW g \in Fd, conns'[g] # NoClient
                   PROVE  conn'[conns'[g]] # NoConn /\ conn'[conns'[g]].fd = g
        OBVIOUS
      <3>1. CASE g = fd
        BY <3>1, <1>2, <1>3, <1>4
      <3>2. CASE g # fd
        <4>1. conns'[g] = conns[g] /\ conns[g] \in Client
          BY <3>2, <1>0, <1>4 DEF ObjectType
        <4>2. conn[conns[g]] # NoConn /\ conn[conns[g]].fd = g
          BY <4>1, <1>0 DEF Identity
        <4> QED
          BY SMTT(30), <4>1, <4>2, <1>2, <1>4
      <3> QED
        BY <3>1, <3>2
    <2>2. \A d \in Client : conn'[d] # NoConn =>
            conns'[conn'[d].fd] = d /\ phase'[d] = "open"
      <3> SUFFICES ASSUME NEW d \in Client, conn'[d] # NoConn
                   PROVE  conns'[conn'[d].fd] = d /\ phase'[d] = "open"
        OBVIOUS
      <3>1. CASE d = c
        BY <3>1, <1>3, <1>4
      <3>2. CASE d # c
        <4>1. conn'[d] = conn[d] /\ phase'[d] = phase[d]
          BY <3>2, <1>4
        <4>2. conns[conn[d].fd] = d /\ phase[d] = "open"
          BY <4>1, <1>0 DEF Identity
        <4> QED
          BY <4>1, <4>2, <1>4, <1>12
      <3> QED
        BY <3>1, <3>2
    <2>3. \A d \in Client : phase'[d] = "open" => conn'[d] # NoConn
      BY <1>0, <1>3, <1>4 DEF Identity
    <2>4. \A i \in 1..Len(rest) : phase'[rest[i]] = "backlog"
      BY <1>2, <1>4
    <2>5. \A d \in ready' : conn'[d] # NoConn
      <3>1. \A d \in ready : d \in Client /\ conn[d] # NoConn
        BY <1>0 DEF Identity, KernelType
      <3>2. \A d \in ready' : d = c \/ d \in ready
        BY <1>1
      <3> QED
        BY <3>1, <3>2, <1>2, <1>3, <1>4
    <2> QED
      <3>1. /\ \A i \in 1..Len(backlog') : phase'[backlog'[i]] = "backlog"
            /\ \A i, j \in 1..Len(backlog') : backlog'[i] = backlog'[j] => i = j
        BY <2>4, <1>1, <1>2
      <3> QED
        BY <3>1, <2>1, <2>2, <2>3, <2>5 DEF Identity
  <1>14. Bounded'
    <2>1. \A d \in Client : conn'[d] # NoConn => InputBounded(conn'[d])
      BY <1>0, <1>3, <1>4 DEF Bounded
    <2>2. \A d \in Client : SocketBounded(sock'[d])
      BY <1>0, <1>1 DEF Bounded
    <2>3. ASSUME NEW d \in Client, phase'[d] \in {"new", "backlog"}
          PROVE  sock'[d].snd = <<>>
      <3>1. phase[d] \in {"new", "backlog"}
        BY <2>3, <1>4
      <3>2. sock[d].snd = <<>>
        BY <3>1, <1>0 DEF Bounded
      <3> QED
        BY <3>2, <1>1
    <2> QED
      BY <2>1, <2>2, <2>3 DEF Bounded
  <1>15. BatchOK'
    <2>1. \A e \in batch.events : e.fd \in Fd /\ e.of \in Client
      BY <1>0 DEF PhaseType, Event
    <2>2. \A e \in batch.events : conns'[e.fd] = e.of
      <3>1. \A e \in batch.events : conns[e.fd] = e.of /\ e.fd # fd
        BY <2>1, <1>0, <1>1, LoopAssumption DEF BatchOK
      <3> QED
        BY <3>1, <2>1, <1>4
    <2>3. InBatch' <=> InBatch
      BY <1>1, <1>8 DEF InBatch
    <2> QED
      BY <2>2, <2>3, <1>0, <1>1 DEF BatchOK
  <1>16. RescanOK'
    <2>1. \A d \in rescan \cup pending : conn'[d] = conn[d]
      BY <1>0, <1>2, <1>4 DEF RescanOK, ObjectType
    <2>2. InBatch' <=> InBatch
      BY <1>1, <1>8 DEF InBatch
    <2> QED
      BY <2>1, <2>2, <1>0, <1>1 DEF RescanOK
  <1>17. ReapOK'
    <2>1. fd \notin reap
      BY <1>0, <1>1 DEF ReapOK
    <2>2. \A g \in reap : conns'[g] # NoClient
      BY <1>0, <1>4, <1>11 DEF ReapOK, ObjectType
    <2>3. \A d \in Client : conn'[d] # NoConn =>
            (finished(conn'[d]) <=> conn'[d].fd \in reap)
      BY <2>1, <1>0, <1>3, <1>4 DEF ReapOK
    <2> QED
      BY <2>2, <2>3, <1>1 DEF ReapOK
  <1>18. DrainOK' /\ signals' <= raised'
    BY <1>0, <1>1 DEF DrainOK
  <1> QED
    BY <1>10, <1>13, <1>14, <1>15, <1>16, <1>17, <1>18 DEF LoopInv

(* Every step of accept_batch().                                           *)
LEMMA AcceptBatchInv ==
  ASSUME LoopInv, accept_batch
  PROVE  LoopInv'
  <1>0. TypeOK /\ Identity /\ Bounded /\ KernelType
    BY TypeParts DEF LoopInv
  <1>1. CASE AcceptDrained \/ AcceptNoDescriptor \/ AcceptBatchFull \/ AcceptError
    <2>1. pc = "accept" /\ \E retry \in BOOLEAN : LeaveAccept(retry)
      BY <1>1 DEF AcceptDrained, AcceptNoDescriptor, AcceptBatchFull,
                  AcceptError, Accepting
    <2> QED
      BY <2>1, LeaveAcceptInv
  <1>2. CASE AcceptAborted \/ AddFails
    <2>1. /\ Accepting /\ backlog # <<>>
          /\ Dismiss(Head(backlog), sock[Head(backlog)])
      BY <1>2 DEF AcceptAborted, AddFails
    <2>2. Head(backlog) \in Client
      BY <2>1, <1>0, HeadOfBacklog
    <2>3. sock[Head(backlog)] \in SockState /\ SocketBounded(sock[Head(backlog)])
      BY <2>2, <1>0 DEF KernelType, Bounded
    <2> QED
      BY <2>1, <2>3, DismissInv
  <1>3. CASE reject_connection
    <2> DEFINE c == Head(backlog)
               refusal == [status |-> "503", of |-> NoJob, body |-> TRUE,
                           close |-> TRUE]
               s == IF sock[c].gone # "no" THEN sock[c]
                    ELSE [sock[c] EXCEPT !.snd = Append(@, refusal)]
    <2>1. Accepting /\ backlog # <<>> /\ Dismiss(c, s)
      BY <1>3 DEF reject_connection
    <2>2. c \in Client /\ phase[c] = "backlog"
      BY <2>1, <1>0, HeadOfBacklog
    <2> HIDE DEF c
    <2>3. /\ sock[c] \in SockState /\ SocketBounded(sock[c])
          /\ sock[c].snd = <<>>
      BY <2>2, <1>0 DEF KernelType, Bounded
    <2>4. refusal \in Response
      BY DEF Response
    <2> HIDE DEF refusal
    <2>5. /\ Append(sock[c].snd, refusal) \in Seq(Response)
          /\ Len(Append(sock[c].snd, refusal)) = 1
      BY SMT, <2>3, <2>4, SeqEmpty, SeqAppend
    <2>6. s \in SockState /\ SocketBounded(s)
      <3> DEFINE t == [sock[c] EXCEPT !.snd = Append(sock[c].snd, refusal)]
      <3>1. t \in SockState /\ t.snd = Append(sock[c].snd, refusal)
        BY <2>3, <2>5 DEF SockState
      <3>2. s = sock[c] \/ s = t
        OBVIOUS
      <3> HIDE DEF s, t
      <3>3. SocketBounded(t)
        BY SMT, <3>1, <2>5, ConnectionAssumption DEF SocketBounded
      <3> QED
        BY <3>1, <3>2, <3>3, <2>3
    <2> HIDE DEF s
    <2> QED
      BY <2>1, <2>6, DismissInv DEF c
  <1>4. CASE \E fd \in Fd : Admit(fd)
    BY <1>4, AdmitInv
  <1> QED
    BY <1>1, <1>2, <1>3, <1>4 DEF accept_batch

-----------------------------------------------------------------------------
(* What connections are told: InputNotStranded and OutputNotStranded.      *)

(* epoll holds an event for c, or has reported one of bits that is yet to  *)
(* be handled.                                                             *)
Told(c, bits) == \/ c \in ready
                 \/ \E e \in batch.events : e.of = c /\ e.ev \cap bits # {}

(* Who wants input has EPOLLIN armed, and is to be re-scanned, or has      *)
(* parsed all it has and is told of more.                                  *)
InputHeard(c) ==
  want_read(conn[c]) =>
    /\ "in" \in conn[c].applied_mask
    /\ \/ c \in rescan \cup pending
       \/ /\ conn[c].in = <<>>
          /\ Readable(sock[c]) => Told(c, {"in", "hup", "err"})

(* EPOLLIN stays armed without being wanted only on the way out.           *)
InputArmed(c) ==
  "in" \in conn[c].applied_mask /\ ~want_read(conn[c]) =>
    conn[c].draining \/ conn[c].close_after \/ MaxOutput = 0

(* A dead peer is told of, or known.                                       *)
PeerHeard(c) ==
  sock[c].gone # "no" => \/ Told(c, {sock[c].gone})
                         \/ sock[c].gone = "hup" /\ conn[c].peer_eof

(* Who has output has EPOLLOUT armed, and is told when the socket can take *)
(* some.  (Not after the 408 of a tick, which does not set the mask.)      *)
OutputHeard(c) ==
  conn[c].out # <<>> =>
    /\ "out" \in conn[c].applied_mask
    /\ Writable(sock[c]) => Told(c, {"out", "hup", "err"})

Heard(c) ==
  conn[c] # NoConn /\ conn[c].alive =>
    /\ InputHeard(c) /\ InputArmed(c) /\ PeerHeard(c)
    /\ IdleTimeout \/ OutputHeard(c)

(* Inductive with LoopInv, if no EPOLL_CTL_MOD fails.                      *)
HeardInv == \A c \in Client : Heard(c)

(* Nobody has been accepted yet.                                           *)
LEMMA HeardInvInit == Init => HeardInv
  BY DEF Init, HeardInv, Heard

(* What a socket's next state may ask for that the last one did not, its   *)
(* connection is told.                                                     *)
ToldOf(c, s, t) ==
  /\ Readable(t) => Readable(s) \/ "in" \notin conn[c].applied_mask \/ c \in ready'
  /\ Writable(t) => Writable(s) \/ "out" \notin conn[c].applied_mask \/ c \in ready'
  /\ t.gone # "no" => t.gone = s.gone \/ c \in ready'

(* A connection that a step leaves alone.                                  *)
LEMMA StillHeard ==
  ASSUME NEW c, Heard(c), conn'[c] = conn[c],
         c \in ready => c \in ready',
         \A e \in batch.events : e.of = c => e \in batch'.events,
         c \in rescan \cup pending => c \in rescan' \cup pending',
         conn[c] # NoConn => ToldOf(c, sock[c], sock'[c])
  PROVE  Heard(c)'
  <1> SUFFICES ASSUME conn[c] # NoConn, conn[c].alive
               PROVE  Heard(c)'
    BY DEF Heard
  <1>1. \A bits : Told(c, bits) => Told(c, bits)'
    BY DEF Told
  <1>2. InputHeard(c)'
    <2> SUFFICES ASSUME want_read(conn[c])
                 PROVE  /\ "in" \in conn[c].applied_mask
                        /\ \/ c \in rescan' \cup pending'
                           \/ /\ conn[c].in = <<>>
                              /\ Readable(sock'[c]) => Told(c, {"in", "hup", "err"})'
      BY DEF InputHeard
    <2>1. c \in ready' => Told(c, {"in", "hup", "err"})'
      BY DEF Told
    <2> QED
      BY <2>1, <1>1 DEF Heard, InputHeard, ToldOf
  <1>3. InputArmed(c)'
    BY DEF Heard, InputArmed
  <1>4. PeerHeard(c)'
    <2> SUFFICES ASSUME sock'[c].gone # "no", c \notin ready'
                 PROVE  PeerHeard(c)'
      BY DEF PeerHeard, Told
    <2>1. sock'[c].gone = sock[c].gone /\ PeerHeard(c)
      BY DEF ToldOf, Heard
    <2> QED
      BY <2>1 DEF PeerHeard, Told
  <1>5. IdleTimeout \/ OutputHeard(c)'
    <2>1. c \in ready' => Told(c, {"out", "hup", "err"})'
      BY DEF Told
    <2> QED
      BY <2>1, <1>1 DEF Heard, OutputHeard, ToldOf
  <1> QED
    BY <1>2, <1>3, <1>4, <1>5 DEF Heard

(* A socket that a step leaves alone.                                      *)
LEMMA SameSocket ==
  ASSUME NEW c
  PROVE  ToldOf(c, sock[c], sock[c])
  BY DEF ToldOf

(* A step that leaves them all alone.                                      *)
LEMMA QuietHeard ==
  ASSUME HeardInv, UNCHANGED <<conn, sock, ready>>,
         batch.events \subseteq batch'.events,
         rescan \cup pending \subseteq rescan' \cup pending'
  PROVE  HeardInv'
  <1>1. ASSUME NEW c \in Client
        PROVE  Heard(c)'
    BY StillHeard, SameSocket DEF HeardInv
  <1> QED
    BY <1>1 DEF HeardInv

(* Clients and signals: what changes a socket is an edge.                  *)
LEMMA EnvHeard ==
  ASSUME LoopInv, HeardInv, EnvStep
  PROVE  HeardInv'
  <1>0. KernelType /\ Identity /\ Bounded
    BY TypeParts DEF LoopInv
  <1>1. conn' = conn /\ batch' = batch /\ rescan' = rescan /\ pending' = pending
    BY EnvFrame DEF loopVars
  <1>2. CASE RaiseSignal
    BY <1>1, <1>2, QuietHeard DEF RaiseSignal
  <1>3. ASSUME NEW c \in Client, Connect(c)
        PROVE  HeardInv'
    BY <1>1, <1>3, QuietHeard DEF Connect
  <1>4. ASSUME NEW c \in Client, NEW s, NEW bit, sock' = [sock EXCEPT ![c] = s],
               Edge(c, bit),
               Readable(s) => Readable(sock[c]) \/ bit \in {"in", "dead"},
               Writable(s) => Writable(sock[c]) \/ bit \in {"out", "dead"},
               s.gone # "no" => s.gone = sock[c].gone \/ bit = "dead"
        PROVE  HeardInv'
    <2>1. /\ sock'[c] = s /\ \A d \in Client : d # c => sock'[d] = sock[d]
      BY <1>0, <1>4 DEF KernelType
    <2>2. ready \subseteq ready'
      BY <1>4 DEF Edge
    <2>3. conn[c] # NoConn => ToldOf(c, sock[c], s)
      <3> SUFFICES ASSUME conn[c] # NoConn
                   PROVE  ToldOf(c, sock[c], s)
        OBVIOUS
      <3>1. bit = "dead" \/ bit \in conn[c].applied_mask => c \in ready'
        BY <1>0, <1>4 DEF Edge, Identity
      <3> QED
        BY <3>1, <1>4 DEF ToldOf
    <2>4. ASSUME NEW d \in Client
          PROVE  Heard(d)'
      <3>1. conn[d] # NoConn => ToldOf(d, sock[d], sock'[d])
        BY <2>1, <2>3, SameSocket
      <3> QED
        BY <3>1, <2>2, <1>1, StillHeard DEF HeardInv
    <2> QED
      BY <2>4 DEF HeardInv
  <1>5. ASSUME NEW c \in Client
        PROVE  /\ sock[c] \in SockState /\ Len(sock[c].snd) <= SendBuffer
               /\ sock[c].snd \in Seq(Response)
    BY <1>0 DEF KernelType, SockState, Bounded, SocketBounded
  <1>6. ASSUME NEW c \in Client, Send(c)
        PROVE  HeardInv'
    <2> DEFINE more == Append(sock[c].rcv, Head(script[c]))
               s == [sock[c] EXCEPT !.rcv = more]
    <2>1. sock' = [sock EXCEPT ![c] = s] /\ Edge(c, "in")
      BY <1>0, <1>6 DEF Send, KernelType
    <2>2. s.snd = sock[c].snd /\ s.gone = sock[c].gone
      BY <1>5 DEF SockState
    <2> HIDE DEF s
    <2> QED
      BY <2>1, <2>2, <1>4 DEF Writable
  <1>7. ASSUME NEW c \in Client, HalfClose(c)
        PROVE  HeardInv'
    <2> DEFINE s == [sock[c] EXCEPT !.fin = TRUE]
    <2>1. sock' = [sock EXCEPT ![c] = s] /\ Edge(c, "in")
      BY <1>0, <1>7 DEF HalfClose, KernelType
    <2>2. s.snd = sock[c].snd /\ s.gone = sock[c].gone
      BY <1>5 DEF SockState
    <2> HIDE DEF s
    <2> QED
      BY <2>1, <2>2, <1>4 DEF Writable
  <1>8. ASSUME NEW c \in Client, Vanish(c)
        PROVE  HeardInv'
    <2>1. PICK g : sock' = [sock EXCEPT ![c].gone = g]
      BY <1>8 DEF Vanish
    <2> DEFINE s == [sock[c] EXCEPT !.gone = g]
    <2>2. sock' = [sock EXCEPT ![c] = s] /\ Edge(c, "dead")
      BY <2>1, <1>0, <1>8 DEF Vanish, KernelType
    <2> HIDE DEF s
    <2> QED
      BY <2>2, <1>4
  <1>9. ASSUME NEW c \in Client, Read(c)
        PROVE  HeardInv'
    <2> DEFINE got1 == Append(sock[c].got, Head(sock[c].snd))
               s == [sock[c] EXCEPT !.got = got1, !.snd = Tail(sock[c].snd)]
    <2>1. sock' = [sock EXCEPT ![c] = s] /\ Edge(c, "out")
      BY <1>0, <1>9 DEF Read, KernelType
    <2>2. s.rcv = sock[c].rcv /\ s.gone = sock[c].gone /\ s.fin = sock[c].fin
      BY <1>5 DEF SockState
    <2> HIDE DEF s
    <2> QED
      BY <2>1, <2>2, <1>4 DEF Readable
  <1> QED
    BY <1>2, <1>3, <1>6, <1>7, <1>8, <1>9 DEF EnvStep, ClientStep

-----------------------------------------------------------------------------
(* HeardInv, where no EPOLL_CTL_MOD fails.  First the callbacks.           *)

(* EPOLLOUT is asked for exactly when there is output.                     *)
LEMMA WriteInterest ==
  ASSUME NEW d
  PROVE  "out" \in interest_mask(d) <=> d.alive /\ d.out # <<>>
  BY DEF interest_mask, want_write

(* A socket that takes no more is not reported writable.                   *)
LEMMA FullIsBlocked ==
  ASSUME NEW s, Full(s)
  PROVE  ~Writable(s)
  BY SMT, ConnectionAssumption DEF Full, Writable

(* What is to hold of the k a callback returns: all input has been read or *)
(* is told of, and so is a dead peer; and output is told of, unless        *)
(* EPOLL_CTL_MOD is about to look.                                         *)
Responds(c, k) ==
  /\ want_read(k.c) /\ "in" \in conn[c].applied_mask =>
       \/ c \in rescan
       \/ k.c.in = <<>> /\ (Readable(k.s) => c \in ready)
  /\ k.c.alive /\ k.s.gone # "no" =>
       c \in ready \/ (k.s.gone = "hup" /\ k.c.peer_eof)
  /\ \/ IdleTimeout
     \/ k.c.alive /\ k.c.out # <<>> /\ Writable(k.s) =>
          c \in ready \/ interest_mask(k.c) # conn[c].applied_mask

(* set_interest(): a new mask is looked at again, and new interest in      *)
(* input re-scanned.                                                       *)
LEMMA SettleMask ==
  ASSUME "mod" \notin Faults, ObjectType, NEW c \in Client, NEW k, Sound(k),
         Settle(c, k)
  PROVE  IF finished(k.c) THEN conn'[c] = k.c
         ELSE /\ conn'[c].applied_mask = interest_mask(k.c)
              /\ "in" \in interest_mask(k.c) \ k.c.applied_mask => c \in rescan'
              /\ /\ interest_mask(k.c) # k.c.applied_mask
                 /\ "out" \in interest_mask(k.c) /\ Writable(k.s)
                 => c \in ready'
  <1> DEFINE want == interest_mask(k.c)
             d == [k.c EXCEPT !.applied_mask = want]
  <1>0. k.c \in ConnState /\ conn \in [Client -> ConnState \cup {NoConn}]
    BY ParcelTypes DEF Sound, ObjectType
  <1>1. CASE finished(k.c)
    BY <1>0, <1>1 DEF Settle
  <1>2. CASE ~finished(k.c)
    <2>1. set_interest(c, k)
      BY <1>2 DEF Settle, ModFails
    <2>2. /\ conn' = [conn EXCEPT ![c] = d]
          /\ "in" \in want \ k.c.applied_mask => c \in rescan'
          /\ want # k.c.applied_mask /\ "out" \in want /\ Writable(k.s) => c \in ready'
      BY <2>1 DEF set_interest, Rearmed, ModReports
    <2> HIDE DEF want
    <2>3. d.applied_mask = want
      BY <1>0 DEF ConnState
    <2> HIDE DEF d
    <2>4. conn'[c].applied_mask = want
      BY <2>2, <2>3, <1>0
    <2> QED
      BY <2>2, <2>4, <1>2 DEF want
  <1> QED
    BY <1>1, <1>2

(* A callback that responds, and what follows it.                          *)
LEMMA SettleHeard ==
  ASSUME "mod" \notin Faults, LoopInv, HeardInv, NEW c \in Client,
         conn[c] # NoConn, NEW k, Keeps(Here(c), k), Responds(c, k), Settle(c, k),
         \A e \in batch.events : e.of # c => e \in batch'.events,
         pending \ {c} \subseteq pending'
  PROVE  HeardInv'
  <1>0. KernelType /\ ObjectType
    BY TypeParts DEF LoopInv
  <1>1. /\ Sound(k) /\ SameConnection(conn[c], k.c)
        /\ conn \in [Client -> ConnState \cup {NoConn}]
        /\ sock \in [Client -> SockState]
    BY <1>0, HereIsSound DEF Keeps, KernelType, ObjectType
  <1>2. Alike(k.c, conn'[c]) /\ Settled(c, k)
    BY <1>0, <1>1, SettleAlike, SettleFacts
  <1>3. /\ conn' = [conn EXCEPT ![c] = conn'[c]] /\ sock' = [sock EXCEPT ![c] = k.s]
        /\ ready \subseteq ready' /\ rescan \subseteq rescan'
    BY <1>2 DEF Settled, Settle
  <1>4. /\ sock'[c] = k.s
        /\ \A d \in Client : d # c => conn'[d] = conn[d] /\ sock'[d] = sock[d]
    BY <1>1, <1>3
  <1>5. ASSUME NEW d \in Client, d # c
        PROVE  Heard(d)'
    <2>1. /\ conn'[d] = conn[d] /\ sock'[d] = sock[d] /\ Heard(d)
          /\ d \in ready => d \in ready'
          /\ \A e \in batch.events : e.of = d => e \in batch'.events
          /\ d \in rescan \cup pending => d \in rescan' \cup pending'
      BY <1>3, <1>4, <1>5 DEF HeardInv
    <2> QED
      BY <2>1, StillHeard, SameSocket
  <1>6. ASSUME conn'[c].alive
        PROVE  InputHeard(c)' /\ InputArmed(c)'
    <2>1. /\ want_read(conn'[c]) = want_read(k.c) /\ conn'[c].in = k.c.in
          /\ conn'[c].close_after = k.c.close_after /\ k.c.alive
          /\ conn[c].applied_mask = k.c.applied_mask
      BY <1>1, <1>2, <1>6 DEF Settled, Alike, SameConnection
    <2>2. CASE finished(k.c)
      <3>1. conn'[c].close_after /\ ~want_read(conn'[c])
        BY <2>1, <2>2 DEF finished, want_read
      <3> QED
        BY <3>1 DEF InputHeard, InputArmed
    <2>3. CASE ~finished(k.c)
      <3>1. /\ conn'[c].applied_mask = interest_mask(k.c)
            /\ "in" \in interest_mask(k.c) \ k.c.applied_mask => c \in rescan'
            /\ "in" \in interest_mask(k.c) <=> want_read(k.c)
        BY <2>3, <1>0, <1>1, SettleMask, InterestFacts
      <3>2. InputArmed(c)'
        BY <3>1, <2>1 DEF InputArmed
      <3>3. ASSUME want_read(k.c)
            PROVE  \/ c \in rescan'
                   \/ conn'[c].in = <<>> /\ (Readable(sock'[c]) => c \in ready')
        BY <3>1, <3>3, <2>1, <1>3, <1>4 DEF Responds
      <3>4. InputHeard(c)'
        BY <3>1, <3>3, <2>1 DEF InputHeard, Told
      <3> QED
        BY <3>2, <3>4
    <2> QED
      BY <2>2, <2>3
  <1>7. ASSUME conn'[c].alive
        PROVE  PeerHeard(c)'
    <2>1. k.c.alive /\ conn'[c].peer_eof = k.c.peer_eof
      BY <1>2, <1>7 DEF Alike
    <2>2. k.s.gone # "no" => c \in ready' \/ (k.s.gone = "hup" /\ conn'[c].peer_eof)
      BY <2>1, <1>3 DEF Responds
    <2> QED
      BY <2>2, <1>4 DEF PeerHeard, Told
  <1>8. ASSUME conn'[c].alive, ~IdleTimeout
        PROVE  OutputHeard(c)'
    <2>1. /\ k.c.alive /\ conn'[c].out = k.c.out
          /\ conn[c].applied_mask = k.c.applied_mask
      BY <1>1, <1>2, <1>8 DEF Alike, SameConnection
    <2> SUFFICES ASSUME k.c.out # <<>>
                 PROVE  /\ "out" \in conn'[c].applied_mask
                        /\ Writable(k.s) => c \in ready'
      BY <2>1, <1>4 DEF OutputHeard, Told
    <2>2. ~finished(k.c) /\ "out" \in interest_mask(k.c)
      BY <2>1, WriteInterest DEF finished
    <2>3. /\ conn'[c].applied_mask = interest_mask(k.c)
          /\ interest_mask(k.c) # k.c.applied_mask /\ Writable(k.s) => c \in ready'
      BY <2>2, <1>0, <1>1, SettleMask
    <2> QED
      BY <2>1, <2>2, <2>3, <1>3, <1>8 DEF Responds
  <1>9. Heard(c)'
    BY <1>6, <1>7, <1>8 DEF Heard
  <1> QED
    BY <1>5, <1>9 DEF HeardInv

(* A method that reads nothing: who wants input afterwards wanted it       *)
(* before, as far as EPOLLIN was armed, and is told of what it was.        *)
LEMMA UnreadIsHeard ==
  ASSUME NEW c, conn[c] # NoConn, Heard(c), NEW k \in K, SameInput(Here(c), k),
         Proceeds(Here(c), k), SameConnection(conn[c], k.c),
         want_read(k.c), "in" \in conn[c].applied_mask
  PROVE  /\ want_read(conn[c])
         /\ \/ c \in rescan \cup pending
            \/ /\ k.c.in = <<>>
               /\ Readable(k.s) => Told(c, {"in", "hup", "err"})
  <1>0. Here(c).c = conn[c] /\ Here(c).s = sock[c]
    BY DEF Here
  <1>1. k.c.alive /\ ~k.c.close_after /\ ~k.c.draining
    BY DEF want_read
  <1>2. MaxOutput # 0
    <2>1. k.c.out \in Seq(Response)
      BY ParcelTypes DEF ConnState
    <2>2. Len(k.c.out) \in Nat
      BY <2>1, SeqElements
    <2>3. Len(k.c.out) < MaxOutput
      BY DEF want_read
    <2> QED
      BY SMT, <2>2, <2>3
  <1>3. conn[c].alive /\ ~conn[c].close_after /\ ~conn[c].draining
    BY <1>0, <1>1 DEF Proceeds, SameConnection
  <1>4. InputHeard(c) /\ InputArmed(c)
    BY <1>3 DEF Heard
  <1>5. want_read(conn[c])
    BY <1>2, <1>3, <1>4 DEF InputArmed
  <1>6. /\ k.c.in = conn[c].in /\ k.s.rcv = sock[c].rcv
        /\ k.s.fin = sock[c].fin /\ k.s.gone = sock[c].gone
    BY <1>0, <1>1 DEF SameInput, Proceeds
  <1> QED
    BY <1>4, <1>5, <1>6 DEF InputHeard, Readable

(* A method that writes nothing, too.                                      *)
LEMMA UnsentIsHeard ==
  ASSUME NEW c, conn[c] # NoConn, Heard(c), NEW k, SameOutput(Here(c), k),
         Proceeds(Here(c), k), k.c.alive, k.c.out # <<>>, Writable(k.s), ~IdleTimeout
  PROVE  Told(c, {"out", "hup", "err"})
  <1>0. Here(c).c = conn[c] /\ Here(c).s = sock[c]
    BY DEF Here
  <1>1. /\ conn[c].alive /\ conn[c].out # <<>> /\ Writable(sock[c])
    BY <1>0 DEF SameOutput, Proceeds, Writable
  <1> QED
    BY <1>1 DEF Heard, OutputHeard

(* on_readable() of a connection that wanted input.                        *)
LEMMA ReadIsHeard ==
  ASSUME Contract, LoopInv, HeardInv, NEW c \in Client, conn[c] # NoConn,
         want_read(conn[c]), NEW k, k = on_readable(Here(c), c, Pool!Accepts)
  PROVE  /\ Sound(k) /\ Proceeds(Here(c), k) /\ SameConnection(conn[c], k.c)
         /\ Listening(k.c) => /\ Silent(k)
                              /\ Flushed(k) \/ SameOutput(Here(c), k)
         /\ ~Listening(k.c) => interest_mask(k.c) # conn[c].applied_mask
  <1>1. Sound(Here(c)) /\ Here(c).c = conn[c] /\ Pool!Accepts \in BOOLEAN
    BY HereIsSound DEF Pool!Accepts
  <1>2. ReadableContract /\ Here(c) \in K
    BY <1>1 DEF Contract, Sound
  <1>3. Keeps(Here(c), k) /\ Serves(Here(c), k, c)
    BY <1>1, <1>2 DEF ReadableContract
  <1>4. Listening(k.c) => Silent(k) /\ (Flushed(k) \/ SameOutput(Here(c), k))
    BY <1>1, <1>2 DEF ReadableContract
  <1>5. "in" \in conn[c].applied_mask
    BY DEF HeardInv, Heard, InputHeard, want_read
  <1>6. ~Listening(k.c) => "in" \notin interest_mask(k.c)
    BY InterestFacts DEF want_read, Listening
  <1> QED
    BY <1>1, <1>3, <1>4, <1>5, <1>6 DEF Keeps, Serves

(* Who has read all there is hears of no more.                             *)
LEMMA SilentIsRead ==
  ASSUME NEW k, Silent(k)
  PROVE  k.c.in = <<>> /\ ~Readable(k.s)
  BY DEF Silent, Readable

(* A peer that was told of, or known, stays so.                            *)
LEMMA PeerStaysHeard ==
  ASSUME NEW c, conn[c] # NoConn, Heard(c), NEW k, Proceeds(Here(c), k),
         k.c.alive, k.s.gone # "no"
  PROVE  Told(c, {k.s.gone}) \/ (k.s.gone = "hup" /\ k.c.peer_eof)
  BY DEF Here, Heard, PeerHeard, Proceeds

(* The callback of an event, which is the last about its connection.       *)
LEMMA EventResponds ==
  ASSUME Contract, LoopInv, HeardInv, pc = "events", NEW e \in batch.events,
         NEW c \in Client, c = e.of, conn[c] # NoConn,
         NEW k, k = Callback(c, e.ev)
  PROVE  Responds(c, k)
  <1>0. BatchOK /\ RescanOK /\ PhaseType /\ KernelType /\ Heard(c)
    BY TypeParts DEF LoopInv, HeardInv
  <1>1. /\ Sound(Here(c)) /\ Here(c) \in K /\ Here(c).c = conn[c]
        /\ Here(c).s = sock[c]
    BY HereIsSound DEF Sound
  <1>2. /\ e.ev \in SUBSET {"in", "out", "hup", "err"}
        /\ sock[c].gone \in {"no", "hup", "err"}
    BY <1>0 DEF PhaseType, Event, KernelType, SockState
  <1>3. c \notin rescan \cup pending
    BY <1>0 DEF RescanOK
  <1>4. ASSUME NEW bits, Told(c, bits)
        PROVE  c \in ready \/ \E bit \in bits : bit \in e.ev
    <2>1. c \in ready \/ e.ev \cap bits # {}
      BY <1>0, <1>4 DEF BatchOK, Told
    <2> QED
      BY <2>1
  <1>5. CASE e.ev \cap {"err", "hup"} # {}
    <2>1. k = on_hangup(Here(c), e.ev)
      BY <1>5 DEF Callback
    <2>2. HangupContract
      BY DEF Contract
    <2> SUFFICES ASSUME k.c.alive
                 PROVE  Responds(c, k)
      BY DEF Responds, want_read
    <2>3. /\ "err" \notin e.ev /\ k.c.close_after /\ k.c.peer_eof /\ Flushed(k)
      BY ZenonT(30), <2>1, <2>2, <1>1, <1>2 DEF HangupContract
    <2>4. Proceeds(Here(c), k)
      BY ZenonT(30), <2>1, <2>2, <2>3, <1>1, <1>2 DEF HangupContract, Serves
    <2>5. k.s.gone # "no" => c \in ready \/ k.s.gone = "hup"
      <3> SUFFICES ASSUME k.s.gone # "no", c \notin ready
                   PROVE  k.s.gone = "hup"
        OBVIOUS
      <3>1. Told(c, {k.s.gone}) => k.s.gone \in e.ev
        BY SMT, <1>4
      <3>2. k.s.gone \in {"hup", "err"}
        BY <2>4, <1>1, <1>2 DEF Proceeds
      <3> QED
        BY <3>1, <3>2, <2>3, <2>4, <1>0, PeerStaysHeard
    <2>6. k.c.out # <<>> => ~Writable(k.s)
      BY <2>3, FullIsBlocked DEF Flushed
    <2> QED
      BY <2>3, <2>5, <2>6 DEF Responds, want_read
  <1>6. CASE e.ev \cap {"err", "hup"} = {}
    <2>1. PICK m : m = IF "in" \in e.ev THEN on_readable(Here(c), c, Pool!Accepts)
                       ELSE Here(c)
      OBVIOUS
    <2>2. k = IF m.c.alive /\ "out" \in e.ev THEN on_writable(m) ELSE m
      BY <2>1, <1>6 DEF Callback
    <2>3. "hup" \notin e.ev /\ "err" \notin e.ev
      BY <1>6
    <2>4. m = Here(c) \/ (want_read(conn[c]) /\ m = on_readable(Here(c), c, Pool!Accepts))
      BY <2>1, <1>1 DEF on_readable
    <2>5. m = Here(c) => "in" \notin e.ev \/ ~want_read(conn[c])
                         \/ m = on_readable(Here(c), c, Pool!Accepts)
      BY <2>1
    <2>6. Sound(m) /\ Proceeds(Here(c), m) /\ SameConnection(conn[c], m.c)
      <3>1. CASE m = Here(c)
        BY <3>1, <1>1 DEF Proceeds, SameConnection
      <3> QED
        BY <3>1, <2>4, ReadIsHeard
    <2>7. /\ SameInput(m, k) /\ Proceeds(m, k) /\ SameConnection(m.c, k.c)
          /\ SameRequest(m.c, k.c) /\ Sound(k)
          /\ k # m => Flushed(k)
          /\ k.c.alive /\ "out" \in e.ev => Flushed(k)
      <3>1. CASE m.c.alive /\ "out" \in e.ev
        <4>1. k = on_writable(m) /\ WritableContract /\ m \in K
          BY <3>1, <2>2, <2>6 DEF Contract, Sound
        <4>2. Serves(m, k, c)
          BY <4>1, <2>6 DEF WritableContract
        <4> QED
          BY <4>1, <4>2, <2>6 DEF WritableContract, Keeps, Serves
      <3>2. CASE ~(m.c.alive /\ "out" \in e.ev)
        <4>1. k = m
          BY <3>2, <2>2
        <4> QED
          BY <4>1, <3>2, <2>6 DEF SameInput, Proceeds, SameConnection, SameRequest
      <3> QED
        BY <3>1, <3>2
    <2> SUFFICES ASSUME k.c.alive
                 PROVE  Responds(c, k)
      BY DEF Responds, want_read
    <2>8. /\ Proceeds(Here(c), k) /\ SameConnection(conn[c], k.c) /\ k \in K
          /\ m.c.alive
      BY <2>6, <2>7 DEF Proceeds, SameConnection, Sound
    <2>9. k.s.gone # "no" => c \in ready \/ (k.s.gone = "hup" /\ k.c.peer_eof)
      <3> SUFFICES ASSUME k.s.gone # "no"
                   PROVE  c \in ready \/ (k.s.gone = "hup" /\ k.c.peer_eof)
        OBVIOUS
      <3>1. k.s.gone \in {"hup", "err"}
        BY <2>8, <1>1, <1>2 DEF Proceeds
      <3>2. Told(c, {k.s.gone}) => c \in ready
        BY SMT, <3>1, <2>3, <1>4
      <3> QED
        BY <3>2, <2>8, <1>0, PeerStaysHeard
    <2>10. ASSUME want_read(k.c), "in" \in conn[c].applied_mask
           PROVE  k.c.in = <<>> /\ (Readable(k.s) => c \in ready)
      <3>1. CASE want_read(conn[c]) /\ m = on_readable(Here(c), c, Pool!Accepts)
        <4>1. Listening(m.c)
          BY <2>7, <2>10 DEF want_read, Listening, Proceeds, SameRequest
        <4>2. Silent(m)
          BY <3>1, <4>1, ReadIsHeard
        <4>3. Silent(k)
          BY <4>2, <2>7 DEF Silent, SameInput, Proceeds
        <4> QED
          BY <4>3, SilentIsRead
      <3>2. CASE m = Here(c) /\ ~(want_read(conn[c]) /\ m = on_readable(Here(c), c, Pool!Accepts))
        <4>1. SameInput(Here(c), k)
          BY <3>2, <2>7
        <4>2. /\ want_read(conn[c])
              /\ k.c.in = <<>> /\ (Readable(k.s) => Told(c, {"in", "hup", "err"}))
          BY <4>1, <2>8, <2>10, <1>0, <1>3, UnreadIsHeard
        <4>3. "in" \notin e.ev
          BY <4>2, <3>2, <2>5
        <4>4. Told(c, {"in", "hup", "err"}) => c \in ready
          BY SMT, <4>3, <2>3, <1>4
        <4> QED
          BY <4>2, <4>4
      <3> QED
        BY <3>1, <3>2, <2>4
    <2>11. ASSUME ~IdleTimeout, k.c.out # <<>>, Writable(k.s)
           PROVE  c \in ready \/ interest_mask(k.c) # conn[c].applied_mask
      <3>1. ~Flushed(k)
        BY <2>11, FullIsBlocked DEF Flushed
      <3>2. k = m /\ "out" \notin e.ev
        BY <3>1, <2>7
      <3>3. CASE SameOutput(Here(c), k)
        <4>1. Told(c, {"out", "hup", "err"})
          BY <3>3, <2>8, <2>11, <1>0, UnsentIsHeard
        <4> QED
          BY SMT, <4>1, <3>2, <2>3, <1>4
      <3>4. CASE ~SameOutput(Here(c), k)
        <4>1. m # Here(c)
          BY <3>2, <3>4 DEF SameOutput
        <4>2. interest_mask(m.c) # conn[c].applied_mask
          BY <4>1, <3>1, <3>2, <3>4, <2>4, ReadIsHeard
        <4> QED
          BY <4>2, <3>2
      <3> QED
        BY <3>3, <3>4
    <2> QED
      BY <2>9, <2>10, <2>11 DEF Responds
  <1> QED
    BY <1>5, <1>6

(* After the events of an iteration, only the ready list tells.            *)
LEMMA ReadyTells ==
  ASSUME batch.events = {}, NEW c, NEW bits
  PROVE  Told(c, bits) <=> c \in ready
  BY DEF Told

(* A result, whose connection may await a re-scan.                         *)
LEMMA ResultResponds ==
  ASSUME Contract, LoopInv, HeardInv, pc = "completions", NEW c \in Client,
         conn[c] # NoConn, NEW r \in Response, NEW seq \in Nat,
         Answering(r, c, seq), NEW k, k = on_worker_result(Here(c), r, seq)
  PROVE  Responds(c, k)
  <1>0. batch.events = {} /\ pending = {} /\ Heard(c)
    BY DEF LoopInv, HeardInv, BatchOK, RescanOK, InBatch
  <1>1. Sound(Here(c)) /\ Here(c) \in K /\ Here(c).c = conn[c]
    BY HereIsSound DEF Sound
  <1>2. ResultContract
    BY DEF Contract
  <1>3. Keeps(Here(c), k) /\ Serves(Here(c), k, c)
    BY <1>1, <1>2 DEF ResultContract
  <1>4. SameInput(Here(c), k) /\ (Flushed(k) \/ SameOutput(Here(c), k))
    BY <1>1, <1>2 DEF ResultContract
  <1>5. k \in K /\ Proceeds(Here(c), k) /\ SameConnection(conn[c], k.c)
    BY <1>1, <1>3 DEF Keeps, Sound, Serves
  <1>6. ASSUME want_read(k.c), "in" \in conn[c].applied_mask
        PROVE  c \in rescan \/ (k.c.in = <<>> /\ (Readable(k.s) => c \in ready))
    <2>1. \/ c \in rescan \cup pending
          \/ k.c.in = <<>> /\ (Readable(k.s) => Told(c, {"in", "hup", "err"}))
      BY <1>0, <1>4, <1>5, <1>6, UnreadIsHeard
    <2> QED
      BY <2>1, <1>0, ReadyTells
  <1>7. ASSUME k.c.alive, k.s.gone # "no"
        PROVE  c \in ready \/ (k.s.gone = "hup" /\ k.c.peer_eof)
    BY <1>0, <1>5, <1>7, PeerStaysHeard, ReadyTells
  <1>8. ASSUME ~IdleTimeout, k.c.alive, k.c.out # <<>>, Writable(k.s)
        PROVE  c \in ready
    <2>1. ~Flushed(k)
      BY <1>8, FullIsBlocked DEF Flushed
    <2> QED
      BY <2>1, <1>0, <1>4, <1>5, <1>8, UnsentIsHeard, ReadyTells
  <1> QED
    BY <1>6, <1>7, <1>8 DEF Responds

(* A re-scan.                                                              *)
LEMMA RescanResponds ==
  ASSUME Contract, LoopInv, HeardInv, pc = "rescan", NEW c \in Client,
         conn[c] # NoConn, want_read(conn[c]),
         NEW k, k = on_readable(Here(c), c, Pool!Accepts)
  PROVE  Responds(c, k)
  <1>0. batch.events = {} /\ Heard(c)
    BY DEF LoopInv, HeardInv, BatchOK, InBatch
  <1>1. /\ Proceeds(Here(c), k)
        /\ Listening(k.c) => Silent(k) /\ (Flushed(k) \/ SameOutput(Here(c), k))
        /\ ~Listening(k.c) => interest_mask(k.c) # conn[c].applied_mask
    BY ReadIsHeard
  <1>2. ASSUME want_read(k.c)
        PROVE  k.c.in = <<>> /\ ~Readable(k.s)
    <2>1. Listening(k.c)
      BY <1>2 DEF want_read, Listening
    <2> QED
      BY <2>1, <1>1, SilentIsRead
  <1>3. ASSUME k.c.alive, k.s.gone # "no"
        PROVE  c \in ready \/ (k.s.gone = "hup" /\ k.c.peer_eof)
    BY <1>0, <1>1, <1>3, PeerStaysHeard, ReadyTells
  <1>4. ASSUME ~IdleTimeout, k.c.alive, k.c.out # <<>>, Writable(k.s), Listening(k.c)
        PROVE  c \in ready
    <2>1. ~Flushed(k)
      BY <1>4, FullIsBlocked DEF Flushed
    <2> QED
      BY <2>1, <1>0, <1>1, <1>4, UnsentIsHeard, ReadyTells
  <1> QED
    BY <1>1, <1>2, <1>3, <1>4 DEF Responds

(* Every callback.                                                         *)
LEMMA SettlingHeard ==
  ASSUME "mod" \notin Faults, Contract, LoopInv, AnswerInv, HeardInv, SettlingStep
  PROVE  HeardInv'
  <1>0. BatchOK /\ Identity /\ RescanOK /\ ObjectType /\ PhaseType
    BY TypeParts DEF LoopInv
  <1>1. ASSUME NEW e \in batch.events, ConnectionEvent(e)
        PROVE  HeardInv'
    <2>1. PICK c : c = conns[e.fd]
      OBVIOUS
    <2>2. PICK k : k = Callback(c, e.ev)
      OBVIOUS
    <2>3. c = e.of /\ c \in Client /\ c # NoClient /\ conn[c] # NoConn
      BY SMT, <2>1, <1>0, LoopAssumption DEF PhaseType, Event, BatchOK, Identity
    <2>4. /\ pc = "events" /\ Settle(c, k) /\ pending' = pending
          /\ batch' = [batch EXCEPT !.events = @ \ {e}]
      BY <2>1, <2>2, <2>3, <1>1 DEF ConnectionEvent
    <2>5. \A f \in batch.events : f.of # c => f \in batch'.events
      BY <2>3, <2>4, <1>0 DEF PhaseType
    <2>6. e.ev \in SUBSET {"in", "out", "hup", "err"}
      BY <1>0 DEF PhaseType, Event
    <2>7. Keeps(Here(c), k)
      BY <2>2, <2>3, <2>6, CallbackKeeps
    <2>8. Responds(c, k)
      BY <2>2, <2>3, <2>4, EventResponds
    <2> QED
      BY <2>3, <2>4, <2>5, <2>7, <2>8, SettleHeard
  <1>2. ASSUME ApplyCompletion
        PROVE  HeardInv'
    <2>1. PICK r : r = Head(finishing)
      OBVIOUS
    <2>2. PICK c : c = r.conn
      OBVIOUS
    <2>3. PICK k : k = on_worker_result(Here(c), r.response, r.seq)
      OBVIOUS
    <2>4. /\ pc = "completions" /\ finishing # <<>>
          /\ batch' = batch /\ pending' = pending
      BY <1>2 DEF ApplyCompletion
    <2>5. r \in Completion /\ Answering(r.response, c, r.seq)
      BY <2>1, <2>2, <2>4, <1>0, SeqHeadTail, ResultFacts DEF PhaseType, AnswerInv
    <2>6. c \in Client /\ r.response \in Response /\ r.seq \in Nat
      BY <2>2, <2>5 DEF Completion
    <2>7. CASE conn[c] = NoConn
      BY <2>1, <2>2, <2>4, <2>7, <1>2, QuietHeard DEF ApplyCompletion
    <2>8. CASE conn[c] # NoConn
      <3>1. Sound(Here(c)) /\ Settle(c, k)
        BY <2>1, <2>2, <2>3, <2>6, <2>8, <1>2, HereIsSound DEF ApplyCompletion
      <3>2. Keeps(Here(c), k)
        BY <3>1, <2>3, <2>6 DEF Contract, ResultContract, Sound
      <3>3. Responds(c, k)
        BY <2>3, <2>4, <2>5, <2>6, <2>8, ResultResponds
      <3> QED
        BY <3>1, <3>2, <3>3, <2>4, <2>6, <2>8, SettleHeard
    <2> QED
      BY <2>7, <2>8
  <1>3. ASSUME NEW c \in Client, Rescan(c)
        PROVE  HeardInv'
    <2>1. PICK k : k = on_readable(Here(c), c, Pool!Accepts)
      OBVIOUS
    <2>2. /\ pc = "rescan" /\ c \in pending /\ pending' = pending \ {c}
          /\ batch' = batch
      BY <1>3 DEF Rescan
    <2>3. conn[c] # NoConn /\ want_read(conn[c]) /\ Settle(c, k)
      BY <2>1, <2>2, <1>0, <1>3 DEF RescanOK, Rescan
    <2>4. Sound(Here(c)) /\ Pool!Accepts \in BOOLEAN
      BY <2>3, HereIsSound DEF Pool!Accepts
    <2>5. Keeps(Here(c), k)
      BY <2>1, <2>4 DEF Contract, ReadableContract, Sound
    <2>6. Responds(c, k)
      BY <2>1, <2>2, <2>3, RescanResponds
    <2> QED
      BY <2>2, <2>3, <2>5, <2>6, SettleHeard
  <1> QED
    BY <1>1, <1>2, <1>3 DEF SettlingStep

(* Who survives a reaping keeps its pending event.                         *)
LEMMA ReapKeepsReady ==
  ASSUME NEW fds, Reap(fds), NEW c \in Client, Survives(c, fds), c \in ready
  PROVE  c \in ready'
  BY DEF Reap, Survives

LEMMA ReapHeard ==
  ASSUME HeardInv, reap_finished
  PROVE  HeardInv'
  <1>1. /\ Reap(reap) /\ sock' = sock /\ batch' = batch
        /\ rescan' = rescan /\ pending' = pending
        /\ conn' = [c \in Client |-> IF Survives(c, reap) THEN conn[c] ELSE NoConn]
    BY DEF reap_finished
  <1>2. ASSUME NEW c \in Client
        PROVE  Heard(c)'
    <2>1. CASE Survives(c, reap)
      <3>1. conn'[c] = conn[c] /\ (c \in ready => c \in ready')
        BY <1>1, <2>1, ReapKeepsReady
      <3> QED
        BY <3>1, <1>1, StillHeard, SameSocket DEF HeardInv
    <2>2. CASE ~Survives(c, reap)
      <3>1. conn'[c] = NoConn
        BY <1>1, <2>2
      <3> QED
        BY <3>1 DEF Heard
    <2> QED
      BY <2>1, <2>2
  <1> QED
    BY <1>2 DEF HeardInv

(* A connection that stops reading, and whose output is as it was.         *)
LEMMA StoppedHeard ==
  ASSUME NEW c, conn[c] # NoConn, Heard(c), NEW k, Proceeds(Here(c), k),
         k.c.applied_mask = conn[c].applied_mask,
         k.c.close_after \/ k.c.draining,
         IdleTimeout \/ SameOutput(Here(c), k),
         conn'[c] = k.c, sock'[c] = k.s, batch' = batch,
         c \in ready => c \in ready'
  PROVE  Heard(c)'
  <1> SUFFICES ASSUME k.c.alive
               PROVE  Heard(c)'
    BY DEF Heard
  <1>1. \A bits : Told(c, bits) => Told(c, bits)'
    BY DEF Told
  <1>2. InputHeard(c)' /\ InputArmed(c)'
    BY DEF InputHeard, InputArmed, want_read
  <1>3. PeerHeard(c)'
    <2>1. k.s.gone # "no" => \/ Told(c, {k.s.gone})'
                             \/ k.s.gone = "hup" /\ k.c.peer_eof
      BY <1>1, PeerStaysHeard
    <2> QED
      BY <2>1 DEF PeerHeard, Told
  <1>4. ASSUME ~IdleTimeout
        PROVE  OutputHeard(c)'
    <2> SUFFICES ASSUME k.c.out # <<>>
                 PROVE  /\ "out" \in k.c.applied_mask
                        /\ Writable(k.s) => Told(c, {"out", "hup", "err"})'
      BY DEF OutputHeard
    <2>1. conn[c].alive /\ conn[c].out # <<>>
      BY <1>4 DEF Here, Proceeds, SameOutput
    <2>2. "out" \in conn[c].applied_mask
      BY <2>1, <1>4 DEF Heard, OutputHeard
    <2>3. Writable(k.s) => Told(c, {"out", "hup", "err"})
      BY <1>4, UnsentIsHeard
    <2> QED
      BY <2>2, <2>3, <1>1
  <1> QED
    BY <1>2, <1>3, <1>4 DEF Heard

(* A tick stops connections, or leaves them alone.                         *)
LEMMA TickHeard ==
  ASSUME Contract, LoopInv, HeardInv, tick
  PROVE  HeardInv'
  <1>1. batch' = batch /\ rescan' = rescan /\ pending' = pending
    BY DEF tick
  <1>2. ASSUME NEW c \in Client, conn'[c] # NoConn, c \in ready
        PROVE  c \in ready'
    <2>1. PICK fds : Reap(fds) /\ Survives(c, fds)
      BY <1>2 DEF tick
    <2> QED
      BY <2>1, <1>2, ReapKeepsReady
  <1>3. ASSUME NEW c \in Client
        PROVE  Heard(c)'
    <2>1. CASE conn'[c] = NoConn
      BY <2>1 DEF Heard
    <2>2. CASE conn'[c] # NoConn
      <3>1. conn[c] # NoConn
        BY <2>2, TickCases
      <3>2. PICK idle \in BOOLEAN : Ticked(c, on_tick(Here(c), idle))
        BY <3>1, TickCases
      <3>3. PICK m : m = on_tick(Here(c), idle)
        OBVIOUS
      <3>4. conn'[c] = m.c /\ sock'[c] = m.s
        BY <2>2, <3>2, <3>3 DEF Ticked
      <3>5. Sound(Here(c)) /\ Here(c).c = conn[c] /\ Here(c).s = sock[c]
        BY <3>1, HereIsSound
      <3>6. TickContract /\ Here(c) \in K
        BY <3>5 DEF Contract, Sound
      <3>7. SameConnection(Here(c).c, m.c) /\ Proceeds(Here(c), m)
        BY <3>3, <3>5, <3>6 DEF TickContract
      <3>8. /\ m = Here(c) \/ m.c.close_after
            /\ IdleTimeout \/ SameOutput(Here(c), m)
        BY <3>3, <3>5, <3>6 DEF TickContract
      <3>9. CASE m = Here(c)
        BY <3>4, <3>5, <3>9, <2>2, <1>1, <1>2, StillHeard, SameSocket DEF HeardInv
      <3>10. CASE m.c.close_after
        BY <3>1, <3>4, <3>5, <3>7, <3>8, <3>10, <2>2, <1>1, <1>2, StoppedHeard
           DEF HeardInv, SameConnection
      <3> QED
        BY <3>8, <3>9, <3>10
    <2> QED
      BY <2>1, <2>2
  <1> QED
    BY <1>3 DEF HeardInv

(* So does a drain.                                                        *)
LEMMA DrainHeard ==
  ASSUME Contract, LoopInv, HeardInv, maybe_begin_drain
  PROVE  HeardInv'
  <1>1. /\ sock' = sock /\ batch' = batch /\ ready' = ready
        /\ conn' = [c \in Client |-> IF c \in Owned THEN begin_draining(conn[c])
                                     ELSE conn[c]]
    BY DEF maybe_begin_drain, kernelVars
  <1>2. ASSUME NEW c \in Client
        PROVE  Heard(c)'
    <2>1. CASE conn[c] = NoConn
      <3>1. conn'[c] = NoConn
        BY <1>1, <2>1, OwnedFacts
      <3> QED
        BY <3>1 DEF Heard
    <2>2. CASE conn[c] # NoConn
      <3>1. PICK d : d = begin_draining(conn[c])
        OBVIOUS
      <3>2. conn'[c] = d /\ sock'[c] = sock[c]
        BY <1>1, <2>2, <3>1, OwnedFacts
      <3>3. /\ Sound(Here(c)) /\ Here(c).c = conn[c] /\ Here(c).s = sock[c]
            /\ conn[c] \in ConnState /\ InputBounded(conn[c]) /\ Here(c) \in K
        BY <2>2, HereIsSound DEF Sound
      <3>4. PICK m : m = [Here(c) EXCEPT !.c = d]
        OBVIOUS
      <3>5. DrainingContract
        BY DEF Contract
      <3>6. /\ d.draining = TRUE /\ d.applied_mask = conn[c].applied_mask
            /\ d.out = conn[c].out /\ Serves(Here(c), m, c)
        BY <3>1, <3>3, <3>4, <3>5 DEF DrainingContract
      <3>7. m.c = d /\ m.s = sock[c]
        BY <3>4 DEF Here
      <3>8. Proceeds(Here(c), m) /\ SameOutput(Here(c), m)
        BY <3>3, <3>6, <3>7 DEF Serves, SameOutput
      <3> QED
        BY <3>2, <3>6, <3>7, <3>8, <2>2, <1>1, StoppedHeard DEF HeardInv
    <2> QED
      BY <2>1, <2>2
  <1> QED
    BY <1>2 DEF HeardInv

(* Who is dismissed never was a connection.                                *)
LEMMA DismissHeard ==
  ASSUME LoopInv, HeardInv, backlog # <<>>, NEW c, c = Head(backlog), NEW s,
         Dismiss(c, s)
  PROVE  HeardInv'
  <1>0. KernelType /\ TypeOK /\ Identity
    BY TypeParts DEF LoopInv
  <1>1. /\ sock' = [sock EXCEPT ![c] = s] /\ ready' = ready /\ conn' = conn
        /\ batch' = batch /\ rescan' = rescan /\ pending' = pending
    BY DEF Dismiss
  <1>2. c \in Client /\ conn[c] = NoConn
    BY <1>0, HeadOfBacklog
  <1>3. \A d \in Client : d # c => sock'[d] = sock[d]
    BY <1>0, <1>1 DEF KernelType
  <1>4. ASSUME NEW d \in Client
        PROVE  Heard(d)'
    <2>1. conn[d] # NoConn => ToldOf(d, sock[d], sock'[d])
      BY <1>2, <1>3, SameSocket
    <2> QED
      BY <2>1, <1>1, StillHeard DEF HeardInv
  <1> QED
    BY <1>4 DEF HeardInv

(* EPOLL_CTL_ADD tells a new connection of what has arrived before it.     *)
LEMMA AdmitHeard ==
  ASSUME LoopInv, HeardInv, NEW fd \in Fd, Admit(fd)
  PROVE  HeardInv'
  <1>1. PICK c : c = Head(backlog)
    OBVIOUS
  <1>0. KernelType /\ ObjectType /\ TypeOK /\ Identity
    BY TypeParts DEF LoopInv
  <1>2. /\ backlog # <<>> /\ conn' = [conn EXCEPT ![c] = NewConn(fd)]
        /\ ready' = IF Readable(sock[c]) THEN ready \cup {c} ELSE ready
        /\ sock' = sock /\ batch' = batch /\ rescan' = rescan /\ pending' = pending
    BY <1>1 DEF Admit
  <1>3. c \in Client
    BY <1>0, <1>1, <1>2, HeadOfBacklog
  <1>4. /\ conn'[c] = NewConn(fd)
        /\ \A d \in Client : d # c => conn'[d] = conn[d]
    BY <1>0, <1>2, <1>3 DEF ObjectType
  <1>5. ASSUME NEW d \in Client, d # c
        PROVE  Heard(d)'
    <2>1. conn'[d] = conn[d] /\ sock'[d] = sock[d] /\ (d \in ready => d \in ready')
      BY <1>2, <1>4, <1>5
    <2> QED
      BY <2>1, <1>2, StillHeard, SameSocket DEF HeardInv
  <1>6. PICK n : n = NewConn(fd)
    OBVIOUS
  <1>7. /\ n.in = <<>> /\ n.out = <<>> /\ n.applied_mask = {"in"}
        /\ n.alive = TRUE /\ n.close_after = FALSE /\ n.peer_eof = FALSE
        /\ n.in_flight = FALSE /\ n.draining = FALSE
    BY <1>6 DEF NewConn
  <1>8. 0 < MaxOutput \/ MaxOutput = 0
    BY SMT, ConnectionAssumption
  <1>9. want_read(n) \/ MaxOutput = 0
    BY <1>7, <1>8, SeqEmpty DEF want_read
  <1>10. Readable(sock[c]) => c \in ready'
    BY <1>2
  <1>11. InputHeard(c)' /\ InputArmed(c)'
    BY <1>2, <1>4, <1>6, <1>7, <1>9, <1>10 DEF InputHeard, InputArmed, Told
  <1>12. PeerHeard(c)'
    <2>1. sock[c].gone # "no" => c \in ready'
      BY <1>10 DEF Readable
    <2> QED
      BY <2>1, <1>2 DEF PeerHeard, Told
  <1>13. OutputHeard(c)'
    BY <1>4, <1>6, <1>7 DEF OutputHeard
  <1>14. Heard(c)'
    BY <1>11, <1>12, <1>13 DEF Heard
  <1> QED
    BY <1>5, <1>14 DEF HeardInv

(* All of accept_batch().                                                  *)
LEMMA AcceptHeard ==
  ASSUME LoopInv, HeardInv, accept_batch
  PROVE  HeardInv'
  <1>1. CASE AcceptDrained \/ AcceptNoDescriptor \/ AcceptBatchFull \/ AcceptError
    <2>1. UNCHANGED <<conn, sock, ready, batch, rescan, pending>>
      BY <1>1 DEF AcceptDrained, AcceptNoDescriptor, AcceptBatchFull,
                  AcceptError, LeaveAccept, kernelVars
    <2> QED
      BY <2>1, QuietHeard
  <1>2. CASE AcceptAborted \/ AddFails \/ reject_connection
    <2>1. backlog # <<>> /\ \E s : Dismiss(Head(backlog), s)
      BY <1>2 DEF AcceptAborted, AddFails, reject_connection
    <2> QED
      BY <2>1, DismissHeard
  <1>3. CASE \E fd \in Fd : Admit(fd)
    BY <1>3, AdmitHeard
  <1> QED
    BY <1>1, <1>2, <1>3 DEF accept_batch

(* epoll_wait() turns what the ready list tells into events.               *)
LEMMA EpollWaitHeard ==
  ASSUME LoopInv, HeardInv, EpollWait
  PROVE  HeardInv'
  <1>0. batch.events = {}
    BY DEF LoopInv, BatchOK, InBatch, EpollWait
  <1>1. /\ batch'.events = {[fd |-> conn[c].fd, of |-> c, ev |-> Reported(c)] :
                            c \in {d \in ready : Reported(d) # {}}}
        /\ UNCHANGED <<sock, conn, rescan, pending>>
    BY DEF EpollWait
  <1>2. ASSUME NEW c, NEW bit, NEW bits, bit \in bits, c \in ready, bit \in Reported(c)
        PROVE  Told(c, bits)'
    <2>1. PICK e : e = [fd |-> conn[c].fd, of |-> c, ev |-> Reported(c)]
      OBVIOUS
    <2>2. e \in batch'.events /\ e.of = c /\ e.ev = Reported(c)
      BY <2>1, <1>1, <1>2
    <2>3. e.ev \cap bits # {}
      BY <2>2, <1>2
    <2> QED
      BY <2>2, <2>3 DEF Told
  <1>3. ASSUME NEW c \in Client, conn[c] # NoConn, conn[c].alive
        PROVE  Heard(c)'
    <2>1. Heard(c) /\ \A bits : Told(c, bits) => c \in ready
      BY <1>0, ReadyTells DEF HeardInv
    <2>2. InputHeard(c)'
      <3> SUFFICES ASSUME want_read(conn[c])
                   PROVE  /\ "in" \in conn[c].applied_mask
                          /\ \/ c \in rescan \cup pending
                             \/ /\ conn[c].in = <<>>
                                /\ Readable(sock[c]) =>
                                     Told(c, {"in", "hup", "err"})'
        BY <1>1 DEF InputHeard
      <3>1. /\ "in" \in conn[c].applied_mask
            /\ \/ c \in rescan \cup pending
               \/ conn[c].in = <<>> /\ (Readable(sock[c]) => c \in ready)
        BY <2>1, <1>3 DEF Heard, InputHeard
      <3>2. Readable(sock[c]) => "in" \in Reported(c)
        BY <3>1 DEF Reported
      <3>3. c \in ready /\ Readable(sock[c]) => Told(c, {"in", "hup", "err"})'
        BY <3>2, <1>2
      <3> QED
        BY <3>1, <3>3
    <2>3. InputArmed(c)'
      BY <2>1, <1>1, <1>3 DEF Heard, InputArmed
    <2>4. PeerHeard(c)'
      <3> SUFFICES ASSUME sock[c].gone # "no"
                   PROVE  \/ Told(c, {sock[c].gone})'
                          \/ sock[c].gone = "hup" /\ conn[c].peer_eof
        BY <1>1 DEF PeerHeard
      <3>1. c \in ready \/ (sock[c].gone = "hup" /\ conn[c].peer_eof)
        BY <2>1, <1>3 DEF Heard, PeerHeard
      <3>2. sock[c].gone \in Reported(c)
        BY DEF Reported
      <3>3. PICK g : g = sock[c].gone
        OBVIOUS
      <3>4. c \in ready => Told(c, {g})'
        BY <3>2, <3>3, <1>2
      <3> QED
        BY <3>1, <3>3, <3>4, <1>1 DEF Told
    <2>5. ASSUME ~IdleTimeout
          PROVE  OutputHeard(c)'
      <3> SUFFICES ASSUME conn[c].out # <<>>
                   PROVE  /\ "out" \in conn[c].applied_mask
                          /\ Writable(sock[c]) => Told(c, {"out", "hup", "err"})'
        BY <1>1 DEF OutputHeard
      <3>1. /\ "out" \in conn[c].applied_mask
            /\ Writable(sock[c]) => c \in ready
        BY <2>1, <2>5, <1>3 DEF Heard, OutputHeard
      <3>2. Writable(sock[c]) => "out" \in Reported(c)
        BY <3>1 DEF Reported
      <3> QED
        BY <3>1, <3>2, <1>2
    <2> QED
      BY <2>2, <2>3, <2>4, <2>5 DEF Heard
  <1> QED
    BY <1>1, <1>3 DEF HeardInv, Heard

(* Every step of the system.                                               *)
LEMMA HeardInvNext ==
  ASSUME "mod" \notin Faults, Contract, LoopInv, AnswerInv, HeardInv, [Next]_vars
  PROVE  HeardInv'
  <1>0. PhaseType /\ RescanOK
    BY TypeParts DEF LoopInv
  <1>1. ASSUME UNCHANGED <<conn, sock, ready, rescan, pending>>,
               batch'.events = batch.events
        PROVE  HeardInv'
    BY <1>1, QuietHeard
  <1>2. ASSUME close_all
        PROVE  HeardInv'
    <2>1. \A c \in Client : conn'[c] = NoConn
      BY <1>2 DEF close_all
    <2> QED
      BY <2>1 DEF HeardInv, Heard
  <1>3. CASE LeaveOnSecondSignal \/ BudgetExhausted
    BY <1>2, <1>3 DEF LeaveOnSecondSignal, BudgetExhausted, ForcedExit
  <1>4. CASE WorkersJoined \/ WorkersDetached
    BY <1>2, <1>4 DEF WorkersJoined, WorkersDetached, Joined
  <1>5. CASE drain_wake \/ handle_signals \/ ListenerEvent
    <2>1. /\ UNCHANGED <<conn, sock, ready, rescan, pending>>
          /\ \E sp : batch' = [batch EXCEPT !.special = @ \ {sp}]
      BY <1>5 DEF drain_wake, handle_signals, ListenerEvent, kernelVars, netVars
    <2>2. batch'.events = batch.events
      BY <2>1, <1>0 DEF PhaseType
    <2> QED
      BY <2>1, <2>2, <1>1
  <1>6. CASE SwapRescans
    <2>1. UNCHANGED <<conn, sock, ready, batch>> /\ pending' = rescan
      BY <1>6 DEF SwapRescans, kernelVars, netVars
    <2>2. pending = {}
      BY <1>0, <1>6 DEF RescanOK, SwapRescans
    <2> QED
      BY <2>1, <2>2, QuietHeard
  <1>7. CASE EpollWaitFails \/ SwapCompletions \/ BeginTick \/ GoOn \/ LeaveQuietly
    <2>1. UNCHANGED <<conn, sock, ready, rescan, pending, batch>>
      BY <1>7 DEF EpollWaitFails, SwapCompletions, BeginTick, GoOn,
         LeaveQuietly, kernelVars, netVars
    <2> QED
      BY <2>1, <1>1
  <1>8. CASE OuterStep
    BY <1>3, <1>5, <1>6, <1>7, <1>8, ReapHeard, EpollWaitHeard, AcceptHeard,
       DrainHeard, TickHeard DEF OuterStep
  <1>9. CASE LastStep
    <2>1. CASE StopPool \/ Destroy \/ Exit
      <3>1. UNCHANGED <<conn, sock, ready, rescan, pending, batch>>
        BY <2>1 DEF StopPool, Destroy, Exit, kernelVars, netVars
      <3> QED
        BY <3>1, <1>1
    <2> QED
      BY <2>1, <1>4, <1>9 DEF LastStep
  <1>10. ASSUME NEW w \in Worker, WorkerStep(w)
         PROVE  HeardInv'
    <2>1. UNCHANGED <<conn, sock, ready, rescan, pending, batch>>
      BY <1>10 DEF WorkerStep, WorkerTakes, post_completion, Wake, loopVars,
         kernelVars, netVars
    <2> QED
      BY <2>1, <1>1
  <1>11. CASE UNCHANGED vars
    <2>1. UNCHANGED <<conn, sock, ready, rescan, pending, batch>>
      BY <1>11 DEF vars, loopVars, kernelVars, netVars
    <2> QED
      BY <2>1, <1>1
  <1> QED
    BY <1>8, <1>9, <1>10, <1>11, EnvHeard, SettlingHeard, NextCases

(* When the loop sleeps, whoever is told is told by the ready list.        *)
LEMMA HeardGives ==
  ASSUME LoopInv, HeardInv
  PROVE  InputNotStranded /\ (~IdleTimeout => OutputNotStranded)
  <1>1. ASSUME NEW c \in Client, Polling(c)
        PROVE  /\ conn[c] # NoConn /\ conn[c].alive /\ Heard(c)
               /\ c \notin rescan \cup pending
               /\ \A bits : Told(c, bits) => c \in ready
    <2>1. pc = "wait" /\ conn[c] # NoConn /\ conn[c].alive
      BY <1>1, OwnedFacts DEF Polling, finished
    <2>2. batch.events = {} /\ rescan = {} /\ pending = {}
      BY <2>1 DEF LoopInv, BatchOK, RescanOK, InBatch
    <2> QED
      BY <2>1, <2>2, ReadyTells DEF HeardInv
  <1>2. InputNotStranded
    BY <1>1 DEF InputNotStranded, Heard, InputHeard, PeerHeard
  <1>3. ASSUME ~IdleTimeout
        PROVE  OutputNotStranded
    BY <1>1, <1>3 DEF OutputNotStranded, Heard, OutputHeard
  <1> QED
    BY <1>2, <1>3
=============================================================================
