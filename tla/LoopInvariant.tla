--------------------------- MODULE LoopInvariant ----------------------------
(***************************************************************************)
(* The inductive invariant of EventLoop, for any clients, descriptors,     *)
(* limits, scripts and faults.  It is preserved by the steps of the        *)
(* environment and of the workers, by those of the loop that only move pc, *)
(* by the callbacks, given the contract of Connection's methods, and by    *)
(* the closing of connections.  LoopSteps does the others, and             *)
(* EventLoopProofs concludes.                                              *)
(* Smaller invariants are at the end: JoinInv, CompletionInv, ListenerInv, *)
(* AnswerInv and OverInv.  LoopRequests has those about requests and       *)
(* responses, LoopSteps the one about events.                              *)
(***************************************************************************)
EXTENDS EventLoop, ConnectionContract, TLAPS

(* The leaves are Zenon's; those that need arithmetic or sequences are     *)
(* SMT's, and say so.                                                      *)
USE Zenon

-----------------------------------------------------------------------------
(* Sequences, and the members of the records.                              *)

(* The empty sequence.                                                     *)
LEMMA SeqEmpty ==
  ASSUME NEW S
  PROVE  <<>> \in Seq(S) /\ Len(<<>>) = 0
  BY SMT

(* A sequence and its elements.                                            *)
LEMMA SeqElements ==
  ASSUME NEW S, NEW s \in Seq(S)
  PROVE  /\ Len(s) \in Nat /\ (s = <<>> <=> Len(s) = 0)
         /\ \A i \in 1..Len(s) : s[i] \in S
  BY SMT

(* Appending puts the element last and moves no other.                     *)
LEMMA SeqAppend ==
  ASSUME NEW S, NEW s \in Seq(S), NEW e \in S
  PROVE  /\ Append(s, e) \in Seq(S) /\ Append(s, e) # <<>>
         /\ Len(Append(s, e)) = Len(s) + 1 /\ Append(s, e)[Len(s) + 1] = e
         /\ \A i \in 1..Len(s) : Append(s, e)[i] = s[i]
  BY SMT

(* Taking the head moves the others up by one.                             *)
LEMMA SeqHeadTail ==
  ASSUME NEW S, NEW s \in Seq(S), s # <<>>
  PROVE  /\ Head(s) \in S /\ Head(s) = s[1] /\ Tail(s) \in Seq(S)
         /\ Len(Tail(s)) = Len(s) - 1
         /\ \A i \in 1..Len(Tail(s)) : Tail(s)[i] = s[i + 1]
  BY SMT

(* The members of a Connection that the loop reads.                        *)
LEMMA MemberTypes ==
  ASSUME NEW c \in ConnState
  PROVE  c.fd \in Fd /\ c.applied_mask \in SUBSET {"in", "out"}
  BY DEF ConnState

(* What a method returns.                                                  *)
LEMMA ParcelTypes ==
  ASSUME NEW k \in K
  PROVE  k.c \in ConnState /\ k.s \in SockState /\ k.job \in Job \cup {NoJob}
  BY DEF K

-----------------------------------------------------------------------------
(* The loop is somewhere in the iteration over an epoll_wait() result.     *)
InBatch == pc = "events" \/ (pc = "accept" /\ accepting.back = "events")

(* conns_ and the Connection objects name each other; phases agree.        *)
Identity ==
  /\ \A fd \in Fd : conns[fd] # NoClient =>
       conn[conns[fd]] # NoConn /\ conn[conns[fd]].fd = fd
  /\ \A c \in Client : conn[c] # NoConn =>
       conns[conn[c].fd] = c /\ phase[c] = "open"
  /\ \A c \in Client : phase[c] = "open" => conn[c] # NoConn
  /\ \A i \in 1..Len(backlog) : phase[backlog[i]] = "backlog"
  /\ \A i, j \in 1..Len(backlog) : backlog[i] = backlog[j] => i = j
  /\ \A c \in ready : conn[c] # NoConn

(* What the methods of Connection may assume (Sound); nobody has been sent *)
(* anything before being accepted.                                         *)
Bounded ==
  /\ \A c \in Client : conn[c] # NoConn => InputBounded(conn[c])
  /\ \A c \in Client : SocketBounded(sock[c])
  /\ \A c \in Client : phase[c] \in {"new", "backlog"} => sock[c].snd = <<>>

(* Events are about connections that exist, one each.                      *)
BatchOK ==
  /\ ~InBatch => batch.events = {}
  /\ \A e \in batch.events : conns[e.fd] = e.of
  /\ \A e, f \in batch.events : e.of = f.of => e = f

(* A connection awaiting a re-scan exists, wants input with EPOLLIN armed, *)
(* and has no event left in this iteration that could change that.         *)
RescanOK ==
  /\ \A c \in rescan \cup pending :
       conn[c] # NoConn /\ want_read(conn[c]) /\ "in" \in conn[c].applied_mask
  /\ \A c \in rescan : \A e \in batch.events : e.of # c
  /\ rescan # {} => InBatch \/ pc = "completions"
  /\ pending # {} => pc = "rescan"

(* reap_ holds the descriptors of exactly the finished connections, after  *)
(* every callback.                                                         *)
ReapOK ==
  /\ \A fd \in reap : conns[fd] # NoClient
  /\ \A c \in Client : conn[c] # NoConn =>
       (finished(conn[c]) <=> conn[c].fd \in reap)

(* begin_drain() told every connection, and none is added afterwards.      *)
DrainOK ==
  draining => \A c \in Client : conn[c] # NoConn => conn[c].draining

(* The loop's tables agree; inductive.                                     *)
LoopInv == /\ TypeOK /\ Identity /\ Bounded /\ BatchOK /\ RescanOK
           /\ ReapOK /\ DrainOK /\ signals <= raised

-----------------------------------------------------------------------------
(* Steps grouped by what they leave alone.                                 *)

(* Clients and signals.                                                    *)
EnvStep == RaiseSignal \/ \E c \in Client : ClientStep(c)

(* A callback that ends in Settle.                                         *)
SettlingStep == \/ \E e \in batch.events : ConnectionEvent(e)
                \/ ApplyCompletion \/ \E c \in Client : Rescan(c)

(* The other steps of an iteration, and the decision to leave.             *)
OuterStep == \/ EpollWait \/ EpollWaitFails \/ drain_wake \/ handle_signals
             \/ ListenerEvent \/ accept_batch \/ SwapCompletions \/ SwapRescans
             \/ reap_finished \/ maybe_begin_drain \/ BeginTick \/ tick
             \/ GoOn \/ LeaveQuietly \/ LeaveOnSecondSignal \/ BudgetExhausted

(* What follows once run() has left its loop.                              *)
LastStep == StopPool \/ WorkersJoined \/ WorkersDetached \/ Destroy \/ Exit

(* Next is one of these groups, or stuttering at the end.                  *)
LEMMA NextCases ==
  Next <=> \/ EnvStep \/ SettlingStep \/ OuterStep \/ LastStep
           \/ \E w \in Worker : WorkerStep(w)
           \/ pc = "exited" /\ UNCHANGED vars
  BY DEF Next, LoopStep, EnvStep, SettlingStep, OuterStep, LastStep

(* Clients and signals touch neither the loop's nor the workers' state.    *)
LEMMA EnvFrame == EnvStep => UNCHANGED <<loopVars, workerVars, wake>>
  BY DEF EnvStep, ClientStep, RaiseSignal, Connect, Send, HalfClose, Vanish,
     Read, netVars, kernelVars, loopVars, flags, workerVars, poolVars

(* A callback and what follows it touch only the connections, the re-scan  *)
(* list and the pool's queue.                                              *)
LEMMA SettlingFrame ==
  SettlingStep =>
    /\ pc \in {"events", "completions", "rescan"}
    /\ UNCHANGED <<netVars, pc, conns, flags, posted, completions, running, closed>>
  <1>1. ASSUME NEW c, NEW k, Settle(c, k)
        PROVE  UNCHANGED <<running, closed>>
    BY <1>1 DEF Settle, Pool!Submit, netVars, kernelVars, loopVars, flags,
       workerVars, poolVars
  <1>2. ASSUME NEW e \in batch.events, ConnectionEvent(e)
        PROVE  /\ pc = "events"
               /\ UNCHANGED <<netVars, pc, conns, flags, posted, completions, running, closed>>
    BY <1>1, <1>2 DEF ConnectionEvent, netVars, kernelVars, loopVars, flags,
       workerVars, poolVars
  <1>3. ASSUME ApplyCompletion
        PROVE  /\ pc = "completions"
               /\ UNCHANGED <<netVars, pc, conns, flags, posted, completions, running, closed>>
    BY <1>1, <1>3 DEF ApplyCompletion, netVars, kernelVars, loopVars, flags,
       workerVars, poolVars
  <1>4. ASSUME NEW c, Rescan(c)
        PROVE  /\ pc = "rescan"
               /\ UNCHANGED <<netVars, pc, conns, flags, posted, completions, running, closed>>
    BY <1>1, <1>4 DEF Rescan, netVars, kernelVars, loopVars, flags,
       workerVars, poolVars
  <1> QED
    BY <1>2, <1>3, <1>4 DEF SettlingStep

-----------------------------------------------------------------------------
(* The first state.                                                        *)

(* At run()'s start nothing is connected.                                  *)
LEMMA LoopInvInit == Init => LoopInv
  <1> SUFFICES ASSUME Init PROVE LoopInv
    OBVIOUS
  <1>1. TypeOK
    <2>1. NewSock \in SockState
      BY SeqEmpty DEF NewSock, SockState
    <2>2. /\ sock \in [Client -> SockState]
          /\ script \in [Client -> Seq(Segment)]
          /\ conn \in [Client -> ConnState \cup {NoConn}]
          /\ conns \in [Fd -> Client \cup {NoClient}]
          /\ phase \in [Client -> {"new", "backlog", "open", "closed"}]
      BY <2>1, LoopAssumption DEF Init
    <2>3. Pool!PoolTypeOK
      BY SeqEmpty DEF Init, Pool!PoolInit, Pool!PoolTypeOK
    <2>4. batch \in [events : SUBSET Event, special : SUBSET Special]
      BY DEF Init
    <2>5. accepting \in [tries : 0..AcceptBatch, back : {"events", "tick"}]
      BY SMT, LoopAssumption DEF Init
    <2>6. signals \in 0..MaxSignals /\ raised \in 0..MaxSignals
      BY SMT, LoopAssumption DEF Init
    <2> QED
      BY <2>2, <2>3, <2>4, <2>5, <2>6, SeqEmpty DEF Init, TypeOK, PC
  <1>2. Identity /\ ReapOK /\ DrainOK /\ RescanOK
    BY SMT, LoopAssumption DEF Init, Identity, ReapOK, DrainOK, RescanOK
  <1>3. Bounded
    BY SMT, ConnectionAssumption, SeqEmpty DEF Init, Bounded, NewSock, SocketBounded
  <1>4. BatchOK
    BY DEF Init, BatchOK
  <1> QED
    BY SMT, <1>1, <1>2, <1>3, <1>4 DEF LoopInv, Init

-----------------------------------------------------------------------------
(* What a step preserves by leaving it alone.                              *)

(* What Identity, Bounded, ReapOK and DrainOK speak of, and what BatchOK   *)
(* and RescanOK do.                                                        *)
Objects == <<sock, conn, conns, phase, backlog, ready, reap, draining>>
Iteration == <<pc, accepting, batch, conns, conn, rescan, pending>>

(* A step that leaves the tables alone keeps what is said of them.         *)
LEMMA ObjectsFrame ==
  LoopInv /\ UNCHANGED Objects => Identity' /\ Bounded' /\ ReapOK' /\ DrainOK'
  BY SMT DEF LoopInv, Objects, Identity, Bounded, ReapOK, DrainOK

(* A step that leaves the iteration alone keeps what is said of it.        *)
LEMMA IterationFrame ==
  LoopInv /\ UNCHANGED Iteration => BatchOK' /\ RescanOK'
  BY DEF LoopInv, Iteration, BatchOK, RescanOK, InBatch

-----------------------------------------------------------------------------
(* TypeOK in four parts, so that a step needs to look only at those it     *)
(* touches.                                                                *)

KernelType ==
  /\ script \in [Client -> Seq(Segment)]
  /\ sock \in [Client -> SockState]
  /\ phase \in [Client -> {"new", "backlog", "open", "closed"}]
  /\ backlog \in Seq(Client)
  /\ ready \in SUBSET Client
  /\ edges \in SUBSET {"listen", "sig"}
  /\ wake \in BOOLEAN /\ signals \in 0..MaxSignals /\ raised \in 0..MaxSignals

ObjectType ==
  /\ conn \in [Client -> ConnState \cup {NoConn}]
  /\ conns \in [Fd -> Client \cup {NoClient}]
  /\ reap \in SUBSET Fd
  /\ rescan \in SUBSET Client /\ pending \in SUBSET Client

PhaseType ==
  /\ pc \in PC
  /\ batch \in [events : SUBSET Event, special : SUBSET Special]
  /\ finishing \in Seq(Completion)
  /\ accepting \in [tries : 0..AcceptBatch, back : {"events", "tick"}]
  /\ accept_retry \in BOOLEAN /\ shutdown_requested \in BOOLEAN
  /\ second_signal \in BOOLEAN /\ draining \in BOOLEAN
  /\ forced \in BOOLEAN /\ detached \in BOOLEAN

WorkerType ==
  /\ queue \in Seq(Job) /\ running \in [Worker -> Job \cup {NoJob}]
  /\ closed \in BOOLEAN
  /\ posted \in SUBSET Worker
  /\ completions \in Seq(Completion)

(* The parts make up TypeOK ...                                            *)
LEMMA TypeParts ==
  TypeOK <=> KernelType /\ ObjectType /\ PhaseType /\ WorkerType
  BY DEF TypeOK, KernelType, ObjectType, PhaseType, WorkerType, Pool!PoolTypeOK

(* ... in the next state too.                                              *)
LEMMA TypePartsNext ==
  TypeOK' <=> KernelType' /\ ObjectType' /\ PhaseType' /\ WorkerType'
  BY DEF TypeOK, KernelType, ObjectType, PhaseType, WorkerType, Pool!PoolTypeOK

objectVars == <<conn, conns, reap, rescan, pending>>

(* A part whose variables a step leaves alone is preserved.                *)
LEMMA TypeFrame ==
  ASSUME TypeOK
  PROVE  /\ UNCHANGED kernelVars => KernelType'
         /\ UNCHANGED objectVars => ObjectType'
         /\ UNCHANGED <<pc, batch, finishing, flags>> => PhaseType'
         /\ UNCHANGED workerVars => WorkerType'
  <1>0. KernelType /\ ObjectType /\ PhaseType /\ WorkerType
    BY TypeParts
  <1>1. UNCHANGED kernelVars => KernelType'
    BY <1>0 DEF KernelType, netVars, kernelVars, loopVars, flags, workerVars,
       poolVars
  <1>2. UNCHANGED objectVars => ObjectType'
    BY <1>0 DEF ObjectType, objectVars
  <1>3. UNCHANGED <<pc, batch, finishing, flags>> => PhaseType'
    BY <1>0 DEF PhaseType, netVars, kernelVars, loopVars, flags, workerVars,
       poolVars
  <1>4. UNCHANGED workerVars => WorkerType'
    BY <1>0 DEF WorkerType, netVars, kernelVars, loopVars, flags, workerVars,
       poolVars
  <1> QED
    BY <1>1, <1>2, <1>3, <1>4

(* pc moves, the rest of PhaseType stays.                                  *)
LEMMA PcType ==
  ASSUME TypeOK, pc' \in PC, UNCHANGED <<batch, finishing, flags>>
  PROVE  PhaseType'
  BY TypeParts DEF PhaseType, netVars, kernelVars, loopVars, flags,
     workerVars, poolVars

-----------------------------------------------------------------------------
(* The environment: clients and signals.                                   *)

(* A client joins the accept queue.                                        *)
LEMMA ConnectInv ==
  ASSUME LoopInv, NEW c \in Client, Connect(c)
  PROVE  LoopInv'
  <1>0. TypeOK /\ Identity /\ Bounded /\ ReapOK /\ DrainOK
    BY DEF LoopInv
  <1>1. /\ backlog' \in Seq(Client) /\ Len(backlog') = Len(backlog) + 1
        /\ \A i \in 1..Len(backlog) : backlog'[i] = backlog[i]
        /\ backlog'[Len(backlog) + 1] = c
    BY SMT, <1>0, SeqAppend DEF Connect, TypeOK
  <1>2. TypeOK'
    <2>1. KernelType'
      BY <1>0, <1>1, TypeParts DEF Connect, KernelType
    <2> QED
      BY <2>1, <1>0, TypeFrame, TypePartsNext DEF Connect, objectVars,
         netVars, kernelVars, loopVars, flags, workerVars, poolVars
  <1>3. Len(backlog) \in Nat
    BY <1>0, SeqElements DEF TypeOK
  <1>4. phase[c] = "new" /\ phase' = [phase EXCEPT ![c] = "backlog"]
        /\ phase \in [Client -> {"new", "backlog", "open", "closed"}]
    BY <1>0 DEF Connect, TypeOK
  <1>5. \A i \in 1..Len(backlog) : backlog[i] \in Client /\ backlog[i] # c
    BY <1>0, <1>4, SeqElements DEF Identity, TypeOK
  <1>6. Identity'
    <2>1. UNCHANGED <<conn, conns, ready>>
      BY DEF Connect, netVars, kernelVars, loopVars, flags, workerVars,
         poolVars
    <2>2. \A d \in Client : (phase'[d] = "open") <=> (phase[d] = "open")
      BY <1>4
    <2>3. \A i \in 1..Len(backlog') : phase'[backlog'[i]] = "backlog"
      <3> SUFFICES ASSUME NEW i \in 1..Len(backlog')
                   PROVE  phase'[backlog'[i]] = "backlog"
        OBVIOUS
      <3>1. CASE i = Len(backlog) + 1
        BY <3>1, <1>1, <1>4
      <3>2. CASE i \in 1..Len(backlog)
        <4>1. backlog'[i] = backlog[i] /\ backlog[i] \in Client /\ backlog[i] # c
          BY <3>2, <1>1, <1>5
        <4>2. phase[backlog[i]] = "backlog"
          BY <3>2, <1>0 DEF Identity
        <4> QED
          BY <4>1, <4>2, <1>4
      <3> QED
        BY SMT, <3>1, <3>2, <1>1, <1>3
    <2>4. \A i, j \in 1..Len(backlog') : backlog'[i] = backlog'[j] => i = j
      BY SMT, <1>0, <1>1, <1>3, <1>5 DEF Identity
    <2> QED
      BY <1>0, <2>1, <2>2, <2>3, <2>4 DEF Identity
  <1>7. Bounded'
    BY <1>0, <1>4 DEF Bounded, Connect, netVars, kernelVars, loopVars, flags,
       workerVars, poolVars
  <1>8. ReapOK' /\ DrainOK'
    BY <1>0 DEF ReapOK, DrainOK, Connect, netVars, kernelVars, loopVars,
       flags, workerVars, poolVars
  <1>9. BatchOK' /\ RescanOK'
    BY IterationFrame DEF Connect, Iteration, netVars, kernelVars, loopVars,
       flags, workerVars, poolVars
  <1> QED
    BY <1>2, <1>6, <1>7, <1>8, <1>9 DEF LoopInv, Connect

(* A signal is raised; no more are pending than were raised.               *)
LEMMA SignalInv ==
  ASSUME LoopInv, RaiseSignal
  PROVE  LoopInv'
  <1>1. TypeOK'
    <2>1. raised' \in 0..MaxSignals /\ signals' \in 0..MaxSignals
      BY SMT, LoopAssumption DEF LoopInv, TypeOK, RaiseSignal
    <2> QED
      <3>1. KernelType'
        BY <2>1, TypeParts DEF LoopInv, RaiseSignal, KernelType
      <3> QED
        BY <3>1, TypeFrame, TypePartsNext DEF LoopInv, RaiseSignal,
           objectVars, netVars, kernelVars, loopVars, flags, workerVars,
           poolVars
  <1>2. Identity' /\ Bounded' /\ ReapOK' /\ DrainOK'
    BY ObjectsFrame DEF RaiseSignal, Objects, netVars, kernelVars, loopVars,
       flags, workerVars, poolVars
  <1>3. BatchOK' /\ RescanOK'
    BY IterationFrame DEF RaiseSignal, Iteration, netVars, kernelVars,
       loopVars, flags, workerVars, poolVars
  <1>4. signals' <= raised'
    BY SMT DEF LoopInv, TypeOK, RaiseSignal
  <1> QED
    BY <1>1, <1>2, <1>3, <1>4 DEF LoopInv

(* A client's step at its socket.                                          *)
LEMMA SocketStepInv ==
  ASSUME LoopInv, NEW c \in Client, NEW s \in SockState, NEW bit,
         SocketBounded(s), sock[c].snd = <<>> => s.snd = <<>>,
         sock' = [sock EXCEPT ![c] = s], Edge(c, bit),
         script' \in [Client -> Seq(Segment)],
         UNCHANGED <<phase, backlog, edges, wake, signals, raised, loopVars,
                     workerVars>>
  PROVE  LoopInv'
  <1>0. TypeOK /\ Identity /\ Bounded /\ ReapOK /\ DrainOK
    BY DEF LoopInv
  <1>1. sock' \in [Client -> SockState]
        /\ \A d \in Client : sock'[d] = IF d = c THEN s ELSE sock[d]
    BY <1>0 DEF TypeOK
  <1>2. \A d \in ready' : d \in Client /\ conn[d] # NoConn
    BY SMT, <1>0 DEF TypeOK, Identity, Edge
  <1>3. TypeOK'
    <2>1. KernelType'
      BY <1>0, <1>1, <1>2, TypeParts DEF KernelType
    <2> QED
      BY <2>1, <1>0, TypeFrame, TypePartsNext DEF objectVars, netVars,
         kernelVars, loopVars, flags, workerVars, poolVars
  <1>4. Identity'
    BY SMT, <1>0, <1>2 DEF Identity, netVars, kernelVars, loopVars, flags,
       workerVars, poolVars
  <1>5. Bounded'
    BY <1>0, <1>1 DEF Bounded, netVars, kernelVars, loopVars, flags,
       workerVars, poolVars
  <1>6. ReapOK' /\ DrainOK'
    BY <1>0 DEF ReapOK, DrainOK, netVars, kernelVars, loopVars, flags,
       workerVars, poolVars
  <1>7. BatchOK' /\ RescanOK'
    BY IterationFrame DEF Iteration, netVars, kernelVars, loopVars, flags,
       workerVars, poolVars
  <1> QED
    BY <1>3, <1>4, <1>5, <1>6, <1>7 DEF LoopInv

(* What clients do to their sockets.                                       *)
LEMMA ClientInv ==
  ASSUME LoopInv, NEW c \in Client, ClientStep(c)
  PROVE  LoopInv'
  <1>0. /\ TypeOK /\ sock[c] \in SockState /\ SocketBounded(sock[c])
        /\ sock \in [Client -> SockState]
        /\ script \in [Client -> Seq(Segment)]
    BY DEF LoopInv, TypeOK, Bounded
  <1>1. /\ sock[c].rcv \in Seq(Segment) /\ sock[c].snd \in Seq(Response)
        /\ sock[c].got \in Seq(Response)
    BY <1>0 DEF SockState
  <1>2. CASE Connect(c)
    BY <1>2, ConnectInv
  <1>3. CASE Send(c)
    <2> DEFINE rcv1 == Append(sock[c].rcv, Head(script[c]))
               s == [sock[c] EXCEPT !.rcv = rcv1]
    <2>1. script[c] \in Seq(Segment) /\ script[c] # <<>>
      BY <1>0, <1>3 DEF Send
    <2>2. Head(script[c]) \in Segment /\ Tail(script[c]) \in Seq(Segment)
      BY <2>1, SeqHeadTail
    <2>3. rcv1 \in Seq(Segment)
      BY <2>2, <1>1, SeqAppend
    <2>4. script' \in [Client -> Seq(Segment)]
      BY <2>2, <1>0, <1>3 DEF Send
    <2>5. sock' = [sock EXCEPT ![c] = s]
      BY <1>0, <1>3 DEF Send
    <2> HIDE DEF rcv1
    <2>6. s \in SockState /\ s.snd = sock[c].snd
      BY <2>3, <1>0 DEF SockState
    <2> HIDE DEF s
    <2>7. SocketBounded(s)
      BY <2>6, <1>0 DEF SocketBounded
    <2> QED
      BY <2>4, <2>5, <2>6, <2>7, <1>3, SocketStepInv DEF Send
  <1>4. CASE HalfClose(c)
    <2> DEFINE s == [sock[c] EXCEPT !.fin = TRUE]
    <2>1. sock' = [sock EXCEPT ![c] = s]
      BY <1>0, <1>4 DEF HalfClose
    <2>2. s \in SockState /\ s.snd = sock[c].snd
      BY <1>0 DEF SockState
    <2> HIDE DEF s
    <2>3. SocketBounded(s)
      BY <2>2, <1>0 DEF SocketBounded
    <2> QED
      BY <2>1, <2>2, <2>3, <1>0, <1>4, SocketStepInv DEF HalfClose, netVars,
         kernelVars, loopVars, flags, workerVars, poolVars
  <1>5. CASE Vanish(c)
    <2>1. PICK g \in {"hup", "err"} : sock' = [sock EXCEPT ![c].gone = g]
      BY <1>5 DEF Vanish
    <2> DEFINE s == [sock[c] EXCEPT !.gone = g]
    <2>2. sock' = [sock EXCEPT ![c] = s]
      BY <2>1, <1>0
    <2>3. s \in SockState /\ s.snd = sock[c].snd
      BY <1>0 DEF SockState
    <2> HIDE DEF s
    <2>4. SocketBounded(s)
      BY <2>3, <1>0 DEF SocketBounded
    <2> QED
      BY <2>2, <2>3, <2>4, <1>0, <1>5, SocketStepInv DEF Vanish, netVars,
         kernelVars, loopVars, flags, workerVars, poolVars
  <1>6. CASE Read(c)
    <2> DEFINE got1 == Append(sock[c].got, Head(sock[c].snd))
               s == [sock[c] EXCEPT !.got = got1, !.snd = Tail(sock[c].snd)]
    <2>1. sock[c].snd # <<>>
      BY <1>6 DEF Read
    <2>2. /\ Head(sock[c].snd) \in Response /\ Tail(sock[c].snd) \in Seq(Response)
          /\ Len(Tail(sock[c].snd)) = Len(sock[c].snd) - 1
      BY <2>1, <1>1, SeqHeadTail
    <2>3. got1 \in Seq(Response)
      BY <2>2, <1>1, SeqAppend
    <2>4. sock' = [sock EXCEPT ![c] = s]
      BY <1>0, <1>6 DEF Read
    <2> HIDE DEF got1
    <2>5. s \in SockState /\ s.snd = Tail(sock[c].snd)
      BY <2>2, <2>3, <1>0 DEF SockState
    <2> HIDE DEF s
    <2>6. SocketBounded(s)
      BY SMT, <2>2, <2>5, <1>0, <1>1, SeqElements, ConnectionAssumption
         DEF SocketBounded
    <2> QED
      BY <2>1, <2>4, <2>5, <2>6, <1>0, <1>6, SocketStepInv DEF Read, netVars,
         kernelVars, loopVars, flags, workerVars, poolVars
  <1> QED
    BY <1>2, <1>3, <1>4, <1>5, <1>6 DEF ClientStep

-----------------------------------------------------------------------------
(* Workers touch the pool, completions_ and the eventfd, nothing else.     *)

(* Workers move jobs and results, and touch no connection.                 *)
LEMMA WorkerInv ==
  ASSUME LoopInv, NEW w \in Worker, WorkerStep(w)
  PROVE  LoopInv'
  <1>0. /\ TypeOK /\ KernelType /\ WorkerType
        /\ queue \in Seq(Job) /\ running \in [Worker -> Job \cup {NoJob}]
        /\ closed \in BOOLEAN
    BY TypeParts DEF LoopInv, WorkerType
  <1>1. UNCHANGED <<loopVars, script, sock, phase, backlog, ready, edges,
                    signals, raised>>
    BY DEF WorkerStep, WorkerTakes, post_completion, Wake, netVars,
       kernelVars, loopVars, flags, workerVars, poolVars
  <1>2. Identity' /\ Bounded' /\ ReapOK' /\ DrainOK'
    BY <1>1, ObjectsFrame DEF Objects, netVars, kernelVars, loopVars, flags,
       workerVars, poolVars
  <1>3. BatchOK' /\ RescanOK'
    BY <1>1, IterationFrame DEF Iteration, netVars, kernelVars, loopVars,
       flags, workerVars, poolVars
  <1>4. WorkerType' /\ wake' \in BOOLEAN
    <2>1. CASE WorkerTakes(w)
      <3>1. queue # <<>>
        BY <2>1 DEF WorkerTakes, Pool!Start
      <3>2. Head(queue) \in Job /\ Tail(queue) \in Seq(Job)
        BY <3>1, <1>0, SeqHeadTail
      <3> QED
        BY <3>2, <2>1, <1>0 DEF WorkerTakes, Pool!Start, WorkerType,
           KernelType, netVars, kernelVars, loopVars, flags, workerVars,
           poolVars
    <2>2. CASE post_completion(w)
      <3> DEFINE r == [conn |-> running[w].conn, seq |-> running[w].seq,
                       response |-> ResponseTo(running[w])]
      <3>1. running[w] \in Job
        BY <2>2, <1>0 DEF post_completion
      <3>2. /\ running[w].conn \in Client /\ running[w].seq \in Nat
            /\ (running[w].kind # "head") \in BOOLEAN
            /\ (running[w].kind = "last") \in BOOLEAN
        BY <3>1 DEF Job
      <3>3. ResponseTo(running[w]) \in Response
        BY <3>1, <3>2 DEF ResponseTo, Response
      <3>4. r \in Completion
        BY <3>2, <3>3 DEF Completion
      <3>5. completions' = Append(completions, r) /\ completions \in Seq(Completion)
        BY <2>2, <1>0 DEF post_completion, WorkerType
      <3> HIDE DEF r
      <3>6. completions' \in Seq(Completion)
        BY <3>4, <3>5, SeqAppend
      <3> QED
        BY <3>6, <2>2, <1>0 DEF post_completion, WorkerType, KernelType,
           netVars, kernelVars, loopVars, flags, workerVars, poolVars
    <2>3. CASE Wake(w)
      BY <2>3, <1>0 DEF Wake, Pool!Finish, WorkerType, KernelType
    <2> QED
      BY <2>1, <2>2, <2>3 DEF WorkerStep
  <1>5. TypeOK'
    <2>1. KernelType'
      BY <1>0, <1>1, <1>4 DEF KernelType
    <2> QED
      BY <2>1, <1>0, <1>1, <1>4, TypeFrame, TypePartsNext DEF objectVars,
         netVars, kernelVars, loopVars, flags, workerVars, poolVars
  <1> QED
    BY <1>1, <1>2, <1>3, <1>5 DEF LoopInv

-----------------------------------------------------------------------------
(* Steps of the loop thread that only move between the phases of run().    *)

(* A step of the loop that leaves the tables alone.                        *)
LEMMA PhaseStep ==
  ASSUME LoopInv, UNCHANGED Objects, signals' <= raised',
         KernelType', ObjectType', PhaseType', WorkerType', BatchOK', RescanOK'
  PROVE  LoopInv'
  <1>1. Identity' /\ Bounded' /\ ReapOK' /\ DrainOK'
    BY ObjectsFrame
  <1>2. TypeOK'
    BY TypePartsNext
  <1> QED
    BY <1>1, <1>2 DEF LoopInv

(* Only pc moves, from outside a batch to outside a batch.                 *)
LEMMA PcStep ==
  ASSUME LoopInv, pc' \in PC, UNCHANGED <<kernelVars, batch, conn, conns, reap,
                                rescan, pending, finishing, flags, workerVars>>,
         pc \notin {"events", "accept", "completions", "rescan"},
         pc' \notin {"events", "accept"}
  PROVE  LoopInv'
  <1>0. TypeOK /\ BatchOK /\ RescanOK /\ signals <= raised
    BY DEF LoopInv
  <1>1. KernelType' /\ ObjectType' /\ WorkerType'
    BY <1>0, TypeFrame DEF objectVars
  <1>2. PhaseType'
    BY <1>0, PcType
  <1>3. BatchOK' /\ RescanOK'
    BY <1>0 DEF BatchOK, RescanOK, InBatch
  <1>4. UNCHANGED Objects /\ signals' <= raised'
    BY <1>0 DEF Objects, netVars, kernelVars, loopVars, flags, workerVars,
       poolVars
  <1> QED
    BY <1>1, <1>2, <1>3, <1>4, PhaseStep

(* epoll_wait() fails.                                                     *)
LEMMA EpollWaitFailsInv == LoopInv /\ EpollWaitFails => LoopInv'
  BY PcStep DEF EpollWaitFails, PC

(* shutdown_complete() says no.                                            *)
LEMMA GoOnInv == LoopInv /\ GoOn => LoopInv'
  BY PcStep DEF GoOn, AtCheck, PC

(* shutdown_complete() says yes.                                           *)
LEMMA LeaveQuietlyInv == LoopInv /\ LeaveQuietly => LoopInv'
  BY PcStep DEF LeaveQuietly, AtCheck, PC

(* The process ends.                                                       *)
LEMMA ExitInv == LoopInv /\ Exit => LoopInv'
  BY PcStep DEF Exit, PC

(* The pool is told to stop.                                               *)
LEMMA StopPoolInv ==
  ASSUME LoopInv, StopPool
  PROVE  LoopInv'
  <1>0. TypeOK /\ BatchOK /\ RescanOK /\ signals <= raised /\ WorkerType
    BY TypeParts DEF LoopInv
  <1>1. /\ pc = "stop" /\ pc' \in {"tryjoin", "join"} /\ Pool!Close
        /\ UNCHANGED <<kernelVars, batch, conn, conns, reap, rescan, pending,
                       finishing, flags, posted, completions>>
    BY DEF StopPool
  <1> HIDE DEF StopPool
  <1>2. KernelType' /\ ObjectType'
    BY <1>0, <1>1, TypeFrame DEF objectVars
  <1>3. PhaseType'
    BY <1>0, <1>1, PcType DEF PC
  <1>4. WorkerType'
    BY <1>0, <1>1 DEF WorkerType, Pool!Close
  <1>5. BatchOK' /\ RescanOK'
    BY <1>0, <1>1 DEF BatchOK, RescanOK, InBatch
  <1> QED
    BY <1>0, <1>1, <1>2, <1>3, <1>4, <1>5, PhaseStep DEF Objects, netVars,
       kernelVars, loopVars, flags, workerVars, poolVars

-----------------------------------------------------------------------------
(* The callbacks.  First what every one of them starts from.               *)

(* A connection in conns_ meets the methods' precondition.                 *)
LEMMA HereIsSound ==
  ASSUME LoopInv, NEW c \in Client, conn[c] # NoConn
  PROVE  /\ Sound(Here(c)) /\ Here(c).c = conn[c] /\ Here(c).s = sock[c]
         /\ Here(c).job = NoJob /\ conn[c] \in ConnState
  <1>1. /\ conn[c] \in ConnState /\ sock[c] \in SockState
        /\ InputBounded(conn[c]) /\ SocketBounded(sock[c])
    BY TypeParts DEF LoopInv, ObjectType, KernelType, Bounded
  <1> QED
    BY <1>1 DEF Sound, K, Here

(* on_readable() and then on_writable() keep what each keeps.              *)
LEMMA KeepsTransitive ==
  ASSUME NEW k, NEW m, NEW n, Keeps(k, m), Keeps(m, n)
  PROVE  Keeps(k, n)
  BY DEF Keeps, SameConnection

(* A mask is data of the loop's: no guard of the connection reads it.      *)
LEMMA MaskIsOpaque ==
  ASSUME NEW d \in ConnState, NEW mask \in SUBSET {"in", "out"}
  PROVE  LET m == [d EXCEPT !.applied_mask = mask]
         IN  /\ m \in ConnState /\ m.fd = d.fd /\ m.draining = d.draining
             /\ m.applied_mask = mask
             /\ want_read(m) = want_read(d) /\ finished(m) = finished(d)
             /\ InputBounded(d) => InputBounded(m)
             /\ SameRequest(d, m)
  <1> DEFINE m == [d EXCEPT !.applied_mask = mask]
  <1>1. /\ m \in ConnState /\ m.fd = d.fd /\ m.draining = d.draining
        /\ m.applied_mask = mask /\ m.alive = d.alive /\ m.out = d.out
        /\ m.close_after = d.close_after /\ m.peer_eof = d.peer_eof
        /\ m.in_flight = d.in_flight /\ m.in = d.in /\ m.consumed = d.consumed
        /\ m.inflight_seq = d.inflight_seq
    BY DEF ConnState
  <1> HIDE DEF m
  <1>2. want_read(m) = want_read(d) /\ finished(m) = finished(d)
    BY <1>1 DEF want_read, finished
  <1>3. InputBounded(d) => InputBounded(m)
    BY <1>1 DEF InputBounded
  <1>4. SameRequest(d, m)
    BY <1>1 DEF SameRequest
  <1> QED
    BY <1>1, <1>2, <1>3, <1>4 DEF m

(* EPOLLIN is asked for exactly when input is wanted.                      *)
LEMMA InterestFacts ==
  ASSUME NEW d
  PROVE  /\ interest_mask(d) \in SUBSET {"in", "out"}
         /\ "in" \in interest_mask(d) <=> want_read(d)
  BY DEF interest_mask

(* What Settle() makes of the connection it is given.                      *)
Settled(c, k) ==
  /\ conn' = [conn EXCEPT ![c] = conn'[c]]
  /\ conn'[c] \in ConnState /\ InputBounded(conn'[c])
  /\ conn'[c].fd = k.c.fd /\ conn'[c].draining = k.c.draining
  /\ SameRequest(k.c, conn'[c])
  /\ want_read(conn'[c]) = want_read(k.c)
  /\ finished(conn'[c]) = finished(k.c)
  /\ reap' = IF finished(k.c) THEN reap \cup {k.c.fd} ELSE reap
  /\ ready \subseteq ready' /\ ready' \subseteq ready \cup {c}
  /\ rescan' = rescan \/ (/\ rescan' = rescan \cup {c} /\ want_read(k.c)
                          /\ "in" \in conn'[c].applied_mask
                          /\ "in" \notin k.c.applied_mask)
  /\ "in" \in k.c.applied_mask /\ want_read(k.c) => "in" \in conn'[c].applied_mask

(* Settle() does that, whether it schedules the reaping, changes the mask, *)
(* or fails to.                                                            *)
LEMMA SettleFacts ==
  ASSUME ObjectType, NEW c \in Client, NEW k, Sound(k), Settle(c, k)
  PROVE  Settled(c, k)
  <1> DEFINE want == interest_mask(k.c)
             d == [k.c EXCEPT !.applied_mask = want]
  <1>0. /\ k.c \in ConnState /\ InputBounded(k.c)
        /\ conn \in [Client -> ConnState \cup {NoConn}]
    BY ParcelTypes DEF Sound, ObjectType
  <1>1. SameRequest(k.c, k.c)
    BY DEF SameRequest
  <1>2. CASE finished(k.c)
    <2>1. /\ conn' = [conn EXCEPT ![c] = k.c] /\ reap' = reap \cup {k.c.fd}
          /\ rescan' = rescan /\ ready' = ready
      BY <1>2 DEF Settle
    <2>2. conn'[c] = k.c
      BY <2>1, <1>0
    <2> QED
      BY <2>1, <2>2, <1>0, <1>2, <1>1 DEF Settled
  <1>3. CASE ~finished(k.c) /\ ModFails(c, k)
    <2>1. /\ conn' = [conn EXCEPT ![c] = k.c] /\ reap' = reap
          /\ rescan' = rescan /\ ready' = ready
      BY <1>3 DEF Settle, ModFails
    <2>2. conn'[c] = k.c
      BY <2>1, <1>0
    <2> QED
      BY <2>1, <2>2, <1>0, <1>3, <1>1 DEF Settled
  <1>4. CASE ~finished(k.c) /\ set_interest(c, k)
    <2>1. /\ conn' = [conn EXCEPT ![c] = d] /\ reap' = reap
          /\ rescan' = IF "in" \in want \ k.c.applied_mask THEN rescan \cup {c}
                       ELSE rescan
          /\ ready' = ready \/ ready' = ready \cup {c}
      BY <1>4 DEF Settle, set_interest, Rearmed
    <2>2. want \in SUBSET {"in", "out"} /\ ("in" \in want <=> want_read(k.c))
      BY InterestFacts
    <2> HIDE DEF want
    <2>3. /\ d \in ConnState /\ d.fd = k.c.fd /\ d.draining = k.c.draining
          /\ d.applied_mask = want /\ want_read(d) = want_read(k.c)
          /\ finished(d) = finished(k.c) /\ InputBounded(d)
          /\ SameRequest(k.c, d)
      BY <2>2, <1>0, MaskIsOpaque
    <2> HIDE DEF d
    <2>4. conn'[c] = d
      BY <2>1, <1>0
    <2> QED
      BY <2>1, <2>2, <2>3, <2>4, <1>4 DEF Settled
  <1> QED
    BY <1>2, <1>3, <1>4 DEF Settle

(* Whatever the callback was, the loop's tables agree again after Settle().*)
LEMMA SettleKeepsObjects ==
  ASSUME LoopInv, NEW c \in Client, conn[c] # NoConn, NEW k,
         Keeps(Here(c), k), Settle(c, k),
         UNCHANGED <<netVars, conns, draining, posted, completions>>,
         pending' \in SUBSET Client
  PROVE  /\ KernelType' /\ ObjectType' /\ WorkerType'
         /\ Identity' /\ Bounded' /\ ReapOK' /\ DrainOK' /\ signals' <= raised'
         /\ Settled(c, k)
  <1>0. /\ Identity /\ Bounded /\ ReapOK /\ DrainOK /\ signals <= raised
        /\ KernelType /\ ObjectType /\ WorkerType
    BY TypeParts DEF LoopInv
  <1>1. /\ conn[c] \in ConnState /\ conn[c].fd \in Fd
        /\ conns[conn[c].fd] = c /\ phase[c] = "open"
    BY <1>0, HereIsSound, MemberTypes DEF Identity
  <1>2. /\ Sound(k) /\ SameConnection(conn[c], k.c)
        /\ finished(conn[c]) => finished(k.c)
    BY HereIsSound DEF Keeps
  <1>3. Settled(c, k)
    BY <1>0, <1>2, SettleFacts
  <1>4. /\ k.s \in SockState /\ SocketBounded(k.s) /\ k.job \in Job \cup {NoJob}
        /\ sock' = [sock EXCEPT ![c] = k.s]
        /\ script' = script /\ phase' = phase /\ backlog' = backlog
        /\ edges' = edges /\ wake' = wake /\ signals' = signals
        /\ raised' = raised /\ conns' = conns /\ draining' = draining
        /\ posted' = posted /\ completions' = completions
    BY <1>2, ParcelTypes DEF Sound, Settle, netVars
  <1>5. /\ conn' = [conn EXCEPT ![c] = conn'[c]] /\ conn'[c] \in ConnState
        /\ InputBounded(conn'[c])
        /\ conn'[c].fd = conn[c].fd /\ conn'[c].draining = conn[c].draining
        /\ finished(conn'[c]) = finished(k.c)
        /\ reap' = IF finished(k.c) THEN reap \cup {conn[c].fd} ELSE reap
        /\ ready' \subseteq ready \cup {c} /\ rescan' \subseteq rescan \cup {c}
    BY <1>2, <1>3 DEF Settled, SameConnection
  <1>6. conn'[c] # NoConn /\ \A d \in Client : d # c => conn'[d] = conn[d]
    BY <1>5, <1>0, MemberTypes, LoopAssumption DEF ObjectType
  <1>7. KernelType'
    BY <1>0, <1>4, <1>5 DEF KernelType
  <1>8. ObjectType'
    BY <1>0, <1>1, <1>4, <1>5 DEF ObjectType
  <1>9. WorkerType'
    <2>1. CASE k.job = NoJob
      BY <2>1, <1>0, <1>4 DEF Settle, poolVars, WorkerType
    <2>2. CASE k.job # NoJob
      <3>1. queue' = Append(queue, k.job) /\ running' = running /\ closed' = closed
        BY <2>2 DEF Settle, Pool!Submit
      <3>2. queue' \in Seq(Job)
        BY <3>1, <2>2, <1>0, <1>4, SeqAppend DEF WorkerType
      <3> QED
        BY <3>1, <3>2, <1>0, <1>4 DEF WorkerType
    <2> QED
      BY <2>1, <2>2
  <1>10. Identity'
    <2>1. \A fd \in Fd : conns[fd] # NoClient =>
            conn'[conns[fd]] # NoConn /\ conn'[conns[fd]].fd = fd
      BY SMT, <1>0, <1>5, <1>6 DEF Identity, ObjectType
    <2>2. \A d \in Client : conn'[d] # NoConn =>
            conns[conn'[d].fd] = d /\ phase[d] = "open"
      BY SMTT(30), <1>0, <1>1, <1>5, <1>6 DEF Identity
    <2>3. \A d \in Client : phase[d] = "open" => conn'[d] # NoConn
      BY <1>0, <1>6 DEF Identity
    <2>4. \A d \in ready' : conn'[d] # NoConn
      BY <1>0, <1>5, <1>6 DEF Identity, KernelType
    <2> QED
      BY SMT, <2>1, <2>2, <2>3, <2>4, <1>0, <1>4 DEF Identity
  <1>11. Bounded'
    <2>1. \A d \in Client : sock'[d] = IF d = c THEN k.s ELSE sock[d]
      BY <1>0, <1>4 DEF KernelType
    <2> QED
      BY SMTT(30), <2>1, <1>0, <1>1, <1>4, <1>5, <1>6 DEF Bounded
  <1>12. ReapOK'
    <2>1. \A fd \in reap' : conns'[fd] # NoClient
      BY <1>0, <1>1, <1>4, <1>5, LoopAssumption DEF ReapOK
    <2>2. ASSUME NEW d \in Client, conn'[d] # NoConn
          PROVE  finished(conn'[d]) <=> conn'[d].fd \in reap'
      <3>1. CASE d = c
        BY <3>1, <1>0, <1>1, <1>2, <1>5 DEF ReapOK
      <3>2. CASE d # c
        <4>1. conn'[d] = conn[d] /\ conn[d].fd # conn[c].fd
          BY SMT, <3>2, <2>2, <1>0, <1>1, <1>6 DEF Identity
        <4> QED
          BY <4>1, <2>2, <1>0, <1>5 DEF ReapOK
      <3> QED
        BY <3>1, <3>2
    <2> QED
      BY <2>1, <2>2 DEF ReapOK
  <1>13. DrainOK' /\ signals' <= raised'
    BY SMT, <1>0, <1>4, <1>5, <1>6 DEF DrainOK
  <1> QED
    BY <1>3, <1>7, <1>8, <1>9, <1>10, <1>11, <1>12, <1>13

(* The rest of the invariant: no event of c is left, and Settle() armed    *)
(* the input it wants to re-scan.                                          *)
LEMMA SettleInv ==
  ASSUME LoopInv, NEW c \in Client, conn[c] # NoConn, NEW k,
         Keeps(Here(c), k), Settle(c, k),
         pc \in {"events", "completions", "rescan"},
         PhaseType', UNCHANGED <<netVars, pc, conns, flags, posted, completions>>,
         batch'.events \subseteq batch.events, pending' \subseteq pending,
         \A e \in batch'.events : e.of # c,
         pc = "rescan" => "in" \in conn[c].applied_mask,
         c \in rescan => k = Here(c), c \notin pending'
  PROVE  LoopInv'
  <1>0. BatchOK /\ RescanOK /\ ObjectType
    BY TypeParts DEF LoopInv
  <1>1. /\ conns' = conns /\ draining' = draining /\ pc' = pc
        /\ accepting' = accepting /\ pending' \in SUBSET Client
    BY <1>0 DEF flags, ObjectType
  <1>2. /\ KernelType' /\ WorkerType' /\ Identity' /\ Bounded' /\ ReapOK'
        /\ DrainOK' /\ signals' <= raised' /\ Settled(c, k) /\ ObjectType'
    BY <1>1, SettleKeepsObjects
  <1>3. TypeOK'
    BY <1>2, TypePartsNext
  <1>4. InBatch' <=> InBatch
    BY <1>1 DEF InBatch
  <1>5. BatchOK'
    BY <1>0, <1>1, <1>4 DEF BatchOK
  <1>6. /\ \A d \in Client : d # c => conn'[d] = conn[d]
        /\ conn'[c] # NoConn
        /\ rescan' \subseteq rescan \cup {c}
    BY <1>2, <1>0, MemberTypes, LoopAssumption DEF Settled, ObjectType
  <1>7. k.c.applied_mask = conn[c].applied_mask
    BY HereIsSound DEF Keeps, SameConnection
  <1>8. c \in rescan' => want_read(conn'[c]) /\ "in" \in conn'[c].applied_mask
    BY <1>0, <1>2, <1>7, HereIsSound DEF Settled, RescanOK
  <1>9. rescan' # {} => InBatch' \/ pc' = "completions"
    BY <1>0, <1>1, <1>2, <1>4, <1>7 DEF Settled, RescanOK, InBatch
  <1>10. RescanOK'
    <2>1. \A d \in rescan' \cup pending' :
            /\ conn'[d] # NoConn /\ want_read(conn'[d])
            /\ "in" \in conn'[d].applied_mask
      BY <1>0, <1>6, <1>8 DEF RescanOK, ObjectType
    <2>2. \A d \in rescan' : \A e \in batch'.events : e.of # d
      BY <1>0, <1>6 DEF RescanOK
    <2>3. pending' # {} => pc' = "rescan"
      BY <1>0, <1>1 DEF RescanOK
    <2> QED
      BY <2>1, <2>2, <2>3, <1>9 DEF RescanOK
  <1> QED
    BY <1>2, <1>3, <1>5, <1>10 DEF LoopInv

(* The callback of an event, whichever it is; a job comes only from a      *)
(* connection that wanted input.                                           *)
LEMMA CallbackKeeps ==
  ASSUME Contract, LoopInv, NEW c \in Client, conn[c] # NoConn,
         NEW ev \in SUBSET {"in", "out", "hup", "err"}
  PROVE  /\ Keeps(Here(c), Callback(c, ev))
         /\ Callback(c, ev).job # NoJob => want_read(conn[c])
         /\ HandedOver(Here(c), Callback(c, ev), c)
  <1>1. Sound(Here(c)) /\ Here(c).job = NoJob /\ Here(c).c = conn[c]
    BY HereIsSound
  <1>2. /\ Pool!Accepts \in BOOLEAN /\ Here(c) \in K
        /\ ReadableContract /\ WritableContract /\ HangupContract
    BY <1>1 DEF Pool!Accepts, Contract, Sound
  <1> DEFINE k == IF "in" \in ev THEN on_readable(Here(c), c, Pool!Accepts)
                  ELSE Here(c)
  <1>3. CASE ev \cap {"err", "hup"} # {}
    <2>1. Callback(c, ev) = on_hangup(Here(c), ev)
      BY <1>3 DEF Callback
    <2> QED
      BY ZenonT(30), <2>1, <1>1, <1>2 DEF HangupContract, HandedOver
  <1>4. CASE ev \cap {"err", "hup"} = {}
    <2>1. /\ Keeps(Here(c), k) /\ (k.job # NoJob => want_read(conn[c]))
          /\ HandedOver(Here(c), k, c)
      <3>1. CASE "in" \in ev
        BY <3>1, <1>1, <1>2 DEF ReadableContract
      <3>2. CASE "in" \notin ev
        BY <3>2, <1>1 DEF Keeps, SameConnection, HandedOver, SameRequest
      <3> QED
        BY <3>1, <3>2
    <2>2. Callback(c, ev) = k \/ Callback(c, ev) = on_writable(k)
      BY <1>4 DEF Callback
    <2> HIDE DEF k
    <2>3. /\ Keeps(k, on_writable(k)) /\ on_writable(k).job = k.job
          /\ SameRequest(k.c, on_writable(k).c)
      BY <2>1, <1>2 DEF WritableContract, Keeps, Sound
    <2>4. HandedOver(Here(c), on_writable(k), c)
      BY <2>1, <2>3 DEF HandedOver, SameRequest
    <2> QED
      BY SMT, <2>1, <2>2, <2>3, <2>4, KeepsTransitive
  <1> QED
    BY <1>3, <1>4

(* An event finds its own connection, and is the last about it.            *)
LEMMA ConnectionEventInv ==
  ASSUME Contract, LoopInv, NEW e \in batch.events, ConnectionEvent(e)
  PROVE  LoopInv'
  <1> DEFINE c == conns[e.fd]
             k == Callback(c, e.ev)
  <1>0. BatchOK /\ Identity /\ RescanOK /\ ObjectType /\ PhaseType
    BY TypeParts DEF LoopInv
  <1>1. e.fd \in Fd /\ e.of \in Client /\ c = e.of /\ c # NoClient
    BY SMT, <1>0, LoopAssumption DEF PhaseType, Event, BatchOK
  <1>2. c \in Client /\ conn[c] # NoConn
    BY <1>0, <1>1 DEF Identity
  <1>3. Keeps(Here(c), k)
    <2>1. e.ev \in SUBSET {"in", "out", "hup", "err"}
      BY <1>0 DEF PhaseType, Event
    <2> QED
      BY <2>1, <1>2, CallbackKeeps
  <1>4. /\ pc = "events" /\ Settle(c, k)
        /\ batch' = [batch EXCEPT !.events = @ \ {e}]
        /\ UNCHANGED <<netVars, pc, conns, flags, posted, completions>>
        /\ pending' = pending /\ finishing' = finishing
    BY <1>1 DEF ConnectionEvent
  <1>5. /\ batch' \in [events : SUBSET Event, special : SUBSET Special]
        /\ batch'.events = batch.events \ {e}
    BY <1>0, <1>4 DEF PhaseType
  <1>6. PhaseType'
    BY <1>0, <1>4, <1>5 DEF PhaseType, flags
  <1>7. /\ \A f \in batch'.events : f.of # c
        /\ c \notin rescan /\ pending = {}
    BY <1>0, <1>1, <1>4, <1>5 DEF BatchOK, RescanOK
  <1> HIDE DEF c, k
  <1> QED
    BY <1>2, <1>3, <1>4, <1>5, <1>6, <1>7, SettleInv

(* A result for a connection that awaits a re-scan finds nothing in flight.*)
LEMMA ApplyCompletionInv ==
  ASSUME Contract, LoopInv, ApplyCompletion
  PROVE  LoopInv'
  <1> DEFINE r == Head(finishing)
             c == r.conn
             k == on_worker_result(Here(c), r.response, r.seq)
  <1>0. /\ BatchOK /\ Identity /\ RescanOK /\ TypeOK
        /\ ObjectType /\ PhaseType
    BY TypeParts DEF LoopInv
  <1>1. /\ pc = "completions" /\ finishing # <<>> /\ finishing' = Tail(finishing)
        /\ UNCHANGED <<netVars, pc, batch, conns, pending, flags, posted,
                       completions>>
    BY DEF ApplyCompletion
  <1>2. r \in Completion /\ Tail(finishing) \in Seq(Completion)
    BY <1>0, <1>1, SeqHeadTail DEF PhaseType
  <1>3. c \in Client /\ r.response \in Response /\ r.seq \in Nat
    BY <1>2 DEF Completion
  <1>4. PhaseType'
    BY <1>0, <1>1, <1>2 DEF PhaseType, flags
  <1>5. CASE conn[c] = NoConn
    <2>1. UNCHANGED <<sock, conn, reap, rescan, ready, poolVars>>
      BY <1>5 DEF ApplyCompletion
    <2>2. UNCHANGED <<kernelVars, objectVars, workerVars>>
      BY <2>1, <1>1 DEF kernelVars, objectVars, workerVars
    <2>3. KernelType' /\ ObjectType' /\ WorkerType'
      BY <2>2, <1>0, TypeFrame
    <2>4. UNCHANGED Objects
      BY <2>1, <1>1 DEF Objects, netVars, flags
    <2>5. UNCHANGED Iteration
      BY <2>1, <1>1 DEF Iteration, flags
    <2>6. BatchOK' /\ RescanOK'
      BY <2>5, IterationFrame
    <2>7. signals' <= raised'
      BY <1>1 DEF LoopInv, netVars
    <2> QED
      BY <2>3, <2>4, <2>6, <2>7, <1>4, PhaseStep
  <1>6. CASE conn[c] # NoConn
    <2>1. Sound(Here(c)) /\ Here(c).c = conn[c]
      BY <1>3, <1>6, HereIsSound
    <2>2. Settle(c, k)
      BY <1>6 DEF ApplyCompletion
    <2>3. Keeps(Here(c), k)
      BY <2>1, <1>3 DEF Contract, ResultContract, Sound
    <2>4. c \in rescan => k = Here(c)
      BY <2>1, <1>0 DEF RescanOK, want_read, on_worker_result
    <2>5. batch.events = {} /\ pending = {}
      BY <1>0, <1>1 DEF BatchOK, RescanOK, InBatch
    <2> HIDE DEF r, c, k
    <2> QED
      BY <2>2, <2>3, <2>4, <2>5, <1>1, <1>3, <1>4, <1>6, SettleInv
  <1> QED
    BY <1>5, <1>6

(* A re-scan always has its connection, with EPOLLIN armed.                *)
LEMMA RescanInv ==
  ASSUME Contract, LoopInv, NEW c \in Client, Rescan(c)
  PROVE  LoopInv'
  <1> DEFINE k == on_readable(Here(c), c, Pool!Accepts)
  <1>0. BatchOK /\ RescanOK /\ ObjectType /\ PhaseType
    BY TypeParts DEF LoopInv
  <1>1. /\ pc = "rescan" /\ c \in pending /\ pending' = pending \ {c}
        /\ UNCHANGED <<netVars, pc, batch, conns, finishing, flags, posted,
                       completions>>
    BY DEF Rescan
  <1>2. /\ conn[c] # NoConn /\ want_read(conn[c])
        /\ "in" \in conn[c].applied_mask /\ rescan = {} /\ batch.events = {}
    BY <1>0, <1>1 DEF RescanOK, BatchOK, InBatch
  <1>3. Settle(c, k)
    BY <1>2 DEF Rescan
  <1>4. Keeps(Here(c), k)
    <2>1. Sound(Here(c))
      BY <1>2, HereIsSound
    <2>2. Pool!Accepts \in BOOLEAN
      BY DEF Pool!Accepts
    <2> QED
      BY <2>1, <2>2 DEF Contract, ReadableContract, Sound
  <1>5. PhaseType'
    BY <1>0, <1>1 DEF PhaseType, flags
  <1> HIDE DEF k
  <1> QED
    BY <1>1, <1>2, <1>3, <1>4, <1>5, SettleInv

-----------------------------------------------------------------------------
(* Connections are closed: after the iteration, after a tick, at the end.  *)

(* Who owns what, by the two tables.                                       *)
LEMMA OwnedFacts ==
  ASSUME LoopInv, NEW c \in Client
  PROVE  /\ c \in Owned <=> conn[c] # NoConn
         /\ \A fds \in SUBSET Fd :
              /\ (\E fd \in fds : conns[fd] = c)
                   <=> conn[c] # NoConn /\ conn[c].fd \in fds
              /\ Survives(c, fds) <=> conn[c] # NoConn /\ conn[c].fd \notin fds
  <1>1. /\ conn[c] # NoConn => conn[c].fd \in Fd /\ conns[conn[c].fd] = c
        /\ \A fd \in Fd : conns[fd] = c => conn[c] # NoConn /\ conn[c].fd = fd
    <2>1. Identity /\ ObjectType /\ c # NoClient
      BY TypeParts, LoopAssumption DEF LoopInv
    <2> QED
      BY SMT, <2>1, MemberTypes DEF Identity, ObjectType
  <1>2. c \in Owned <=> conn[c] # NoConn
    BY <1>1 DEF Owned
  <1> QED
    BY <1>1, <1>2 DEF Survives

(* Reap(fds), where fds covers what is finished of the connections as they *)
(* are now: the rest survive, and nothing is left to reap.                 *)
LEMMA ReapInv ==
  ASSUME LoopInv, NEW fds \in SUBSET Fd, NEW now, Reap(fds),
         conn' = [c \in Client |-> IF Survives(c, fds) THEN now[c] ELSE NoConn],
         \A c \in Client : conn[c] # NoConn =>
           /\ now[c] \in ConnState /\ InputBounded(now[c])
           /\ now[c].fd = conn[c].fd /\ now[c].draining = conn[c].draining
           /\ finished(now[c]) => conn[c].fd \in fds,
         sock' \in [Client -> SockState],
         \A c \in Client : SocketBounded(sock'[c]),
         \A c \in Client : conn[c] = NoConn => sock'[c] = sock[c],
         pc \notin {"events", "accept"}, rescan = {}, pending = {},
         pc' \notin {"events", "accept"}, PhaseType', WorkerType',
         UNCHANGED <<script, backlog, edges, wake, signals, raised, batch,
                     rescan, pending, draining>>
  PROVE  LoopInv'
  <1>0. /\ Identity /\ Bounded /\ BatchOK /\ ReapOK /\ DrainOK
        /\ signals <= raised /\ KernelType /\ ObjectType
    BY TypeParts DEF LoopInv
  <1>1. ASSUME NEW c \in Client
        PROVE  /\ (\E fd \in fds : conns[fd] = c)
                    <=> conn[c] # NoConn /\ conn[c].fd \in fds
               /\ Survives(c, fds) <=> conn[c] # NoConn /\ conn[c].fd \notin fds
    BY OwnedFacts
  <1>2. /\ \A fd \in Fd : conns'[fd] = IF fd \in fds THEN NoClient ELSE conns[fd]
        /\ conns' \in [Fd -> Client \cup {NoClient}] /\ reap' = {}
    BY <1>0 DEF Reap, ObjectType
  <1>3. /\ phase' \in [Client -> {"new", "backlog", "open", "closed"}]
        /\ \A c \in Client :
             phase'[c] = IF conn[c] # NoConn /\ conn[c].fd \in fds THEN "closed"
                         ELSE phase[c]
    BY <1>0, <1>1 DEF Reap, KernelType
  <1>4. /\ conn' \in [Client -> ConnState \cup {NoConn}]
        /\ \A c \in Client :
             conn'[c] = IF conn[c] # NoConn /\ conn[c].fd \notin fds THEN now[c]
                        ELSE NoConn
    BY <1>1
  <1>5. ready' \subseteq ready
        /\ \A c \in ready' : ~(conn[c] # NoConn /\ conn[c].fd \in fds)
    BY <1>0, <1>1 DEF Reap, KernelType
  <1>6. \A c \in Client : conn[c] # NoConn => now[c] # NoConn /\ now[c].fd \in Fd
    BY LoopAssumption, MemberTypes
  <1>7. TypeOK'
    <2>1. KernelType'
      BY <1>0, <1>3, <1>5 DEF KernelType
    <2>2. ObjectType'
      BY <1>0, <1>2, <1>4 DEF ObjectType
    <2> QED
      BY <2>1, <2>2, TypePartsNext
  <1>8. Identity'
    <2>1. ASSUME NEW fd \in Fd, conns'[fd] # NoClient
          PROVE  conn'[conns'[fd]] # NoConn /\ conn'[conns'[fd]].fd = fd
      <3>1. fd \notin fds /\ conns'[fd] = conns[fd] /\ conns[fd] \in Client
        BY <2>1, <1>0, <1>2 DEF ObjectType
      <3>2. conn[conns[fd]] # NoConn /\ conn[conns[fd]].fd = fd
        BY <3>1, <2>1, <1>0 DEF Identity
      <3> QED
        BY <3>1, <3>2, <1>4, <1>6
    <2>2. ASSUME NEW c \in Client, conn'[c] # NoConn
          PROVE  conns'[conn'[c].fd] = c /\ phase'[c] = "open"
      <3>1. conn[c] # NoConn /\ conn[c].fd \notin fds /\ conn'[c] = now[c]
        BY <2>2, <1>4
      <3>2. conns[conn[c].fd] = c /\ phase[c] = "open"
        BY <3>1, <1>0 DEF Identity
      <3>3. conn'[c].fd = conn[c].fd /\ conn[c].fd \in Fd
        BY <3>1, <1>6
      <3>4. conns'[conn[c].fd] = conns[conn[c].fd]
        BY <3>1, <3>3, <1>2
      <3>5. phase'[c] = phase[c]
        BY <3>1, <1>3
      <3> QED
        BY <3>2, <3>3, <3>4, <3>5
    <2>3. \A c \in Client : phase'[c] = "open" => conn'[c] # NoConn
      BY SMTT(30), <1>0, <1>3, <1>4, <1>6 DEF Identity
    <2>4. \A i \in 1..Len(backlog) : phase'[backlog[i]] = "backlog"
      <3>1. \A i \in 1..Len(backlog) : backlog[i] \in Client
        BY <1>0, SeqElements DEF KernelType
      <3> QED
        BY <3>1, <1>0, <1>3 DEF Identity
    <2>5. \A c \in ready' : conn'[c] # NoConn
      BY <1>0, <1>4, <1>5, <1>6 DEF Identity, KernelType
    <2> QED
      <3>1. /\ backlog' = backlog
            /\ \A i, j \in 1..Len(backlog) : backlog[i] = backlog[j] => i = j
        BY <1>0 DEF Identity
      <3>2. /\ \A i \in 1..Len(backlog') : phase'[backlog'[i]] = "backlog"
            /\ \A i, j \in 1..Len(backlog') : backlog'[i] = backlog'[j] => i = j
        BY <3>1, <2>4
      <3>3. \A fd \in Fd : conns'[fd] # NoClient =>
              conn'[conns'[fd]] # NoConn /\ conn'[conns'[fd]].fd = fd
        BY <2>1
      <3>4. \A c \in Client : conn'[c] # NoConn =>
              conns'[conn'[c].fd] = c /\ phase'[c] = "open"
        BY <2>2
      <3> QED
        BY <3>2, <3>3, <3>4, <2>3, <2>5 DEF Identity
  <1>9. Bounded'
    <2>1. \A c \in Client : phase'[c] \in {"new", "backlog"} => sock'[c].snd = <<>>
      BY <1>0, <1>3 DEF Bounded, Identity
    <2> QED
      BY <2>1, <1>4 DEF Bounded
  <1>10. BatchOK' /\ RescanOK'
    BY <1>0 DEF BatchOK, RescanOK, InBatch
  <1>11. ReapOK' /\ DrainOK' /\ signals' <= raised'
    BY <1>0, <1>2, <1>4 DEF ReapOK, DrainOK
  <1> QED
    BY <1>7, <1>8, <1>9, <1>10, <1>11 DEF LoopInv

(* reap() after the iteration.                                             *)
LEMMA ReapFinishedInv ==
  ASSUME LoopInv, reap_finished
  PROVE  LoopInv'
  <1>0. /\ TypeOK /\ Bounded /\ RescanOK /\ ReapOK
        /\ KernelType /\ ObjectType /\ PhaseType
    BY TypeParts DEF LoopInv
  <1>1. /\ pc \in {"completions", "rescan"} /\ pc' \in {"drain", "timer"}
        /\ pc = "completions" => rescan = {}
        /\ pc = "rescan" => pending = {}
        /\ Reap(reap) /\ sock' = sock
        /\ conn' = [c \in Client |-> IF Survives(c, reap) THEN conn[c] ELSE NoConn]
        /\ UNCHANGED <<script, sock, backlog, edges, wake, signals, raised,
                       batch, rescan, pending, finishing, flags, workerVars>>
    BY DEF reap_finished
  <1>2. rescan = {} /\ pending = {}
    BY <1>0, <1>1 DEF RescanOK, InBatch
  <1>3. PhaseType'
    BY <1>0, <1>1, PcType DEF PC
  <1>4. WorkerType' /\ draining' = draining
    BY <1>0, <1>1, TypeFrame DEF flags
  <1>5. \A c \in Client : conn[c] # NoConn =>
          /\ conn[c] \in ConnState /\ InputBounded(conn[c])
          /\ finished(conn[c]) => conn[c].fd \in reap
    BY <1>0 DEF Bounded, ReapOK, ObjectType
  <1>6. sock' \in [Client -> SockState] /\ \A c \in Client : SocketBounded(sock'[c])
    BY <1>0, <1>1 DEF KernelType, Bounded
  <1>7. reap \in SUBSET Fd
    BY <1>0 DEF ObjectType
  <1> QED
    BY <1>1, <1>2, <1>3, <1>4, <1>5, <1>6, <1>7, ReapInv

(* close_all(), by force or before run() returns.                          *)
LEMMA CloseAllInv ==
  ASSUME LoopInv, close_all, PhaseType', WorkerType',
         pc \in {"timer", "check", "join", "tryjoin"},
         pc' \in {"stop", "returned"},
         UNCHANGED <<script, sock, backlog, edges, wake, signals, raised, batch,
                     rescan, pending, draining>>
  PROVE  LoopInv'
  <1>0. Bounded /\ RescanOK /\ KernelType /\ ObjectType
    BY TypeParts DEF LoopInv
  <1>1. rescan = {} /\ pending = {}
    BY <1>0 DEF RescanOK, InBatch
  <1>2. \A c \in Client : conn[c] # NoConn =>
          conn[c] \in ConnState /\ InputBounded(conn[c]) /\ conn[c].fd \in Fd
    BY <1>0, MemberTypes DEF Bounded, ObjectType
  <1>3. \A c \in Client : ~Survives(c, Fd)
    BY DEF Survives, Owned
  <1>4. /\ Reap(Fd)
        /\ conn' = [c \in Client |-> IF Survives(c, Fd) THEN conn[c] ELSE NoConn]
    BY <1>3 DEF close_all
  <1>5. sock' \in [Client -> SockState] /\ \A c \in Client : SocketBounded(sock'[c])
    BY <1>0 DEF KernelType, Bounded
  <1> QED
    BY <1>1, <1>2, <1>4, <1>5, ReapInv

(* A second signal, or the budget is exhausted.                            *)
LEMMA ForcedExitInv ==
  ASSUME LoopInv, AtCheck, ForcedExit
  PROVE  LoopInv'
  <1>0. TypeOK /\ PhaseType
    BY TypeParts DEF LoopInv
  <1>1. /\ pc \in {"timer", "check"} /\ pc' = "stop" /\ forced' = TRUE /\ close_all
        /\ UNCHANGED <<script, sock, backlog, edges, wake, signals, raised,
                       batch, rescan, pending, finishing, accepting,
                       accept_retry, shutdown_requested, second_signal,
                       draining, detached, workerVars>>
    BY DEF AtCheck, ForcedExit
  <1>2. PhaseType' /\ WorkerType'
    <2>1. PhaseType'
      BY <1>0, <1>1 DEF PhaseType, PC
    <2> QED
      BY <2>1, <1>0, <1>1, TypeFrame
  <1> QED
    BY <1>1, <1>2, CloseAllInv

(* The workers are joined or detached; run() returns.                      *)
LEMMA JoinedInv ==
  ASSUME LoopInv, pc \in {"join", "tryjoin"}, NEW d \in BOOLEAN, Joined(d)
  PROVE  LoopInv'
  <1>0. PhaseType /\ WorkerType
    BY TypeParts DEF LoopInv
  <1>1. /\ pc' = "returned" /\ detached' = d /\ completions' = <<>> /\ close_all
        /\ UNCHANGED <<script, sock, backlog, edges, wake, signals, raised,
                       batch, rescan, pending, finishing, accepting,
                       accept_retry, shutdown_requested, second_signal,
                       draining, forced, poolVars, posted>>
    BY DEF Joined
  <1>2. PhaseType'
    BY <1>0, <1>1 DEF PhaseType, PC
  <1>3. WorkerType'
    BY <1>0, <1>1, SeqEmpty DEF WorkerType, poolVars
  <1> QED
    BY <1>1, <1>2, <1>3, CloseAllInv

(* The listener goes, and with it what nobody accepted.                    *)
LEMMA DestroyInv ==
  ASSUME LoopInv, Destroy
  PROVE  LoopInv'
  <1>0. /\ TypeOK /\ Identity /\ Bounded /\ BatchOK /\ RescanOK /\ ReapOK
        /\ DrainOK /\ signals <= raised /\ KernelType
    BY TypeParts DEF LoopInv
  <1>1. /\ pc = "returned" /\ pc' = "destroyed" /\ backlog' = <<>>
        /\ UNCHANGED <<script, sock, ready, edges, wake, signals, raised, batch,
                       conn, conns, reap, rescan, pending, finishing, flags,
                       workerVars>>
        /\ phase' = [c \in Client |-> IF phase[c] = "backlog" THEN "closed"
                                      ELSE phase[c]]
    BY DEF Destroy
  <1>2. ObjectType' /\ PhaseType' /\ WorkerType'
    BY <1>0, <1>1, TypeFrame, PcType DEF objectVars, PC
  <1>3. KernelType'
    BY <1>0, <1>1, SeqEmpty DEF KernelType
  <1>4. TypeOK'
    BY <1>2, <1>3, TypePartsNext
  <1>5. \A c \in Client : /\ phase'[c] = "open" <=> phase[c] = "open"
                          /\ phase'[c] \in {"new", "backlog"} => phase[c] = "new"
    BY <1>0, <1>1 DEF KernelType
  <1>6. Identity'
    BY SMT, <1>0, <1>1, <1>5, SeqEmpty DEF Identity
  <1>7. Bounded'
    BY <1>0, <1>1, <1>5 DEF Bounded
  <1>8. BatchOK' /\ RescanOK'
    BY <1>0, <1>1 DEF BatchOK, RescanOK, InBatch
  <1>9. ReapOK' /\ DrainOK' /\ signals' <= raised'
    BY <1>0, <1>1 DEF ReapOK, DrainOK, flags
  <1> QED
    BY <1>4, <1>6, <1>7, <1>8, <1>9 DEF LoopInv

(* Every connection drains from here on, and the idle ones are scheduled.  *)
LEMMA BeginDrainInv ==
  ASSUME Contract, LoopInv, maybe_begin_drain
  PROVE  LoopInv'
  <1> DEFINE now == [c \in Client |-> IF c \in Owned THEN begin_draining(conn[c])
                                      ELSE conn[c]]
             done == {c \in Owned : finished(now[c])}
  <1>0. /\ TypeOK /\ Identity /\ Bounded /\ BatchOK /\ RescanOK /\ ReapOK
        /\ signals <= raised /\ KernelType /\ ObjectType /\ PhaseType
    BY TypeParts DEF LoopInv
  <1>1. /\ pc = "drain" /\ pc' = "timer" /\ draining' = TRUE
        /\ conn' = now /\ reap' = reap \cup FdsOf(done)
        /\ UNCHANGED <<kernelVars, batch, conns, rescan, pending, finishing,
                       accepting, accept_retry, shutdown_requested,
                       second_signal, forced, detached, workerVars>>
    BY DEF maybe_begin_drain
  <1>2. \A c \in Client : conn[c] # NoConn =>
          /\ conn[c] \in ConnState /\ InputBounded(conn[c]) /\ conn[c].fd \in Fd
          /\ conns[conn[c].fd] = c /\ c \in Owned
    <2> SUFFICES ASSUME NEW c \in Client, conn[c] # NoConn
                 PROVE  /\ conn[c] \in ConnState /\ InputBounded(conn[c])
                        /\ conn[c].fd \in Fd /\ conns[conn[c].fd] = c
                        /\ c \in Owned
      OBVIOUS
    <2>1. conn[c] \in ConnState /\ InputBounded(conn[c])
      BY <1>0 DEF Bounded, ObjectType
    <2>2. conns[conn[c].fd] = c
      BY <1>0 DEF Identity
    <2>3. c \in Owned
      BY OwnedFacts
    <2> QED
      BY <2>1, <2>2, <2>3, MemberTypes
  <1>3. ASSUME NEW c \in Client, conn[c] # NoConn
        PROVE  /\ now[c] \in ConnState /\ InputBounded(now[c]) /\ now[c] # NoConn
               /\ now[c].fd = conn[c].fd /\ now[c].draining = TRUE
               /\ finished(conn[c]) => finished(now[c])
    <2>1. now[c] = begin_draining(conn[c])
      BY <1>2, <1>3
    <2> QED
      BY <2>1, <1>2, <1>3, LoopAssumption DEF Contract, DrainingContract
  <1>4. \A c \in Client : conn[c] = NoConn => now[c] = NoConn
    BY OwnedFacts
  <1>5. now = [c \in Client |-> now[c]]
    OBVIOUS
  <1>6. done \subseteq Client /\ \A c \in Client : conn[c] # NoConn =>
          (c \in done <=> finished(now[c]))
    BY <1>2 DEF Owned
  <1> HIDE DEF now, done
  <1>7. FdsOf(done) \subseteq Fd /\ \A fd \in Fd : fd \in FdsOf(done) <=> conns[fd] \in done
    BY DEF FdsOf
  <1>8. /\ script' = script /\ sock' = sock /\ phase' = phase
        /\ backlog' = backlog /\ ready' = ready /\ signals' = signals
        /\ raised' = raised
    BY <1>1 DEF kernelVars, netVars
  <1>9. TypeOK'
    <2>1. ObjectType'
      <3>1. now \in [Client -> ConnState \cup {NoConn}]
        BY <1>3, <1>4, <1>5
      <3> QED
        BY <3>1, <1>0, <1>1, <1>7 DEF ObjectType
    <2>2. PhaseType'
      BY <1>0, <1>1 DEF PhaseType, PC
    <2>3. KernelType' /\ WorkerType'
      BY <1>0, <1>1, TypeFrame
    <2> QED
      BY <2>1, <2>2, <2>3, TypePartsNext
  <1>10. Identity'
    <2>1. ASSUME NEW fd \in Fd, conns[fd] # NoClient
          PROVE  now[conns[fd]] # NoConn /\ now[conns[fd]].fd = fd
      <3>1. /\ conns[fd] \in Client /\ conn[conns[fd]] # NoConn
            /\ conn[conns[fd]].fd = fd
        BY <2>1, <1>0 DEF Identity, ObjectType
      <3> QED
        BY <3>1, <1>3
    <2>2. \A c \in Client : now[c] # NoConn =>
            conns[now[c].fd] = c /\ phase[c] = "open"
      BY ZenonT(30), <1>0, <1>3, <1>4 DEF Identity
    <2>3. \A c \in Client : phase[c] = "open" => now[c] # NoConn
      BY <1>0, <1>3 DEF Identity
    <2>4. \A c \in ready : now[c] # NoConn
      BY <1>0, <1>3 DEF Identity, KernelType
    <2> QED
      <3>1. conns' = conns /\ conn' = now
        BY <1>1
      <3>2. /\ \A i \in 1..Len(backlog) : phase[backlog[i]] = "backlog"
            /\ \A i, j \in 1..Len(backlog) : backlog[i] = backlog[j] => i = j
        BY <1>0 DEF Identity
      <3> QED
        BY SMTT(30), <3>1, <3>2, <2>1, <2>2, <2>3, <2>4, <1>8 DEF Identity
  <1>11. Bounded'
    BY <1>0, <1>1, <1>3, <1>4, <1>8 DEF Bounded
  <1>12. BatchOK' /\ RescanOK'
    BY <1>0, <1>1 DEF BatchOK, RescanOK, InBatch
  <1>13. ReapOK'
    <2>1. \A fd \in reap' : conns[fd] # NoClient
      BY <1>0, <1>1, <1>6, <1>7, LoopAssumption DEF ReapOK
    <2>2. ASSUME NEW c \in Client, now[c] # NoConn
          PROVE  finished(now[c]) <=> now[c].fd \in reap'
      <3>1. conn[c] # NoConn
        BY <2>2, <1>4
      <3> QED
        BY ZenonT(30), <3>1, <1>0, <1>1, <1>2, <1>3, <1>6, <1>7 DEF ReapOK
    <2> QED
      BY <2>1, <2>2, <1>1 DEF ReapOK
  <1>14. DrainOK' /\ signals' <= raised'
    BY <1>0, <1>1, <1>3, <1>4, <1>8 DEF DrainOK
  <1> QED
    BY <1>9, <1>10, <1>11, <1>12, <1>13, <1>14 DEF LoopInv

(* on_tick() may finish any connection; reap() takes exactly those away.   *)
LEMMA TickInv ==
  ASSUME Contract, LoopInv, tick
  PROVE  LoopInv'
  <1>0. /\ TypeOK /\ Bounded /\ RescanOK /\ ReapOK
        /\ KernelType /\ ObjectType /\ PhaseType
    BY TypeParts DEF LoopInv
  <1>1. PICK idle \in SUBSET Owned :
          LET now == [c \in Owned |-> on_tick(Here(c), c \in idle)]
              fds == reap \cup FdsOf({c \in Owned : finished(now[c].c)})
          IN  /\ Reap(fds)
              /\ sock' = [c \in Client |-> IF c \in Owned THEN now[c].s ELSE sock[c]]
              /\ conn' = [c \in Client |-> IF Survives(c, fds) THEN now[c].c
                                           ELSE NoConn]
    BY DEF tick
  <1> DEFINE after == [c \in Owned |-> on_tick(Here(c), c \in idle)]
             now == [c \in Client |-> after[c].c]
             done == {c \in Owned : finished(after[c].c)}
             fds == reap \cup FdsOf(done)
  <1>2. /\ pc = "tick" /\ pc' = "check"
        /\ UNCHANGED <<script, backlog, edges, wake, signals, raised, batch,
                       rescan, pending, finishing, flags, workerVars>>
    BY DEF tick
  <1>3. /\ Reap(fds)
        /\ sock' = [c \in Client |-> IF c \in Owned THEN after[c].s ELSE sock[c]]
        /\ conn' = [c \in Client |-> IF Survives(c, fds) THEN now[c] ELSE NoConn]
    <2>1. /\ Reap(fds)
          /\ sock' = [c \in Client |-> IF c \in Owned THEN after[c].s ELSE sock[c]]
          /\ conn' = [c \in Client |-> IF Survives(c, fds) THEN after[c].c
                                       ELSE NoConn]
      BY <1>1
    <2> HIDE DEF after, fds
    <2> QED
      BY <2>1
  <1>4. ASSUME NEW c \in Client, conn[c] # NoConn
        PROVE  /\ c \in Owned /\ Sound(after[c])
               /\ now[c] = after[c].c
               /\ after[c].c.fd = conn[c].fd
               /\ after[c].c.draining = conn[c].draining
               /\ finished(now[c]) => conn[c].fd \in fds
    <2>1. c \in Owned /\ (c \in idle) \in BOOLEAN
      BY SMT, <1>4, OwnedFacts
    <2>2. after[c] = on_tick(Here(c), c \in idle) /\ now[c] = after[c].c
      BY <2>1
    <2>3. Sound(Here(c)) /\ Here(c).c = conn[c] /\ conn[c] \in ConnState
      BY <1>4, HereIsSound
    <2>4. Sound(after[c]) /\ SameConnection(conn[c], after[c].c)
      BY <2>1, <2>2, <2>3 DEF Contract, TickContract, Sound
    <2>5. conn[c].fd \in Fd /\ conns[conn[c].fd] = c
      BY <2>3, <1>4, MemberTypes DEF LoopInv, Identity
    <2>6. finished(now[c]) => c \in done
      BY <2>1, <2>2
    <2> HIDE DEF after, done, now
    <2>7. finished(now[c]) => conn[c].fd \in fds
      BY <2>5, <2>6 DEF FdsOf
    <2> QED
      BY <2>1, <2>2, <2>4, <2>7 DEF SameConnection
  <1> HIDE DEF after, done, now
  <1>5. \A c \in Client : c \in Owned <=> conn[c] # NoConn
    BY OwnedFacts
  <1>6. \A c \in Client :
          /\ sock'[c] = IF conn[c] # NoConn THEN after[c].s ELSE sock[c]
          /\ conn[c] # NoConn =>
               /\ now[c] \in ConnState /\ InputBounded(now[c])
               /\ now[c].fd = conn[c].fd /\ now[c].draining = conn[c].draining
               /\ finished(now[c]) => conn[c].fd \in fds
               /\ after[c].s \in SockState /\ SocketBounded(after[c].s)
    BY <1>3, <1>4, <1>5, ParcelTypes DEF Sound
  <1>7. sock' \in [Client -> SockState] /\ \A c \in Client : SocketBounded(sock'[c])
    BY <1>0, <1>3, <1>6 DEF KernelType, Bounded
  <1>8. rescan = {} /\ pending = {}
    BY <1>0, <1>2 DEF RescanOK, InBatch
  <1>9. PhaseType' /\ WorkerType' /\ draining' = draining
    BY <1>0, <1>2, PcType, TypeFrame DEF PC, flags
  <1>10. fds \in SUBSET Fd
    BY <1>0 DEF ObjectType, FdsOf
  <1> HIDE DEF fds
  <1> QED
    BY <1>2, <1>3, <1>6, <1>7, <1>8, <1>9, <1>10, ReapInv

-----------------------------------------------------------------------------
(* A client that is accepted, and what a callback and a tick leave alone.  *)

(* What the orders and bounds of a connection depend on.                   *)
Alike(c, d) == /\ d.alive = c.alive /\ d.close_after = c.close_after
               /\ d.peer_eof = c.peer_eof /\ d.in_flight = c.in_flight
               /\ d.inflight_seq = c.inflight_seq /\ d.next_seq = c.next_seq
               /\ d.in = c.in /\ d.out = c.out

(* The client at the head of the accept queue.                             *)
LEMMA HeadOfBacklog ==
  ASSUME TypeOK, Identity, backlog # <<>>
  PROVE  LET c == Head(backlog)
             rest == Tail(backlog)
         IN  /\ c \in Client /\ phase[c] = "backlog" /\ conn[c] = NoConn
             /\ c \notin ready
             /\ rest \in Seq(Client)
             /\ \A i \in 1..Len(rest) : /\ rest[i] \in Client /\ rest[i] # c
                                        /\ phase[rest[i]] = "backlog"
             /\ \A i, j \in 1..Len(rest) : rest[i] = rest[j] => i = j
  <1> DEFINE c == Head(backlog)
             rest == Tail(backlog)
  <1>0. backlog \in Seq(Client) /\ Len(backlog) \in Nat /\ Len(backlog) > 0
    BY SMT, SeqEmpty, SeqElements DEF TypeOK
  <1>1. /\ c \in Client /\ c = backlog[1]
        /\ rest \in Seq(Client) /\ Len(rest) = Len(backlog) - 1
        /\ \A i \in 1..Len(rest) : rest[i] = backlog[i + 1]
    BY <1>0, SeqHeadTail
  <1> HIDE DEF c, rest
  <1>2. \A i \in 1..Len(rest) : i + 1 \in 1..Len(backlog) /\ i \in Nat /\ i + 1 # 1
    BY SMT, <1>0, <1>1
  <1>3. 1 \in 1..Len(backlog)
    BY SMT, <1>0
  <1>4. \A i \in 1..Len(rest) : rest[i] \in Client
    BY <1>1, SeqElements
  <1>5. phase[c] = "backlog"
    BY <1>1, <1>3 DEF Identity
  <1>6. conn[c] = NoConn /\ c \notin ready
    BY <1>1, <1>5 DEF Identity
  <1>7. \A i \in 1..Len(rest) : rest[i] # c /\ phase[rest[i]] = "backlog"
    BY SMT, <1>1, <1>2, <1>3 DEF Identity
  <1>8. \A i, j \in 1..Len(rest) : rest[i] = rest[j] => i = j
    <2> SUFFICES ASSUME NEW i \in 1..Len(rest), NEW j \in 1..Len(rest),
                        rest[i] = rest[j]
                 PROVE  i = j
      OBVIOUS
    <2>1. i + 1 = j + 1
      BY SMT, <1>1, <1>2 DEF Identity
    <2> QED
      BY SMT, <2>1, <1>2
  <1> QED
    BY <1>1, <1>4, <1>5, <1>6, <1>7, <1>8 DEF c, rest

(* A Connection as accept_batch() makes it.                                *)
LEMMA NewConnFacts ==
  ASSUME NEW fd \in Fd
  PROVE  LET d == NewConn(fd)
         IN  /\ d \in ConnState /\ InputBounded(d) /\ d.fd = fd
             /\ d.applied_mask = {"in"} /\ d.draining = FALSE /\ ~finished(d)
  <1>1. NewConn(fd) \in ConnState
    BY SeqEmpty DEF NewConn, ConnState
  <1>2. /\ NewConn(fd).fd = fd /\ NewConn(fd).applied_mask = {"in"}
        /\ NewConn(fd).draining = FALSE /\ NewConn(fd).alive = TRUE
        /\ NewConn(fd).close_after = FALSE /\ NewConn(fd).in = <<>>
        /\ NewConn(fd).consumed = 0
    BY DEF NewConn
  <1>3. InputBounded(NewConn(fd))
    BY SMT, <1>2, ConnectionAssumption, SeqEmpty DEF InputBounded
  <1>4. ~finished(NewConn(fd))
    BY <1>2 DEF finished
  <1> QED
    BY <1>1, <1>2, <1>3, <1>4

(* Settle() stores what the callback left, but for the mask.               *)
LEMMA SettleAlike ==
  ASSUME ObjectType, NEW c \in Client, NEW k, Sound(k), Settle(c, k)
  PROVE  Alike(k.c, conn'[c])
  <1> DEFINE d == [k.c EXCEPT !.applied_mask = interest_mask(k.c)]
  <1>0. k.c \in ConnState /\ conn \in [Client -> ConnState \cup {NoConn}]
    BY ParcelTypes DEF Sound, ObjectType
  <1>1. \/ conn' = [conn EXCEPT ![c] = k.c]
        \/ conn' = [conn EXCEPT ![c] = d]
    BY DEF Settle, ModFails, set_interest
  <1>2. Alike(k.c, d)
    BY <1>0 DEF Alike, ConnState
  <1>3. Alike(k.c, k.c)
    BY DEF Alike
  <1> HIDE DEF d
  <1>4. conn'[c] = k.c \/ conn'[c] = d
    BY <1>0, <1>1
  <1> QED
    BY <1>2, <1>3, <1>4

(* What a tick does to one connection: on_tick(), and then the reaping of  *)
(* what is finished.                                                       *)
Ticked(c, m) ==
  /\ sock'[c] = m.s
  /\ conn'[c] = IF finished(conn[c]) \/ finished(m.c) THEN NoConn ELSE m.c

LEMMA TickCases ==
  ASSUME LoopInv, tick, NEW c \in Client
  PROVE  /\ conn[c] = NoConn => conn'[c] = NoConn /\ sock'[c] = sock[c]
         /\ conn[c] # NoConn => \E idle \in BOOLEAN : Ticked(c, on_tick(Here(c), idle))
  <1>0. ReapOK /\ Identity /\ ObjectType
    BY TypeParts DEF LoopInv
  <1>1. PICK idle \in SUBSET Owned :
          LET now == [d \in Owned |-> on_tick(Here(d), d \in idle)]
              fds == reap \cup FdsOf({d \in Owned : finished(now[d].c)})
          IN  /\ Reap(fds)
              /\ sock' = [d \in Client |-> IF d \in Owned THEN now[d].s ELSE sock[d]]
              /\ conn' = [d \in Client |-> IF Survives(d, fds) THEN now[d].c
                                           ELSE NoConn]
    BY DEF tick
  <1> DEFINE now == [d \in Owned |-> on_tick(Here(d), d \in idle)]
             done == {d \in Owned : finished(now[d].c)}
             fds == reap \cup FdsOf(done)
  <1>2. /\ sock' = [d \in Client |-> IF d \in Owned THEN now[d].s ELSE sock[d]]
        /\ conn' = [d \in Client |-> IF Survives(d, fds) THEN now[d].c ELSE NoConn]
    BY <1>1
  <1>3. fds \in SUBSET Fd
    BY <1>0 DEF ObjectType, FdsOf
  <1>4. /\ c \in Owned <=> conn[c] # NoConn
        /\ Survives(c, fds) <=> conn[c] # NoConn /\ conn[c].fd \notin fds
    BY <1>3, OwnedFacts
  <1>5. c \in Owned => now[c] = on_tick(Here(c), c \in idle)
    OBVIOUS
  <1>6. c \in done <=> c \in Owned /\ finished(now[c].c)
    OBVIOUS
  <1> HIDE DEF now, done
  <1>7. ASSUME conn[c] # NoConn
        PROVE  conn[c].fd \in fds <=> finished(conn[c]) \/ finished(now[c].c)
    <2>1. conn[c].fd \in Fd /\ conns[conn[c].fd] = c
      BY <1>0, <1>7, MemberTypes DEF Identity, ObjectType
    <2>2. conn[c].fd \in FdsOf(done) <=> finished(now[c].c)
      BY <2>1, <1>4, <1>6, <1>7 DEF FdsOf
    <2>3. conn[c].fd \in reap <=> finished(conn[c])
      BY <1>0, <1>7 DEF ReapOK
    <2> QED
      BY <2>2, <2>3
  <1> HIDE DEF fds
  <1>8. ASSUME conn[c] # NoConn
        PROVE  Ticked(c, now[c])
    BY <1>2, <1>4, <1>7, <1>8 DEF Ticked
  <1>9. (c \in idle) \in BOOLEAN
    BY SMT
  <1> QED
    BY <1>2, <1>4, <1>5, <1>8, <1>9

-----------------------------------------------------------------------------
(* What the loop's own steps do to the pool and the completion queue.      *)

(* accept_batch() touches no worker's state and stays in its iteration.    *)
LEMMA AcceptFrame ==
  ASSUME TypeOK, accept_batch
  PROVE  /\ UNCHANGED <<workerVars, wake, detached>>
         /\ pc' \in {"accept", "events", "tick"}
         /\ InBatch => InBatch'
  <1>0. accepting \in [tries : 0..AcceptBatch, back : {"events", "tick"}]
    BY DEF TypeOK
  <1>1. ASSUME NEW r, pc = "accept", LeaveAccept(r)
        PROVE  /\ UNCHANGED <<workerVars, wake, detached>>
               /\ pc' \in {"accept", "events", "tick"}
               /\ InBatch => InBatch'
    BY <1>0, <1>1 DEF LeaveAccept, InBatch, kernelVars, netVars
  <1>2. ASSUME pc = "accept", NextTry, UNCHANGED <<workerVars, wake, detached, pc>>
        PROVE  /\ UNCHANGED <<workerVars, wake, detached>>
               /\ pc' \in {"accept", "events", "tick"}
               /\ InBatch => InBatch'
    BY <1>0, <1>2 DEF NextTry, InBatch
  <1>3. CASE AcceptDrained \/ AcceptNoDescriptor \/ AcceptBatchFull \/ AcceptError
    BY <1>1, <1>3 DEF AcceptDrained, AcceptNoDescriptor,
       AcceptBatchFull, AcceptError, Accepting
  <1>4. CASE AcceptAborted \/ reject_connection \/ AddFails
    <2>1. pc = "accept" /\ \E c, s : Dismiss(c, s)
      BY <1>4 DEF AcceptAborted, reject_connection, AddFails, Accepting
    <2> QED
      BY <2>1, <1>2 DEF Dismiss
  <1>5. CASE \E fd \in Fd : Admit(fd)
    BY <1>2, <1>5 DEF Admit, Accepting
  <1> QED
    BY <1>3, <1>4, <1>5 DEF accept_batch

(* No other step of the loop submits or ends a job, or returns from run(); *)
(* and it consumes a wakeup only in an iteration that has yet to swap      *)
(* completions_.                                                           *)
LEMMA OuterFrame ==
  ASSUME TypeOK, OuterStep
  PROVE  /\ UNCHANGED <<poolVars, posted, detached>>
         /\ pc' \notin {"returned", "destroyed"}
         /\ \/ completions' = completions /\ wake' = wake /\ (InBatch => InBatch')
            \/ completions' = <<>>
            \/ InBatch'
  <1>1. CASE EpollWait
    BY <1>1 DEF EpollWait, workerVars, flags, InBatch
  <1>2. CASE drain_wake \/ handle_signals
    BY <1>2 DEF drain_wake, handle_signals, workerVars, flags, InBatch
  <1>3. CASE ListenerEvent
    BY <1>3 DEF ListenerEvent, workerVars, InBatch
  <1>4. CASE accept_batch
    BY <1>4, AcceptFrame DEF workerVars
  <1>5. CASE SwapCompletions
    BY <1>5 DEF SwapCompletions, flags
  <1>6. CASE SwapRescans \/ EpollWaitFails \/ BeginTick
    BY <1>6 DEF SwapRescans, EpollWaitFails, BeginTick, kernelVars, netVars,
       workerVars, flags, InBatch
  <1>7. CASE reap_finished \/ tick
    BY <1>7 DEF reap_finished, tick, workerVars, flags, InBatch
  <1>8. CASE maybe_begin_drain \/ GoOn \/ LeaveQuietly
    BY <1>8 DEF maybe_begin_drain, GoOn, LeaveQuietly, AtCheck, kernelVars,
       netVars, workerVars, flags, InBatch
  <1>9. CASE LeaveOnSecondSignal \/ BudgetExhausted
    BY <1>9 DEF LeaveOnSecondSignal, BudgetExhausted, ForcedExit, AtCheck,
       workerVars, InBatch
  <1> QED
    BY <1>1, <1>2, <1>3, <1>4, <1>5, <1>6, <1>7, <1>8, <1>9 DEF OuterStep

-----------------------------------------------------------------------------
(* Workers and the end of run().  A worker between the push and the wakeup *)
(* still holds its job, so a join that waits for every job waits for every *)
(* wakeup too.                                                             *)
JoinInv ==
  /\ \A w \in posted : running[w] # NoJob
  /\ pc \in {"returned", "destroyed"} /\ ~detached => Pool!Drained /\ posted = {}

(* Every step preserves JoinInv.                                           *)
LEMMA JoinInvNext ==
  ASSUME TypeOK, JoinInv, [Next]_vars
  PROVE  JoinInv'
  <1>0. /\ running \in [Worker -> Job \cup {NoJob}] /\ queue \in Seq(Job)
        /\ posted \subseteq Worker /\ WorkerType
    BY TypeParts DEF WorkerType
  <1>1. CASE EnvStep \/ UNCHANGED vars
    <2>1. UNCHANGED <<pc, detached, queue, running, closed, posted>>
      BY <1>1, EnvFrame DEF vars, loopVars, flags, workerVars, poolVars
    <2> QED
      BY <2>1 DEF JoinInv, Pool!Drained
  <1>2. CASE SettlingStep
    <2>1. /\ UNCHANGED <<pc, running, posted>>
          /\ pc \in {"events", "completions", "rescan"}
      BY <1>2, SettlingFrame
    <2> QED
      BY <2>1 DEF JoinInv
  <1>3. CASE OuterStep
    <2>1. UNCHANGED <<running, posted>> /\ pc' \notin {"returned", "destroyed"}
      BY <1>3, OuterFrame DEF poolVars
    <2> QED
      BY <2>1 DEF JoinInv
  <1>4. CASE StopPool \/ Exit
    BY <1>4 DEF StopPool, Exit, Pool!Close, JoinInv, workerVars, poolVars
  <1>5. CASE Destroy
    BY <1>5 DEF Destroy, JoinInv, Pool!Drained, flags, workerVars, poolVars
  <1>6. CASE WorkersJoined
    <2>1. /\ Pool!Drained /\ UNCHANGED <<queue, running, closed, posted>>
      BY <1>6 DEF WorkersJoined, Joined, poolVars
    <2>2. posted = {}
      BY <2>1, <1>0 DEF JoinInv, Pool!Drained
    <2> QED
      BY <2>1, <2>2 DEF JoinInv, Pool!Drained
  <1>7. CASE WorkersDetached
    BY <1>7 DEF WorkersDetached, Joined, JoinInv, poolVars
  <1>8. ASSUME NEW w \in Worker, WorkerStep(w)
        PROVE  JoinInv'
    <2>1. UNCHANGED <<pc, detached>>
      BY <1>8 DEF WorkerStep, WorkerTakes, post_completion, Wake, loopVars, flags
    <2>2. CASE WorkerTakes(w)
      <3>1. /\ running[w] = NoJob /\ queue # <<>> /\ posted' = posted
            /\ running' = [running EXCEPT ![w] = Head(queue)]
        BY <2>2 DEF WorkerTakes, Pool!Start
      <3> QED
        BY <3>1, <2>1, <1>0 DEF JoinInv, Pool!Drained
    <2>3. CASE post_completion(w)
      <3>1. /\ running[w] # NoJob /\ running' = running
            /\ posted' = posted \cup {w}
        BY <2>3 DEF post_completion, poolVars
      <3> QED
        BY <3>1, <2>1, <1>0 DEF JoinInv, Pool!Drained
    <2>4. CASE Wake(w)
      <3>1. /\ w \in posted /\ posted' = posted \ {w}
            /\ running' = [running EXCEPT ![w] = NoJob]
        BY <2>4 DEF Wake, Pool!Finish
      <3> QED
        BY <3>1, <2>1, <1>0 DEF JoinInv
    <2> QED
      BY <2>2, <2>3, <2>4, <1>8 DEF WorkerStep
  <1> QED
    BY <1>1, <1>2, <1>3, <1>4, <1>5, <1>6, <1>7, <1>8, NextCases DEF LastStep

-----------------------------------------------------------------------------
(* The wakeup is outside the lock.  A pushed result is followed by a       *)
(* wakeup that is still to come (posted), has come (wake), or was consumed *)
(* by drain_wake(), in an iteration that has yet to swap the queue.        *)
CompletionInv == completions # <<>> => wake \/ posted # {} \/ InBatch

(* Every step preserves CompletionInv.                                     *)
LEMMA CompletionInvNext ==
  ASSUME TypeOK, CompletionInv, [Next]_vars
  PROVE  CompletionInv'
  <1>1. CASE EnvStep \/ UNCHANGED vars
    <2>1. UNCHANGED <<pc, accepting, wake, posted, completions>>
      BY <1>1, EnvFrame DEF vars, kernelVars, netVars, loopVars, flags, workerVars
    <2> QED
      BY <2>1 DEF CompletionInv, InBatch
  <1>2. CASE SettlingStep
    <2>1. UNCHANGED <<pc, accepting, wake, posted, completions>>
      BY <1>2, SettlingFrame DEF netVars, flags
    <2> QED
      BY <2>1 DEF CompletionInv, InBatch
  <1>3. CASE OuterStep
    BY <1>3, OuterFrame DEF CompletionInv
  <1>4. CASE StopPool \/ Destroy \/ Exit
    <2>1. UNCHANGED <<wake, posted, completions>> /\ ~InBatch
      BY <1>4 DEF StopPool, Destroy, Exit, InBatch, kernelVars, netVars, workerVars
    <2> QED
      BY <2>1 DEF CompletionInv
  <1>5. CASE WorkersJoined \/ WorkersDetached
    BY <1>5 DEF WorkersJoined, WorkersDetached, Joined, CompletionInv
  <1>6. ASSUME NEW w \in Worker, WorkerStep(w)
        PROVE  CompletionInv'
    <2>1. CASE WorkerTakes(w)
      BY <2>1 DEF WorkerTakes, CompletionInv, InBatch, kernelVars, netVars,
         loopVars, flags
    <2>2. CASE post_completion(w)
      BY <2>2 DEF post_completion, CompletionInv
    <2>3. CASE Wake(w)
      BY <2>3 DEF Wake, CompletionInv
    <2> QED
      BY <2>1, <2>2, <2>3, <1>6 DEF WorkerStep
  <1> QED
    BY <1>1, <1>2, <1>3, <1>4, <1>5, <1>6, NextCases DEF LastStep

-----------------------------------------------------------------------------
(* The edge of the listener is in the kernel, in the result set, being     *)
(* served, or replaced by the retry flag.                                  *)
ListenerInv ==
  backlog # <<>> => \/ "listen" \in edges \/ accept_retry \/ pc = "accept"
                    \/ pc = "events" /\ "listen" \in batch.special

(* accept_batch() leaves with an empty backlog or the retry flag set.      *)
LEMMA AcceptKeepsListener ==
  ASSUME "accept" \notin Faults, accept_batch
  PROVE  ListenerInv'
  <1>1. CASE AcceptDrained
    BY <1>1 DEF AcceptDrained, LeaveAccept, ListenerInv, kernelVars, netVars
  <1>2. CASE AcceptNoDescriptor \/ AcceptBatchFull
    BY <1>2 DEF AcceptNoDescriptor, AcceptBatchFull, LeaveAccept, ListenerInv
  <1>3. CASE AcceptError
    BY <1>3 DEF AcceptError
  <1>4. CASE AcceptAborted \/ reject_connection \/ AddFails
    <2>1. pc = "accept" /\ \E c, s : Dismiss(c, s)
      BY <1>4 DEF AcceptAborted, reject_connection, AddFails, Accepting
    <2> QED
      BY <2>1 DEF Dismiss, ListenerInv
  <1>5. CASE \E fd \in Fd : Admit(fd)
    BY <1>5 DEF Admit, Accepting, ListenerInv
  <1> QED
    BY <1>1, <1>2, <1>3, <1>4, <1>5 DEF accept_batch

(* A step after the result set has been handled.                           *)
LEMMA ListenerFrame ==
  ASSUME ListenerInv, pc \notin {"events", "accept"},
         UNCHANGED <<backlog, edges, accept_retry>>
  PROVE  ListenerInv'
  BY DEF ListenerInv

(* Every step preserves ListenerInv.                                       *)
LEMMA ListenerInvNext ==
  ASSUME "accept" \notin Faults, TypeOK, ListenerInv, [Next]_vars
  PROVE  ListenerInv'
  <1>0. batch \in [events : SUBSET Event, special : SUBSET Special]
    BY DEF TypeOK
  <1>1. CASE EnvStep
    <2>1. UNCHANGED <<pc, accept_retry, batch>>
      BY <1>1, EnvFrame DEF loopVars, flags
    <2>2. \/ edges' = edges /\ backlog' = backlog
          \/ edges' = edges \cup {"listen"}
          \/ edges' = edges \cup {"sig"} /\ backlog' = backlog
      BY <1>1 DEF EnvStep, ClientStep, RaiseSignal, Connect, Send,
         HalfClose, Vanish, Read, netVars
    <2> QED
      BY <2>1, <2>2 DEF ListenerInv
  <1>2. CASE \E e \in batch.events : ConnectionEvent(e)
    BY SMT, <1>0, <1>2 DEF ConnectionEvent, ListenerInv, netVars, flags
  <1>3. CASE ApplyCompletion \/ \E c \in Client : Rescan(c)
    BY <1>3, ListenerFrame DEF ApplyCompletion, Rescan, netVars, flags
  <1>4. CASE EpollWait
    BY <1>4 DEF EpollWait, ListenerInv, flags
  <1>5. CASE drain_wake \/ handle_signals
    BY <1>0, <1>5 DEF drain_wake, handle_signals, ListenerInv, flags
  <1>6. CASE ListenerEvent
    BY <1>6 DEF ListenerEvent, ListenerInv
  <1>7. CASE accept_batch
    BY <1>7, AcceptKeepsListener
  <1>8. CASE SwapCompletions
    BY <1>8 DEF SwapCompletions, ListenerInv, kernelVars, netVars, flags
  <1>9. CASE BeginTick
    BY <1>9 DEF BeginTick, ListenerInv, kernelVars, netVars
  <1>10. CASE EpollWaitFails \/ SwapRescans \/ GoOn \/ LeaveQuietly
    BY <1>10, ListenerFrame DEF EpollWaitFails, SwapRescans, GoOn, LeaveQuietly,
       AtCheck, kernelVars, netVars, flags
  <1>11. CASE reap_finished \/ maybe_begin_drain \/ tick
    BY <1>11, ListenerFrame DEF reap_finished, maybe_begin_drain, tick,
       kernelVars, netVars, flags
  <1>12. CASE LeaveOnSecondSignal \/ BudgetExhausted
    BY <1>12, ListenerFrame DEF LeaveOnSecondSignal, BudgetExhausted,
       ForcedExit, AtCheck
  <1>13. CASE StopPool \/ WorkersJoined \/ WorkersDetached \/ Exit
    BY <1>13, ListenerFrame DEF StopPool, WorkersJoined, WorkersDetached,
       Joined, Exit, kernelVars, netVars, flags
  <1>14. CASE Destroy
    BY <1>14 DEF Destroy, ListenerInv
  <1>15. ASSUME NEW w \in Worker, WorkerStep(w)
         PROVE  ListenerInv'
    <2>1. UNCHANGED <<pc, accept_retry, batch, edges, backlog>>
      BY <1>15 DEF WorkerStep, WorkerTakes, post_completion, Wake, kernelVars,
         netVars, loopVars, flags
    <2> QED
      BY <2>1 DEF ListenerInv
  <1>16. CASE UNCHANGED vars
    BY <1>16 DEF ListenerInv, vars, kernelVars, netVars, loopVars, flags
  <1> QED
    BY <1>1, <1>2, <1>3, <1>4, <1>5, <1>6, <1>7, <1>8, <1>9, <1>10,
       <1>11, <1>12, <1>13, <1>14, <1>15, <1>16, NextCases
       DEF SettlingStep, OuterStep, LastStep

-----------------------------------------------------------------------------
(* What the loop is told.  Every result is the answer to the request it    *)
(* names; an error event is about a peer that is dead; and what finished   *)
(* before a tick has been reaped, unless the drain has just finished it.   *)
Results(s) ==
  \A i \in 1..Len(s) : Answering(s[i].response, s[i].conn, s[i].seq)
AnswerInv == Results(completions) /\ Results(finishing)

BeforeTick == pc \in {"timer", "tick"} \/ (pc = "accept" /\ accepting.back = "tick")
OverInv == BeforeTick => reap = {} \/ draining

(* A handler's response answers the job it was called with.                *)
LEMMA ResponseAnswers ==
  ASSUME NEW j \in Job
  PROVE  Answering(ResponseTo(j), j.conn, j.seq)
  BY ConnectionAssumption DEF ResponseTo, Answering, Final

(* No results, fewer results, and one more.                                *)
LEMMA ResultFacts ==
  ASSUME NEW s \in Seq(Completion), Results(s)
  PROVE  /\ Results(<<>>)
         /\ s # <<>> => Results(Tail(s)) /\ Answering(Head(s).response,
                                                      Head(s).conn, Head(s).seq)
         /\ \A r \in Completion : Answering(r.response, r.conn, r.seq) =>
              Results(Append(s, r))
  <1>0. Len(s) \in Nat /\ (s = <<>> <=> Len(s) = 0)
    BY SeqElements
  <1>1. Results(<<>>)
    BY SMT DEF Results
  <1>2. ASSUME s # <<>>
        PROVE  Results(Tail(s)) /\ Answering(Head(s).response, Head(s).conn,
                                             Head(s).seq)
    <2>1. /\ Head(s) = s[1] /\ Len(Tail(s)) = Len(s) - 1
          /\ \A i \in 1..Len(Tail(s)) : Tail(s)[i] = s[i + 1]
      BY <1>2, SeqHeadTail
    <2>2. 1 \in 1..Len(s) /\ \A i \in 1..(Len(s) - 1) : i + 1 \in 1..Len(s)
      BY SMT, <1>0, <1>2
    <2> QED
      BY <2>1, <2>2 DEF Results
  <1>3. ASSUME NEW r \in Completion, Answering(r.response, r.conn, r.seq)
        PROVE  Results(Append(s, r))
    <2>1. /\ Len(Append(s, r)) = Len(s) + 1 /\ Append(s, r)[Len(s) + 1] = r
          /\ \A i \in 1..Len(s) : Append(s, r)[i] = s[i]
      BY SMT, SeqAppend
    <2>2. \A i \in 1..(Len(s) + 1) : i = Len(s) + 1 \/ i \in 1..Len(s)
      BY SMT, <1>0
    <2>3. \A i \in 1..(Len(s) + 1) :
            \/ Append(s, r)[i] = r
            \/ i \in 1..Len(s) /\ Append(s, r)[i] = s[i]
      BY <2>1, <2>2
    <2>4. ASSUME NEW t, Len(t) = Len(s) + 1,
                 \A i \in 1..(Len(s) + 1) :
                   t[i] = r \/ (i \in 1..Len(s) /\ t[i] = s[i])
          PROVE  Results(t)
      BY <2>4, <1>3 DEF Results
    <2> QED
      BY <2>1, <2>3, <2>4
  <1> QED
    BY <1>1, <1>2, <1>3

(* Every step preserves AnswerInv.                                         *)
LEMMA AnswerInvNext ==
  ASSUME TypeOK, AnswerInv, [Next]_vars
  PROVE  AnswerInv'
  <1>0. /\ completions \in Seq(Completion) /\ finishing \in Seq(Completion)
        /\ running \in [Worker -> Job \cup {NoJob}]
    BY TypeParts DEF WorkerType, PhaseType
  <1>1. CASE UNCHANGED <<completions, finishing>>
    BY <1>1 DEF AnswerInv, Results
  <1>2. CASE SwapCompletions
    BY <1>0, <1>2, ResultFacts DEF SwapCompletions, AnswerInv
  <1>3. CASE ApplyCompletion
    BY <1>0, <1>3, ResultFacts DEF ApplyCompletion, AnswerInv
  <1>4. CASE WorkersJoined \/ WorkersDetached
    BY <1>0, <1>4, ResultFacts DEF WorkersJoined, WorkersDetached, Joined, AnswerInv
  <1>5. ASSUME NEW w \in Worker, post_completion(w)
        PROVE  AnswerInv'
    <2>1. PICK r : r = [conn |-> running[w].conn, seq |-> running[w].seq,
                        response |-> ResponseTo(running[w])]
      OBVIOUS
    <2>2. /\ completions' = Append(completions, r) /\ finishing' = finishing
          /\ running[w] \in Job
      BY <2>1, <1>0, <1>5 DEF post_completion, loopVars
    <2>3. running[w].conn \in Client /\ running[w].seq \in Nat
      BY <2>2 DEF Job
    <2>4. /\ r.conn = running[w].conn /\ r.seq = running[w].seq
          /\ r.response = ResponseTo(running[w])
      BY <2>1
    <2>5. ResponseTo(running[w]) \in Response
      BY <2>2 DEF ResponseTo, Response
    <2>6. r \in Completion
      BY <2>1, <2>3, <2>5 DEF Completion
    <2>7. Answering(r.response, r.conn, r.seq)
      BY <2>2, <2>4, ResponseAnswers
    <2> QED
      BY <2>2, <2>6, <2>7, <1>0, ResultFacts DEF AnswerInv
  <1>6. \/ UNCHANGED <<completions, finishing>>
        \/ SwapCompletions \/ ApplyCompletion \/ WorkersJoined \/ WorkersDetached
        \/ \E w \in Worker : post_completion(w)
    <2>1. CASE EnvStep \/ UNCHANGED vars
      BY <2>1, EnvFrame DEF vars, loopVars, workerVars
    <2>2. CASE SettlingStep
      BY <2>2 DEF SettlingStep, ConnectionEvent, Rescan
    <2>3. CASE OuterStep
      <3>1. CASE accept_batch
        <4>1. finishing' = finishing
          BY <3>1 DEF accept_batch, AcceptDrained, AcceptNoDescriptor,
             AcceptBatchFull, AcceptError, AcceptAborted, reject_connection,
             AddFails, Admit, LeaveAccept, Dismiss
        <4> QED
          BY <4>1, <3>1, AcceptFrame DEF workerVars
      <3>2. CASE \/ EpollWait \/ EpollWaitFails \/ drain_wake \/ handle_signals
                 \/ ListenerEvent \/ SwapRescans \/ reap_finished \/ maybe_begin_drain
        BY <3>2 DEF EpollWait, EpollWaitFails, drain_wake, handle_signals,
           ListenerEvent, SwapRescans, reap_finished, maybe_begin_drain, workerVars
      <3>3. CASE \/ BeginTick \/ tick \/ GoOn \/ LeaveQuietly
                 \/ LeaveOnSecondSignal \/ BudgetExhausted
        BY <3>3 DEF BeginTick, tick, GoOn, LeaveQuietly, LeaveOnSecondSignal,
           BudgetExhausted, ForcedExit, workerVars
      <3> QED
        BY <2>3, <3>1, <3>2, <3>3 DEF OuterStep
    <2>4. CASE LastStep
      BY <2>4 DEF LastStep, StopPool, Destroy, Exit, workerVars
    <2>5. ASSUME NEW w \in Worker, WorkerStep(w), ~post_completion(w)
          PROVE  UNCHANGED <<completions, finishing>>
      BY <2>5 DEF WorkerStep, WorkerTakes, Wake, loopVars
    <2> QED
      BY <2>1, <2>2, <2>3, <2>4, <2>5, NextCases
  <1> QED
    BY <1>1, <1>2, <1>3, <1>4, <1>5, <1>6

(* Every step preserves OverInv.                                           *)
LEMMA OverInvNext ==
  ASSUME TypeOK, OverInv, [Next]_vars
  PROVE  OverInv'
  <1>1. CASE UNCHANGED <<pc, accepting, reap, draining>>
    BY <1>1 DEF OverInv, BeforeTick
  <1>2. CASE ~BeforeTick'
    BY <1>2 DEF OverInv
  <1>3. CASE reap_finished
    BY <1>3 DEF reap_finished, Reap, OverInv
  <1>4. CASE maybe_begin_drain
    BY <1>4 DEF maybe_begin_drain, OverInv
  <1>5. CASE BeginTick
    BY <1>5 DEF BeginTick, OverInv, BeforeTick
  <1>6. CASE accept_batch
    <2>1. accepting \in [tries : 0..AcceptBatch, back : {"events", "tick"}]
      BY DEF TypeOK
    <2>2. pc = "accept" /\ UNCHANGED <<reap, draining>>
      BY <1>6 DEF accept_batch, AcceptDrained, AcceptNoDescriptor,
         AcceptBatchFull, AcceptError, AcceptAborted, reject_connection,
         AddFails, Admit, LeaveAccept, Dismiss, Accepting
    <2>3. ASSUME NextTry
          PROVE  accepting'.back = accepting.back
      BY <2>1, <2>3 DEF NextTry
    <2>4. \/ pc' = accepting.back /\ accepting' = accepting
          \/ pc' = pc /\ NextTry
      BY <1>6 DEF accept_batch, AcceptDrained, AcceptNoDescriptor,
         AcceptBatchFull, AcceptError, AcceptAborted, reject_connection,
         AddFails, Admit, LeaveAccept, Dismiss
    <2>5. BeforeTick' => BeforeTick
      BY <2>1, <2>2, <2>3, <2>4 DEF BeforeTick
    <2> QED
      BY <2>2, <2>5 DEF OverInv
  <1>7. \/ UNCHANGED <<pc, accepting, reap, draining>> \/ ~BeforeTick'
        \/ reap_finished \/ maybe_begin_drain \/ BeginTick \/ accept_batch
    <2>1. CASE EnvStep \/ UNCHANGED vars
      BY <2>1, EnvFrame DEF vars, loopVars, flags
    <2>2. CASE SettlingStep
      BY <2>2, SettlingFrame DEF flags, BeforeTick
    <2>3. CASE OuterStep
      <3>1. CASE ListenerEvent
        <4>1. pc' = "accept" /\ accepting'.back = "events"
          BY <3>1 DEF ListenerEvent
        <4> QED
          BY <4>1 DEF BeforeTick
      <3>2. CASE drain_wake \/ handle_signals
        BY <3>2 DEF drain_wake, handle_signals, flags
      <3>3. CASE EpollWait \/ EpollWaitFails \/ SwapRescans \/ SwapCompletions
        BY <3>3 DEF EpollWait, EpollWaitFails, SwapRescans, SwapCompletions,
           BeforeTick
      <3>4. CASE tick \/ GoOn \/ LeaveQuietly \/ LeaveOnSecondSignal \/ BudgetExhausted
        BY <3>4 DEF tick, GoOn, LeaveQuietly, LeaveOnSecondSignal,
           BudgetExhausted, ForcedExit, BeforeTick
      <3> QED
        BY <2>3, <3>1, <3>2, <3>3, <3>4 DEF OuterStep
    <2>4. CASE LastStep
      BY <2>4 DEF LastStep, StopPool, WorkersJoined, WorkersDetached, Joined,
         Destroy, Exit, BeforeTick
    <2>5. ASSUME NEW w \in Worker, WorkerStep(w)
          PROVE  UNCHANGED <<pc, accepting, reap, draining>>
      BY <2>5 DEF WorkerStep, WorkerTakes, post_completion, Wake, loopVars, flags
    <2> QED
      BY <2>1, <2>2, <2>3, <2>4, <2>5, NextCases
  <1> QED
    BY <1>1, <1>2, <1>3, <1>4, <1>5, <1>6, <1>7
=============================================================================
