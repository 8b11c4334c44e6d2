# A TLA+ model of the HTTP server

The server is one event-loop thread that owns every socket, a fixed pool of
worker threads that run handlers, and a completion queue with an eventfd between
them. What is hard about it is not any single function but how they meet:
edge-triggered events, results that arrive late, descriptor numbers that are
recycled, output that does not fit, and a shutdown that may begin at any moment.
That is what is modelled here.

## The system and its inventory

| Part | Source | State | Operations |
|---|---|---|---|
| Thread pool | `thread_pool.*` | `queue_`, `stopping_`, `joined_`, `threads_`, condition variable | constructor, `try_submit`, `run`, `stop`, `stop_forced` |
| Connection | `connection.*` | `alive_`, `close_after_`, `draining_`, `peer_eof_`, `in_flight_`, sequence numbers, `in_`, `out_`, `applied_mask_`, `last_head_` | `on_readable`, `on_writable`, `on_hangup`, `on_tick`, `on_worker_result`, `begin_draining`, `kill` |
| Event loop | `event_loop.*` | `conns_`, `reap_`, `rescan_`, `completions_`, shutdown and retry flags | `run` and what it calls, `post_completion` and `wake` from workers |
| Parser | `http_parser.*` | line/header/body/chunk state, limits | `parse` |
| Buffer, message helpers | `common.h`, `http_common.cpp` | data and read cursor | `append`, `append_target`, `consume`; `serialize_response`, `make_error_response`, `parse_content_length`, header look-ups |
| Handlers | `handler.*` | none | `handle_request` and its routes, the job of `Connection::submit` around it |
| Configuration | `config.*` | the `Config`, `failed` | `parse_args` |
| Startup | `main.cpp`, `run()` up to its loop | signal mask, descriptors, port file | `main`, `setup_*`, `write_port_file` |
| Descriptor ownership | `fd.h` | one descriptor | `close` in the destructor |

How they interact. The loop reads from a socket into a connection, which parses
one request and submits it as a job. A worker runs it, pushes a `Completion`
under a lock and writes the eventfd after unlocking. The loop swaps the
completion queue, finds the connection through a `weak_ptr`, writes the response
and re-arms epoll. Connections are destroyed only in `reap()`. A first signal
starts a drain; a second one, or an exhausted budget, forces the exit. Before all
this `main()` blocks the signals, reads the command line, sets up the descriptors
and announces the port in a file.

Behaviours that make it hard: notifications and wakeups outside their locks;
edge-triggered epoll with `EPOLLIN` switched off and on; one batch of events
during which connections end and begin; pipelining against a bounded output
buffer; clients that half-close, vanish or reset; refused jobs; failing accepts,
`EPOLL_CTL_MOD`s and `epoll_wait()`s; threads that never started; workers that
outlive the loop; framing and persistence decided in several places; sizes that
wrap; a power failure while the port file is written.

## Modules

| Module | Models | Role |
|---|---|---|
| `JobQueue` | what the loop relies on of the pool: a bounded FIFO, jobs that start and finish, closing | abstract specification |
| `ThreadPool` | the pool at the level of critical sections and the condition variable | implements `JobQueue` |
| `ThreadPoolProofs` | | theorems about `ThreadPool` |
| `Connection` | the methods of `Connection` as operators on its members and its socket | used by `EventLoop` |
| `ConnectionContract` | | what the loop relies on of each method |
| `ConnectionProofs` | | `Connection` keeps the contract |
| `EventLoop` | `run()` composed with connections, `JobQueue`, epoll, clients, signals | the system |
| `LoopInvariant` | | the inductive invariant of `EventLoop`: preserved by clients, signals, workers, callbacks, the closing of connections; small invariants |
| `LoopSteps` | | the same for the other phases of an iteration; the invariant about events |
| `LoopRequests` | | the invariants about requests and responses |
| `EventLoopProofs` | | theorems about `EventLoop` |
| `HttpParser` | `parse()` of the request parser, one step per iteration of its loop | a component of its own |
| `HttpMessages` | messages and how a client writes them | what the parser should read back |
| `HttpParserProofs` | | theorems about `HttpParser` |
| `ByteBuf` | the buffer with its cursor, lazy compaction | used by `Delivery` |
| `Handler` | routes, the job around them, serialisation | used by `Delivery` |
| `Config` | `parse_args()`, one step per option | extended by `Startup` |
| `Startup` | `main()` and `run()` up to the loop, system call by system call | extended by `Delivery` |
| `ResponseChannel` | what a connection promises its client | abstract specification |
| `Delivery` | `Startup`, then the output path of one connection down to body bytes and the client's decoder | implements `ResponseChannel` |
| `DeliveryProofs` | | theorems about `ByteBuf`, `Config`, `Startup` and `Delivery`, and that it implements `ResponseChannel` |
| `MCThreadPool`, `MCEventLoop`, `MCHttpParser`, `MCDelivery` | | instances for TLC |

**ThreadPool.** A scope that holds `mu_` is one step. What happens outside it is
a step of its own: `notify_one()` (`NotifyOne`), `notify_all()` (`NotifyAll`), a
job (from `Take` to `JobEnds`), and each join (`Join`) or detach (`Detach`).
`position[w]` says where a worker is in `run()`, `caller` where the thread that
calls the public operations is. `accepted` and `done` are history variables. A
worker may wake without a notification, and the constructor may have started any
subset of the threads. In `stop_forced()` an unexpected `pthread_tryjoin_np()`
error is not modelled.

**Connection.** A method runs to completion on the loop thread, so it is an
operator on `k = [c, s, job]`: the members, the kernel's half of the socket, and
the job it submits, if any. Input is a sequence of segments named for their
meaning to the parser (`part`, `expect`, `get`, `head`, `last`, `bad`, `huge`);
a segment is one unit of the request limit. `expect` is a head that asks for a
100; a request has one head, so a script has no second `expect` before the
request of the first is complete (`OneExpect`). Output is a sequence of whole
responses; the kernel accepts `SendBuffer` of them ahead of the client. Time is
reduced to which connections a tick finds idle. That may include one accepted in
the same tick, which the code's clock excludes; no property depends on it.

**EventLoop.** `pc` walks through the phases of `run()`: `events` (one step per
event), `accept` (one step per `accept4()`), `completions`, `rescan`, reaping,
`drain`, `timer`/`tick`, the `shutdown_complete()` check, and the way out.
A callback together with what `run()` does after it (submit, reap list or
`set_interest`) is one step, `Settle`. Between any two steps workers, clients
and signals move. A client is also the identity of its connection, as the
`weak_ptr` and `id_` are in the code; `conns` maps descriptor numbers to
clients, and a number is free again after `reap()`. `reap_` and `rescan_` are
sets, since duplicates and order have no effect.

epoll is external and modelled from how the code uses it. A socket is put on the
ready list by an edge its mask asks for; `epoll_wait()` reports what holds then.
`EPOLL_CTL_ADD` reports existing readiness. `EPOLL_CTL_MOD` reports writability
and a dead peer, which the code relies on; whether it reports readability that
predates it is left open (fault `modin`), as the comment in `set_interest()`
says. A signal raised again while it is pending is lost.

**HttpParser.** `buf` is the caller's buffer, `p` the parser's members. `Call(n)`
appends any `n` bytes of the stream and calls `parse()`; then `Step` runs
iteration by iteration until a status is returned, without new input. `scan`,
`consumed`, `header_bytes` and the two remaining counters are the code's. The cap
on the whole request is evaluated in `Call`, since consumed plus buffered bytes
do not change within a call. A byte stands for what it tells the parser: `g` a
valid HTTP/1.1 request line so far, `l` a Content-Length field whose digits
follow, and so on; CR, LF, digits and `;` are themselves. Every byte counts as
one. `too_large_` and the error texts are folded into the verdict. `Connection`
does not use this module: it knows the parser by the outcome per segment.

**Config.** One step per option that `getopt_long()` returns, then `EndOfOptions`:
positional arguments, the derived request limit, the verdict. `size_t` has
`SizeMax` values, and conversions and the sum of limits are taken modulo it;
`strtoull()`'s sign and `strtod()`'s NaN are kept. A value is stored before it is
judged where the code does so. The ranges and defaults are constants, so that a
small `size_t` can hold them. The usage text is left out.

**Startup.** `stage` says where `main()` is, `call` which call of the set-up is
next; each may fail. The port file is four steps (open, write, fsync, rename),
each with its failures; `write()` may fall short, and the result of `fsync()` is
not looked at. `PowerFailure` may come at any time and empty a renamed file whose
text had not reached the disk. `getsockname()` is taken not to fail.

**Handler.** Every route and method as a function from a request to a `Response`,
with the job around it (exceptions, HEAD, persistence). Bodies are lengths, a
fixed text has length one, and a serialised head is one unit on the wire that
records what decides how a client reads on: status, version, Content-Length,
Connection.

**ByteBuf.** Operators on `[data, start]`. `append()` compacts when half of the
data is consumed, or when the string would have to grow; its capacity is the
library's choice and left open.

**Delivery.** A process from `StartupInit` on; then one connection with the limits
of its command line. `conn.out` is a `ByteBuf` of heads and body bytes, `wire`
the socket, `reader` a client that decodes by the rules of HTTP. `queued` is a
ghost: what each queued head tells the client, how much body follows, and how
many final responses there are by then (a client matches the n-th of them with
its n-th request). The socket does not fail here; losses of every kind are `EventLoop`'s business.

Each module also holds *mutants*: definitions with a plausible bug, used to show
that every property can fail.

## What is checked

Passing runs (deadlock is checked in all but `thread_pool`, where a pool nobody
uses may rest):

| Run | Instance | Shows |
|---|---|---|
| `thread_pool` | 3 workers, 3 jobs, queue of 2 | `JobsConserved`, `NoLostWakeup`, `StopIsLossless`, `Bookkeeping`, refinement of `JobQueue`, `EveryJobRuns`, `StopTerminates` |
| `dialogue` | 1 client, 8 scripts of up to 4 segments, request limit 3, output limit 1, idle timeout on, all losses | `ResponsesInOrder`, `InFlightIsExact`, `InputNotStranded`, `BuffersBounded`, `CloseIsClean` |
| `two_clients` | 2 clients, descriptors and workers, queue of 1, accept cap 1; faults of accept, `EPOLL_CTL_MOD`, `epoll_wait()` | `ResponsesInOrder`, `InFlightIsExact`, `CompletionNotStranded`, `EventsReachTheirConnection`, `ReapIsExact`, `ListenerNotQuiet`, `OnlyDetachedOutlive` |
| `shutdown` | 1 client, 2 workers, 2 signals, half-close and reset | `OutputNotStranded`, `OnlyDetachedOutlive`, `CloseIsClean`, `DrainTakesNoWork` |
| `liveness` | 2 clients, 1 worker, 1 signal | `EveryRequestAnswered`, `ShutdownTerminates` |
| `delivery` | `size_t` of 16 values, command lines of up to 3 options, scripts of up to 3 messages, socket of 2 units | `MismatchIsLast`, `PersistenceAgreed`, `OutputBounded`, `HeadAnnouncesGet`, `PortFileIsWhole`, `AcceptedConfigIsValid`, `ConfigAsAsked`, refinement of `ResponseChannel`, `EveryResponseDelivered` |
| `http_parser` | 11 messages in pairs, 36 endings alone and after a message, limits 3 / 9 / 3 / 52 / 2 | `TypeOK`, `LimitsHold`, `NothingSkipped`, `StateIsConsistent`, `RequestsAsSent`, `ParseReturns` |

Why the bounds are enough for what they are meant to show. Two jobs in a row for
two sleeping workers are where a notification after the unlock can go astray,
and a third worker lets one be busy meanwhile. Four answers against a send
buffer and an output limit of one reach a full socket, suspended and resumed
reading; four segments against a limit of three reach the 413. Two clients with two descriptors and a queue of one reach
overload, overtaking and recycling. For the parser every stream is cut in every
way, between CR and LF too; bodies contain CR, LF and digits; each limit has a
stream that exceeds it, and all but the cap on the whole request also after a
complete message.

For `delivery`, 16 values of `size_t` are the fewest in which defaults, a sum that
fits, one that wraps and a negative argument are all different. Every kind of
option meets every kind of text in pairs, so that a valid one follows and
precedes an invalid one of the same name; the three limits that depend on each
other come in every order. Three servers get requests: one whose connections
time out (its timeout is NaN), one whose output limit is below one response, and
one that takes no body. Each kind of message is followed by each of four probes
that tell in what state it left the connection, and three answers of maximal
size fill the output limit while less than half of the buffer is consumed, where
compaction is put off. A `NumberCap` of 5 lies above the response limit and below
the number `/big` asks for, so that both caps act. Larger instances are not covered
by TLC; the theorems below cover them for the properties they state.

Fairness. Workers and the loop thread are scheduled (`LoopRuns` is weak fairness
of `LoopStep` with its enabling condition written out; the loop waits only in the
unbounded join). Handlers return: the longest one sleeps for a bounded time.
Ticks recur (strong fairness of `BeginTick`: the tick is due again and again
until it is run). Clients that stay read. Nothing is assumed of clients sending,
of spurious wakeups, or of the shutdown budget. In `Delivery` the connection
writes, finishes its job or takes the next message when it can (`Server`), and the
client reads; nothing is assumed of ticks, drains or the set-up. `parse()` is running code and
keeps running; nothing is assumed of the calls.

Runs that exhibit a disagreement between the code and what its documents say:

| Run | What happens |
|---|---|
| `half_close` | Two pipelined requests and a half-close: after the first answer `want_read()` stays false because of `peer_eof_`, so the second request is never parsed and the connection never closed. |
| `tick_output` | `tick()` calls `on_tick()` without a `set_interest()` afterwards: a 408 the socket does not take waits without `EPOLLOUT`. |
| `detached_worker` | After a forced exit a detached worker is still in a job that will call `post_completion()` on the destroyed loop. `OnlyDetachedOutlive` shows that only this case exists. |
| `wedged_handler` | A running job whose client left is invisible to `shutdown_complete()`: the orderly exit joins it without bound and later signals are not read. Here handlers need not return (`WedgedSpec`). |
| `trailers` | `kChunkTrailer` calls `parse_header_line()` on `cur_`: trailers end up among the request's headers instead of being ignored. |

More deviations can be seen in the definitions and have no run of their own: a 413
for small pipelined requests that exceed the aggregate limit together
(`on_readable`); `last_head` suppressing the body of a later error, whose head
announces it (`queue_response`; `MismatchIsLast` shows that this is always the
last response); an unchecked `fsync()` before the rename (`SyncPortFile`, the
exception in `PortFileIsWhole`); an idle timeout of NaN, accepted and converted
(`TimesOut`); a request limit derived from a sum that wraps (`Raised`, the
exception in `AcceptedConfigIsValid`); a connection that was busy when a drain began is closed by the
next tick, not when its response has been written (`on_tick`); an `accept4()`
error without a case of its own leaves the backlog unattended (`AcceptError`, the
fault `accept`, is kept out of the run that checks `ListenerNotQuiet`). Two are in
the parser: a head or request line of exactly its limit is refused if the last CR
arrives without its LF, since an incomplete line is measured with its CR
(`TooLong`), so the messages of `http_parser` stay below the limits; and a
complete chunk-size line is not measured at all (`ChunkSizeLine`).

## What is proved

`ThreadPoolProofs` proves for every finite set of workers, every set of jobs and
every queue bound (assumptions `WorkerAssumption`, `JobAssumption`,
`QueueAssumption`):

* `TypeCorrect`: `TypeOK /\ Bookkeeping` is invariant. `TypeOK` alone is not
  inductive: that a job which ends is a job needs "busy exactly when holding
  one". `Bookkeeping` ties flags, thread handles, positions and the caller
  together, in particular "a worker that has left leaves an empty queue".
* `WakeupsAreNotLost`: `NoLostWakeup`. Relative to the above it is inductive: the
  only step that adds a job also owes a notification, and a step that removes a
  worker from the ready ones removes a job too or finds none. Cardinalities of
  the ready set are compared through `FiniteSetTheorems`.
* `StopReachesSleepers`: `StopWakesEveryone`.
* `JobsAreConserved`: `JobsConserved`, by lemmas on the elements of a sequence
  after a push and a pop.
* `GracefulStopIsLossless`: `StopIsLossless`, from the two invariants above.
* `PoolImplementsJobQueue`: `Spec => Abstract!PoolSpec`. `try_submit` maps to
  `Submit`, `Take` to `Start`, `JobEnds` to `Finish`, `stop` and `stop_forced` to
  `Close`, everything else to a stutter.

This is what justifies composing `EventLoop` with `JobQueue` instead of the pool
itself.

`HttpParserProofs` proves for all limits and all streams (assumption
`ParserAssumption`: the limits are naturals, the streams consist of bytes)
`ParserTypes`, `LimitsAreKept`, `NoLineEndIsSkipped` and `ParserIsConsistent`.
They rest on one inductive invariant, the conjunction of `TypeOK`, `LimitsHold`,
`NothingSkipped` and `StateIsConsistent`. `LimitsHold` is not inductive without
the last. The bound on the head needs "while reading fields the head is within
`MaxHeader`", since its last line is counted and not measured. The bound on the
body needs "the counter of the other framing is zero", since a chunk is compared
with the limit without regard to `body_remaining`. There is one lemma per action;
`InvLook`, `InvAdvance`, `InvEmit` and `InvChunked` carry what actions share.

`ConnectionProofs` proves `ConnectionMeetsContract`: for all limits, buffer sizes
and segments (`ConnectionAssumption`), each method called on a connection with
well-typed members, input within its limit and a socket within its buffer returns
such a connection, leaves descriptor, drain flag and mask alone, revives no
finished connection, and hands a request over only from `on_readable()`, when the
connection wants input and the pool accepts. Further, for what clients see:

* *Serves*: if what was sent so far is in order and numbered by `next_seq_`, and
  output within its threshold, it still is (`Orderly`, `Tidy`); an open connection
  dies only of a dead peer. `on_tick()` may also give up a client that does not
  read. `on_hangup()` promises it for an `EPOLLERR` only if the peer is dead, and
  `on_worker_result()` only for the answer to the request it names.
* Edges are used up: after `on_readable()` a connection that still listens has
  nothing left to read or parse (`Silent`), and after a write what is left in `out_`
  means a full socket (`Flushed`), or output is as it was.

There is one lemma per method and helper; that `drain_requests()` has a first
complete request to stop at is the least-element principle of the naturals. That
responses are in order is stated by counting (`FinalsTo`, a cardinality), not by
filtering the sequence, so that one more response is one more element of a finite
set and no induction is needed. The contract (`ConnectionContract`) is all that the
proofs about the loop know of these methods and of that count.

`EventLoopProofs` proves, for any clients, descriptors, workers, limits, scripts and
faults (`LoopAssumption`, `ConnectionAssumption`):

| Theorem | States |
|---|---|
| `LoopTablesAgree` | `LoopInv`, the inductive invariant |
| `TypeCorrect` | `TypeOK` |
| `EventsAreNotMisdelivered` | `EventsReachTheirConnection` |
| `ReapingIsExact` | `ReapIsExact` |
| `RequestsAreNeitherLostNorDoubled` | `InFlightIsExact` |
| `DrainingTakesNoWork` | `DrainTakesNoWork`, an action property |
| `OnlyDetachedWorkersOutlive` | `OnlyDetachedOutlive` |
| `NoCompletionStranded` | `CompletionNotStranded` |
| `ListenerStaysAudible` | `ListenerNotQuiet`, unless `accept4()` fails in a way the code has no case for |
| `ResponsesStayInOrder` | `ResponsesInOrder` |
| `BuffersStayBounded` | `BuffersBounded` |
| `ConnectionsCloseCleanly` | `CloseIsClean`, an action property, unless `epoll_wait()` fails |
| `InputIsNeverStranded` | `InputNotStranded`, unless an `EPOLL_CTL_MOD` fails |
| `OutputIsNeverStranded` | `OutputNotStranded`, unless an `EPOLL_CTL_MOD` fails, and without an idle timeout |

The exceptions are hypotheses about `Faults` and `IdleTimeout`, and each is needed.
After an `epoll_wait()` error `run()` leaves its loop without a drain and closes what
is open. After a failed `EPOLL_CTL_MOD` the code logs and goes on with the old mask.
With an idle timeout a tick may leave a 408 in `out_` and does not set the mask, which
is what the run `tick_output` exhibits. Instances without these faults are the
ones the runs check, too: `dialogue` for input and closing, `shutdown` for output.

`LoopInv` strengthens these to something a step can carry. *Identity*: `conns_` and
the connections name each other, and the ready list and the backlog name
what exists; without it a descriptor number says nothing about a connection.
*BatchOK*: the events of a batch are about distinct connections that exist; it
survives because descriptors are closed only outside the iteration over a batch,
which is what `InBatch` delimits. *ReapOK*: a connection is finished exactly if its
descriptor is in `reap_`, after every callback, not just when the loop sleeps;
this is where every callback must be shown to end in `Settle`, and where the
contract's "finished stays finished" is used. *RescanOK*: who awaits a re-scan
still wants input, since no event of the same batch can come after it. *DrainOK*:
every connection knows of the drain, so that `want_read()` is false and nothing is
submitted. *Bounded* is the contract's precondition. `LoopInvariant` and `LoopSteps`
have one lemma per action; TLC confirmed `LoopInv` on the instances of
`two_clients`, `dialogue` and `shutdown` before it was proved.

The other theorems need invariants of their own, inductive relative to `LoopInv`:

* `JoinInv`: a worker that has posted still holds its job, so joining all leaves
  nobody behind.
* `CompletionInv`: results wait with a wakeup ahead of them, or the loop is between
  draining the eventfd and swapping the queue.
* `ListenerInv`: a backlog is announced, owed a retry, or being accepted.
* `FlightInv`: a connection in flight has one job, and that is in one place of queue,
  workers and completions.
* `AnswerInv`: every completion answers the request it names. `OverInv`: outside a
  drain a tick meets no finished connection, since all have just been reaped;
  otherwise its 408 could follow a response that closes.
* `DialogueInv`: what a client has got, what its socket and `out_` hold is in order,
  and there are as many answers as `next_seq_` says, less the one in flight; output
  is bounded; a connection is dead only if its peer is. An `EPOLLERR` in the batch
  is about a dead peer, which is what `on_hangup()`'s contract asks for.
  `ResponsesInOrder` says nothing of `next_seq_`, and does not survive a result
  without it. A late result is told from a current one by `inflight_seq_`.
* `GoneInv`: past its loop `run()` has no connection left to close, as errors of
  `epoll_wait()` are excluded. With `DialogueInv` it gives `CloseIsClean`: a
  finished connection has an empty `out_` and nothing in flight, so that every
  answer is in the kernel.
* `HeardInv`: at every step, not just when the loop sleeps, a live connection that
  wants input has `EPOLLIN` armed, and is on a re-scan list or has an empty `in_` and
  is *told* of a readable socket: it is on the ready list, or an event of the batch
  not yet handled says so. The same for a dead peer, and for output. An `EPOLLIN`
  that is armed without being wanted is on its way out: otherwise input would arrive,
  the event be spent on a connection that does not read, and no re-scan follow
  when it reads again, since the mask has not changed.

TLC confirmed the invariants from `AnswerInv` on, too, on the instances of `two_clients`,
`dialogue` and `shutdown` before they were proved.

`DeliveryProofs` begins with the parts. It proves, for every content, cursor and
amount, that `ByteBuf` is a plain sequence to its users: `ConsumeDrops`, `AppendAdds` (with a bound on what is
stored) and `AppendTargetAdds`. It proves `AcceptedConfigsAreValid` for any width,
range, default and command line (`ConfigAssumption`): the invariant `ConfigInv`
says that as long as nothing has failed every value stored is in range, which
`AcceptedConfigIsValid` says only of the end. `ConfigsAreAsAsked` shows
`ConfigAsAsked` from `AskedInv`: as long as nothing has failed, every option has the
value of its last mention among the arguments done. And it proves
`PortFilesAreWhole`: `PortFileInv` adds which contents the temporary file can have
at each stage and that the listener is up from the end of the set-up on.

Then it proves about the composed process, for any command line, script,
limits, width of `size_t` and room in the socket (`ConfigAssumption`,
`DeliveryAssumption`):

| Theorem | States |
|---|---|
| `BodiesAreAsAnnounced` | `MismatchIsLast` |
| `PersistenceIsAgreed` | `PersistenceAgreed` |
| `OutputIsBounded` | `OutputBounded` |
| `HeadsAnnounceGets` | `HeadAnnouncesGet` |
| `ClientReadsResponses` | `ImplementsChannel`: the refinement of `ResponseChannel` |
| `ServesAfterStartup` | `StartupSpec`, so that the results above hold of it |

They share one inductive invariant, `DeliveryInv`: the process has not begun to
serve, or the connection is on its `Course`. The parts of that, and why each is
needed:

* `KeepsWord`: only the last response announces the end, and then the connection
  closes; a body that is not the one announced comes with that announcement; a
  connection closes unannounced only if it is dead or draining. `MismatchIsLast` and
  `PersistenceAgreed` follow. It is kept because a response is queued only when
  nothing closes the connection, and because every route's response is `Sane`: what
  it says of its body, its persistence and its framing fits together. That is one
  lemma per route, through the job (`AnswerFacts`) and the serialisation.
* `InFlight` and the count of final responses: while a request is in flight there
  is one answer less than messages taken, `last_head_` is about that request and at
  most `max_output` waits; otherwise there are as many. Without it nothing ties the
  n-th answer to the n-th request, which `HeadAnnouncesGet` and the client's decoder
  both rely on, and `OutputBounded` would not survive a result.
* `Decodes`: there are offsets at which the responses lie in the stream (the socket,
  then the unread part of `out_`), and the client is at the beginning of one or a
  known number of units into its body, until it has read one that announces the end.
  Flushing moves the border between socket and buffer and leaves the stream alone;
  queueing extends it; reading shifts every offset by one. Here `KeepsWord` is what
  makes the next response begin where the client expects it.

The refinement then maps a step that queues to `Give`, a read that completes a
response to `Read`, and everything else to a stutter. TLC confirmed the invariant on
the instance of `delivery` before it was proved.

Only model-checked: liveness, which the prover does not do (no request, shutdown or
delivery without end: `EveryJobRuns`, `StopTerminates`, `EveryRequestAnswered`,
`ShutdownTerminates`, `EveryResponseDelivered`, `ParseReturns`); and that the parser
reads back what was sent (`RequestsAsSent`), an induction over the encoding.

## Not modelled

`fd.h`: a wrapper whose one effect, a number that becomes free when its
connection is reaped, is part of `EventLoop`. The grammar of a request line and of
a field beyond valid or not, list-valued fields, hexadecimal digits above 3; the
text of header fields, dates, sanitising; the usage text. More events than
one `epoll_wait()` returns (1024), `EINTR` (always retried), `ENOENT` and `EBADF` of
`EPOLL_CTL_MOD` as cases of their own, a failing `getsockname()`, an unexpected
`pthread_tryjoin_np()` error, logging and counters. A reset that the kernel sends
when a socket is closed with unread input is outside the server's steps.

## Plan

1. `HttpParser` shown to refine the per-segment parser that `Connection` and
   `Delivery` use.
2. The output path of `Delivery` inside `EventLoop`, so that partial writes of body
   bytes meet resets and forced exits.
3. `RequestsAsSent` for all messages, once an induction over the encoding is within
   the prover's reach.
