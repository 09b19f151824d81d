# A TLA+ model of rust_network_system

The repository is a Rust networking library on tokio: a TCP server and client
that exchange length-prefixed messages, a message queue, a connection pool, a
load balancer, a cache, and "stability" helpers (circuit breaker, rate limiter,
graceful shutdown). Its state is shared between tasks through atomics,
semaphores and locks, and any future may be dropped at an await. Those
interleavings are what the modules here describe. Paths below are relative to
the crate's `src/` directory.

## 1. Inventory

| Component | State | Operations | Interacts with | Hard behaviour |
|---|---|---|---|---|
| TCP server, `core/server.rs` | `running`, `connection_count`, `connection_semaphore`, session list, list of task handles, shutdown channel, two task handles | `start`, the accept loop, `stop`, `drop`, `broadcast`, cleanup task | sessions (close, send), the user's handler (callbacks) | when a permit is dropped; counts across cancellation and panics; `stop` against accept, cleanup and handlers; snapshots used after awaits |
| Session, `session/mod.rs` | state, active flag, read and write half behind two locks, last activity, read buffer | `new`, `send`, `receive`, `close`, `set_inactive` | its task, cleanup, `stop`, handlers | `close` waits for the lock `receive` holds; partial frames |
| Client, `core/client.rs` | state, stream behind one lock, configuration | `connect`, `disconnect`, `reconnect`, `send`, `try_send`, `receive`, retrying wrappers | framing | retries after part of a frame, states a failed or dropped call leaves, one mutex for reads and writes, bytes read past one frame |
| Framing, `core/message.rs` | none | `encode`, `decode` | session and client | sizes at the limits, incomplete frames |
| Message queue, `core/message_queue.rs` | channel, semaphore, three counters, receiver behind a lock | `enqueue`, `try_enqueue`, `dequeue`, `try_dequeue`, `stats` | - | a permit taken by one task and given back by another; timeouts; dropped futures |
| Connection pool, `pooling/connection_pool.rs` | idle deque and total under a lock, semaphore | `acquire`, guard drop, `prune_idle`, `start_maintenance`, `shutdown` | user's `Connection` type | a refill computed from an old count; permits on error paths |
| Load balancer, `pooling/load_balancer.rs` | list of backends under a lock; per backend: health, active connections, failures; round-robin index | `select`, guard, health checks, `set_backend_health`, `add_backend`, `remove_backend` | user's check function | `select` reads atomics that others change; overlapping checks |
| Cache, `pooling/cache.rs` | map and LRU order under two locks | `get`, `insert`, `remove`, `clear`, `prune_expired`, eviction; `TieredCache` | - | map and order drift apart |
| Circuit breaker, `stability/circuit_breaker.rs` | state, two counts, two instants under a lock | `is_request_allowed`, `record_success`, `record_failure`, `reset`, `call` | guarded operation | results of calls admitted in an earlier state |
| Rate limiter, `stability/rate_limiter.rs` | tokens and refill time under a lock; map of limiters | `try_acquire`, `acquire`, `reset`, keyed variants, `remove_key`, `clear` | - | rate in every window; deadlines; a limiter made twice, or removed while in use |
| Graceful shutdown, `stability/graceful_shutdown.rs` | flag, counter, Notify; one flag per signal | `enter`, guard drop, `shutdown`, `wait_for_completion`, coordinator | requests, components | check and count in two steps; notification between check and wait |
| Thread pool handler, monitoring, logging, tracing, TLS, errors | counters, configuration | - | - | none of their own |

What makes each correct: limits (`max_connections`, `max_size`, capacity, rate)
hold in every interleaving, or it is stated what holds instead; a permit is neither lost nor invented whatever path
a task leaves by; a counter that is decremented never wraps; a closed session is
dead; `stop`, a wait and an acquire end; nothing that was admitted is forgotten; a
connection delivers messages once and in order; a client gets out of every state.

## 2. Modules

A component `X` has up to three modules: `X.tla` (the model and its
properties), `MCX.tla` with its `.cfg` files (an instance for TLC) and
`XProofs.tla` (theorems). Two proof modules serve several components:
`MessageStreamProofs.tla` has the theorems about `Framing`, `MessageStream` and
`TcpClient`, `PoolingProofs.tla` those about `ConnectionPool`, `LoadBalancer` and
`Cache`. As such a module extends all its components, `LoadBalancer`, `Cache` and
`TcpClient` have names of their own for what every specification has
(`BalancerSpec`, `CacheSpec`, `ClientSpec`). `Counting.tla` holds the operators the components count with:
`Where`, the parties at some points of their programs, and `Nth` and `Kept`, which
pick the elements at some places of a sequence in their order. `Kept` is what
filtering a list is here, instead of the recursive `SelectSeq`, so that it can be
proved about. `CountingProofs.tla` has their lemmas.
Two modules are abstract specifications: `CircuitBreakerSpec.tla`, which
`CircuitBreaker` implements, and `MessageChannel.tla`, which `MessageStream`
does. `Framing.tla` is the pure part of the wire format, used by
`MessageStream`; `KeyedRateLimiter` extends `RateLimiter`. `PROJECT.json` maps every definition to its lines of source.

Each model has a section "The decisions of the code": small named operators for
the one-line decisions the properties hang on, most of them next to the form a
plausible slip would give them. The slips are not used by any action; they are what the
mutants of `PROJECT.json` put in place of the real operator.

**TcpServer.** A step is what a task does between two points at which another
thread can observe it; steps that nobody can tell apart are one. The accept loop is
`Accept` (`try_acquire_owned` and the count) or `Reject`, then `SetupFailed` or
`Spawn` and `Track`, and ends by `ServerShutdown` or `ServerCancelled`. The permit
has the lifetime the code gives it, not the one its comments do: `_permit` is a
parameter of `handle_connection` that the spawned block never mentions, so the
block does not capture it and `Spawn` gives it back. A session task is `TaskStart`,
`Receive`, `ReceiveOk`, `ReceiveErr`, `HandlerClose`, `Disconnected`, and `Finish`,
the tail without an await; `Cancel` ends an aborted task at an
await, `HandlerPanics` one whose handler panicked, and both only `Unwind` it: the
count and the list stay as they are. `Session::close` is `CloseBegin`, `CloseWrite`, `CloseRead`, executed by
handlers, `stop` and the cleanup task, one session at a time each. `stop` is
`StopBegin`, `StopSnapshot` once both tasks have ended, `StopClose`, `StopClear`,
`StopAbort`; drop is the chain `DropBegin` ... `DropClear`. An accept loop that drop
has aborted may still take up connections until the runtime cancels it.
Activity is one bit per session (`idle`), set by the passing of time and cleared
by `receive` and by a send or broadcast (`Sent`). `max_connections` is chosen at the
beginning of a behaviour from `Limits`.

**ConnectionPool.** A step is one critical section of the state mutex or the
outcome of one await. `Reuse`/`FindNone` include `remove_expired`;
`Valid`/`Invalid`/`CreateOk`/`CreateErr`/`CancelAcquire` are the outcomes of
`is_valid` and `create`. A connection found invalid stays open, at the point
`replace`, until the creation of its replacement has ended. Expired connections,
and those that `shutdown` drained, are in a vector of the call that will `Close`
them one by one: `closing` counts them. A guard's drop is two steps, the push and the permit.
`PruneScan` counts under the lock, `PruneCreateOk`/`PruneCreateErr` create after
it and after the closes. The deque is a set. `lost` counts connections that were dropped while
`total_connections` still includes them; it is not a variable of the code.

**MessageQueue.** One step per access to the semaphore, the channel, the
receiver's lock or a counter. Messages are counted, not told apart.
`drop_on_full` disables the waiting `Enqueue`; its other path is that of
`try_enqueue`, so the run with `DropOnFull = FALSE` has the behaviours of both.
The semaphore of the model grants a free permit to any waiter or to a
`try_acquire`; tokio's queue is one of the orders this allows.

**GracefulShutdown.** One step per atomic access: `enter` is a check and a
count, a guard's drop a decrement and, for the last, a `notify_waiters`; a waiter
checks, registers with the Notify and parks, and its timer runs beside all of it.
The coordinator triggers its signals one after the other.

**CircuitBreaker** and **CircuitBreakerSpec.** Every method holds the lock and
is one step; a call is an admission and, any time later, a result. The abstract
specification has no counters: an open circuit admits nothing before its
timeout, the first call after it is a probe, a failure of a half-open circuit
opens it, only a success or a reset closes it. The refinement maps `openFor` to
the age of `opened_at` and `admitted` to the running calls.

**Cache.** `get`, `insert`, `remove`, `prune_expired` hold the map's lock for
their whole body and are one step; `clear` takes two locks and is two. The
second half of a clear may also fall into an insert that evicts
(`InsertAcrossClear`). `TieredCache` only forwards.

**Framing**, **MessageStream** and **MessageChannel.** `Framing` has `encode` and
the answers of `decode` as operators on sequences of bytes. `MessageStream` is one
direction of one connection: `toServer` (the client's `send` or `try_send` and
`Session::receive`) or `toClient` (`Session::send` and the client's `receive`),
chosen at the beginning of a behaviour. A send is `SendStart` (checks and
encoding), `SendLock`, `Write` for every piece the kernel takes, and ends with
the last piece or by `SendFail` (timeout, error, no room, dropped future) or
`SendCancel`. A receive is `ReceiveStart`, `ReceiveLock`, `Read` for every piece,
`ReceiveOk`, `ReceiveError` (the peer closed, malformed data, a failed read) or
`ReceiveTimeout` (a timer, a dropped future). The history variable `failed`
remembers how a receive first failed. The two kinds of receiver differ in `KeptForNext`
only: a session keeps what it has read, a client's buffer dies with the call.
`close`, `disconnect`, idleness and a reset happen at any time their locks and
borrows allow. `MessageChannel` promises delivery once and in order until the
connection is broken; it is broken when a send ended in the middle of its frame
(`cut`) or a client's receive ended with bytes in its buffer (`dropped`), two
history variables.

**TcpClient.** Calls with `&self` share the stream mutex, calls with `&mut self`
exclude all others (`Shareable`, `Alone`). A send or receive is `Call`, `Check`
(or `EncodeError`), `Lock`, then `WritePiece`, `WriteAll`, `SendOk` or `ReadOk`,
or an error or a timeout. `Fail` decides between the return of the error and, in
a retrying wrapper, `Redial`. `Connect` and `Redial` lead to `DialOk` or
`DialFail`; `BeginDisconnect` takes the stream and `Disconnected` stores the state;
`Cancel` drops any of them at an await. Of the connection the model keeps what the
client can observe (`link`) and what was written on it (`written`). The server
goes up and down at any time.

**RateLimiter** and **KeyedRateLimiter.** Time is in ticks and a token is divided into
`refill_interval` shares, so that refilling is exact where the code rounds in
`f64`. The history variables `granted` and `allowance` follow an arbitrary
window of time: every `Tick` may begin a new one. `acquire` is a loop of
`AcquireOk`/`AcquireRefused`, `AcquireTimeout`/`Sleep`, `Wake`, and its future
may be dropped (`Cancel`). There are any number of limiters; the keyed limiter
hands them out. Its `try_acquire` is `TryHit` under the read lock, or `TryMiss` and
then `TryInsert` under the write lock; `AcquireKey` looks up or makes the limiter
and then waits on it, whatever becomes of the key (`Remove`). A limiter that was
not handed out stands for one that is yet to be made; limiters used without keys
are those marked `Alone`.

**LoadBalancer.** `select` holds the read lock and is three steps (filter,
choice, counter) because the atomics of the backends change meanwhile; adding
and removing wait for the lock. A health check task is begun for a listed
backend, passes or fails at any time later, and stores its result in the order
of the code; several checks of one backend may be under way. The strategy is
chosen at the beginning of a behaviour, and so is the crew of callers and check
tasks (`Crews`).

## 3. Runs

| Run | Instance | Distinct states | Question |
|---|---|---|---|
| `server` | 2 connections, limit 0 or 1, 3 events (starts, connections, drop) | 328 000 | Do counts, lists and close survive every interleaving with stop, restart, drop and panics; when does the limit refuse; does stop return, do the tasks it leaves end, are idle sessions closed? |
| `pool` | 3 clients, size 2 to 2, 5 identities, 2 lost; symmetry | 57 600 | Permits, total, and the bounds on usable connections and on those to close |
| `queue` | 3 producers, 2 consumers, capacity 2, 4 messages, 1 refusal | 6 800 | Slots, counters, refusals and delivery |
| `shutdown` | 3 requests, 2 waiters, 2 signals | 72 000 | Counter, order of signals, final drain, every wait returns |
| `breaker` | 3 calls, thresholds 3 and 2, timeout 2, window 2 | 600 | Thresholds, the promise, recovery |
| `cache` | 4 keys, capacity 2, ttl 1, order up to 5, 1 clear, with and without LRU; symmetry | 16 000 | Does every entry stay reachable for eviction; capacity without LRU |
| `rate` | 2 limiters, 1 key, 2 callers, 1 or 2 tokens, capacity 1, refill 0 or 1 per 2 ticks | 178 000 | Rate in every window, of a limiter and of a key; every acquire ends |
| `balancer` | 2 clients and 1 check task, or 1 client and 2 check tasks; 2 backends, all strategies | 167 000 | Connection counts, removal, evenness, return to service with overlapping checks |
| `stream` | 2 senders, 1 receiver, 2 sends, bytes of 1 bit, messages of 0, 1 and 2 bytes with a maximum of 1, wire of 5 | 177 000 | Is a connection an ordered channel; does close cut a frame; is what was written delivered; does every call return? |
| `client` | 2 tasks, 0 or 2 attempts, with and without auto-reconnect | 18 600 | Are retries clean, does every call return, does the client recover from every state? |
| `server_limit_enforced` | 2 connections, limit 1, 3 events | violated | at most `max_connections` sessions at once |
| `cache_capacity` | 3 keys, capacity 2, LRU | violated | at most `capacity` entries |

**Why the bounds suffice.** `MaxEvents` bounds what comes from outside: starts,
connections and the drop, three in all. Two connections in one life are the
smallest instance in which one task ends while another is admitted, two closes
overlap, and stop closes several sessions in turn; one connection and two starts
let a task of the first life meet the second; and either life may be
ended by drop. A limit of 0 is the only one that ever refuses. The theorems about
the server are for any number of each. Three clients
on a pool of two, with two to be kept idle, let a refill of two interleave with
acquires while others wait for a permit. A capacity of two with
three producers fills the channel while a third holds or waits for a permit.
Three requests let one be between check and count while another is the last to
leave. Four keys on a capacity of two reach an eviction whose victim is a stale
key. A want of 2 with a capacity of 1 is an acquire that can never be granted;
a refill of 0 is the division by zero; the second limiter is the one that a race
or a removal gives to the key.
A header takes four bytes whatever the base, so of two frames of four or five bytes
the end of one and the beginning of the next are on a wire of five together, are read in
one piece, and are cut at every byte; two senders compete for the lock; a message of two bytes is too large.
Two tasks of a client are one that waits for the mutex the other holds; the
client counts nothing but attempts, so any number of connections and calls is
covered. `IndexCycle` stands for the width of the code's `usize`, and must be a
multiple of every divisor the index meets (an assumption of `LoadBalancer` for the
lengths of lists, and true of the run for its total weights, 2 or 0): the model has
no wrap that disturbs the order, as the code meets one only after 2^64 selects.
`IndexWidth` is the `u32` to which the weighted strategy truncates the index; in the
run it is 2 and so changes nothing for a total weight of 2. No property depends on it. Counters that
would grow without limit are cut by `MaxEvents`, `MaxLost`, `MaxMessages`,
`MaxDrops`, `MaxOrder`, `MaxClears`, `MaxAllowance`, `MaxFailures`.

The runs leave out what the theorems contain and TLC has nothing to add to: the
type invariants, that the queue's lock is exact, and that an open circuit has its
opening time (section 4).

`CHECK_DEADLOCK FALSE` is used for the server, which may be dropped or stopped
for the last time, for graceful shutdown, where every request may have left and
every waiter returned, for the stream, which may be reset and have used up its
sends, and for the violation runs.

**Fairness.** Weak fairness where the code's next step needs only the scheduler:
tokio polls every ready task, timers fire, a lock that is free is granted.
- Server: accept loop between two awaits, both tasks, stop, closes, what a session
  task does outside its handler, and cancellation of an aborted task. A `receive`
  ends by its read timeout. Nothing is assumed of peers or of handlers: they may
  never connect, never return. `StopEndsTasks` and `IdleSessionSwept` follow one
  connection among the others, as connections are interchangeable.
- Queue: a call that was begun goes on and consumers keep calling `dequeue`;
  `recv` is strongly fair because a caller may cancel and repeat it.
- Shutdown: a request that entered ends, a timer that was armed fires (strongly
  fair: the waiter may move between states meanwhile).
- Breaker: callers keep calling, and not every call is cancelled (strong).
- Rate limiter: time passes and a woken task runs.
- Stream: a call goes on; mutexes are handed over in the order of arrival (strong, as
  the holder changes meanwhile); bytes under way arrive at a reader that waits; and
  the receiving end calls `receive` until one fails, as the server's loop does
  (`core/server.rs:406-416`). Senders need not send. No timer need fire:
  `CallsReturn`, which needs them, has them in its own premise (`TimersFire`).
- Client: the same for its calls (`Progress`). `Recovers` has its further
  assumptions in its own premise (`Persistence`): the owner calls
  `send_with_reconnect` again and again and does not drop every call, and the
  network does not fail all of them.
- Balancer: the interval ticks, a check ends, and a backend that is checked
  again and again passes now and then; `ReturnsToService` is about such a
  backend only.

## 4. Proofs

All theorems hold for every value of the constants that the named `ASSUME`s
allow (finite sets of parties, natural numbers as limits, a list of backends without
repetition), and TLC evaluates on every run.

| Theorem | States | Argument |
|---|---|---|
| `TcpServerProofs!LimitTheorem`, `CountTheorem` | `TypeOK`, `PermitsAccounted` and `LimitNeverBinds`; `CountExact` | the accept loop is the only one that takes permits, and between two accepts it has given each back. `LimitInv` adds where the accept loop's connection is (`AcceptingInv`) and that start and the end of stop meet no accept loop (`OwnerInv`); `MoveKeepsCounts` is the one counting argument: a connection that moves from one state to another changes each counter as the two states demand |
| `TcpServerProofs!SupervisionTheorem`, `ReachableTheorem` | `StopLeavesNoTask`; `LiveSessionsReachable` | `SupervisionInv`: the accept loop lives as long as the server runs and a shutdown message is on its way only while stop waits for it; a task without an abort is tracked or being tracked |
| `TcpServerProofs!ClosedTheorem` | `ClosedIsDead` | `ClosingInv`: what each close has already taken away from its session |
| `PoolingProofs!PoolTheorem`, `PoolPermitsTheorem`, `PoolTotalTheorem` | `TypeOK` and `OpenBounded`; `PermitsAccounted`; `TotalExact` | `ConnInv`, `OwnerInv`: a connection is idle or in exactly one hand; what a call has to close was idle when it took the lock (`ClosingStep`) |
| `PoolingProofs!GuardsTheorem`, `ChosenTheorem` | `BalancerTypeOK` and `ConnectionsExact`; `ChosenIsListed` | `BalancerInv`: what a select has found and chosen is listed for as long as it holds the read lock (`SelectInv`) |
| `PoolingProofs!RoundRobinTheorem` | `RoundRobinEven` | `RoundInv`: the list has no backend twice, and the picks since the healthy list last changed are the places just before the index, going round it; `NextRemainder` and `WrappedRemainder` say how a remainder moves when the index does |
| `PoolingProofs!OrderTheorem`, `CapacityTheorem` | `CacheTypeOK` and `EntriesListed`; `CapacityWithoutLru` | `CacheInv`: between the two locks of a clear, only entries inserted since its first are cached (`ClearInv`), so that emptying the order takes no other entry's place; without LRU an eviction always finds a victim. The order keeps to its bound because moving a key to the back first takes its place out (`UnlistedLength`, from `Least`) |
| `MessageQueueProofs!QueueTheorem`, `StatsTheorem`, `RoomTheorem`, `DropTheorem` | `TypeOK`, `SlotsAccounted`, `LockExact`; `StatsExact`; `SendNeverWaits`; `DropOnlyWhenFull` | `SlotsAccounted` with the exact account of messages sent |
| `GracefulShutdownProofs!ShutdownTheorem`, `SignalsTheorem`, `DrainTheorem` | `TypeOK` and `ActiveExact`; `SignalsFirst`; `DrainedForever` | the signals up to `next` are triggered, and `next` is 0 or all outside the loop |
| `CircuitBreakerProofs!BreakerTheorem` | `TypeOK`, `OpenHasInstant`, `ThresholdsRespected` | inductive as a conjunction |
| `CircuitBreakerProofs!RefinementTheorem` | `Spec => Promise!Spec` | every step under the invariant is a step or a stutter of the promise |
| `RateLimiterProofs!RateTheorem`, `KeyedRateTheorem` | `TypeOK` and `RateRespected`; `RateRespected` | `Solvent`: what a limiter granted plus what its bucket would grant now is within the allowance; every step of the keyed limiter is one of its limiters or leaves them alone (`KeyedImplements`) |
| `RateLimiterProofs!KeyTheorem` | `KeyRateRespected` | `KeyInv`: a key has had as many limiters as it was removed, and one more if it has one now. What a key was granted is the cardinality of a set of pairs (limiter, share), inside the product of its limiters and their common allowance, so that no sum has to be unfolded |
| `MessageStreamProofs!RoundTrip`, `NeverEarly` | `decode` inverts `encode` with any bytes behind the frame and consumes no more; a frame cut anywhere is `Incomplete` | `HeaderValue`: four digits to any base give the length back |
| `MessageStreamProofs!CleanCloseTheorem`, `ChannelTheorem` | `CleanClose`; `Spec => IsAChannel` | `StreamInv` (below) |
| `MessageStreamProofs!RetryTheorem` | `RetryIsClean` | `ClientInv`: who holds the mutex and who is alone, and that a retrying send which lost its stream has landed nothing on the one it dials |

**The stream.** No invariant over the bytes alone is inductive: the proof must know
where in the buffer and on the wire each frame begins, and the code keeps no such
thing. `StreamInv` therefore says that, until a send is cut or a client drops
bytes, there is a sequence of bytes and a function that gives each frame's end in it,
such that the delivered messages are
those up to some frame, buffer and wire together are what comes after that frame's
end, and the frame a sender is writing lies at the end. Each action is shown to have
a new witness. With `RoundTrip` and `NeverEarly` this makes every answer of
`decode` the next message, or a wait.

Every inductive invariant was checked by TLC before it was proved, on the instance
of the component's run, and where that has only two parties to order (`RoundInv`,
`ClientInv`) on one with three.

Only model-checked: the liveness properties, as leads-to under weak and strong
fairness is outside the prover's reach: `StopTerminates`, `StopEndsTasks` and
`IdleSessionSwept` of the server, `Delivered` of the queue, `Drains` and
`WaitReturns` of the shutdown, `Recovers` of the breaker and of the client,
`AcquireReturns` of the limiter, `ReturnsToService` of the balancer, `Delivers` of
the stream, `CallsReturn` of the stream and `CallsEnd` of the client. Every invariant, action property and
refinement that a passing run checks is stated by a theorem.

## 5. Where the code and its words disagree

Two disagreements have a run (section 3 and the findings of `PROJECT.json`):

- `core/server.rs:385`: the connection limit does not limit the sessions. `:373`
  says that the permit "is held for the lifetime of the connection and automatically
  released when the task completes, ensuring accurate connection limiting", but the
  task never owns it: `_permit` is dropped when `handle_connection` returns. With
  `max_connections = 1`, `LimitEnforced` is violated by two sessions; `LimitNeverBinds`
  states what holds instead. A block that mentions `_permit` would own it.
- `pooling/cache.rs:222`: a stale key at the front of `lru_order` makes an eviction
  remove nothing, and the cache outgrows its capacity.

Others were met while modelling; where a property states
what does hold it is named:

- `tests/shutdown_and_limits_test.rs:100` asserts that `connection_count()` is 0
  after `stop()` ("All connections should be closed"; the test opens none): a session
  task that `stop` aborts, or whose handler panicked, never takes back its part of
  the count (`CountExact`).
- `core/server.rs:409`: after a handler's panic the session, still in the list, holds
  its socket until the cleanup task finds it idle (`IdleSessionSwept`).
- `core/server.rs:411`: the session loop ends at any `Err`, a read timeout included:
  a peer that is silent for `read_timeout` is no longer read, while its session stays
  active, and its socket open, as long as somebody holds the session. `Delivers`
  therefore excuses a receive that was given up.
- `core/server.rs:332`: a `stop` whose future is dropped leaves `running` false and
  tasks behind, which neither a second `stop` nor `drop` ends. The model's `stop`
  runs to its end.
- `pooling/connection_pool.rs:13` "Maximum number of connections allowed": a refill
  computed from an old count makes more than `max_size`, though never more than
  `max_size + min_size` that are idle, in use or being made (`UsableBounded`). More
  are open: what each call under way has yet to close (`ClosingBounded`), and an
  invalid connection until its replacement is there.
- `core/client.rs:139` "already connected or connecting": a connect that failed or
  was dropped leaves the state `Connecting`, in which `connect` is refused although
  none is under way; `reconnect`, `disconnect` and the retrying wrappers lead out of
  it (`Recovers`).
- `core/client.rs:451` "If connection lost, manually reconnect" under
  `if !client.is_connected()`: a lost connection does not change the state, so
  `is_connected` stays true until a wrapper reconnects.
- `core/client.rs:369`: the client's `receive` drops what it has read behind the
  first message, and part of a frame when it times out (`dropped` in
  `IsAChannel`); `session/mod.rs:187` describes the buffer that avoids this for
  sessions.
- `session/mod.rs:173`: a write that times out leaves part of a frame on the wire
  and the session usable; the next message is sent behind it (`cut`).
- `core/server.rs:499` "Aborts all spawned tasks": a session task spawned while
  `drop` runs is not aborted.
- `core/server.rs:26` idle timeout: the cleanup task closes the sessions of a
  snapshot without looking again, so one that became active meanwhile is closed.
- `pooling/connection_pool.rs:19` "Maximum lifetime": the creation time is reset
  when a connection returns to the pool. `:405` "Total number of connections": a
  connection that fails validation, or is dropped with a cancelled acquire, stays
  in the total (`lost` in `TotalExact`).
- `stability/graceful_shutdown.rs:65`: a request between its check and its count
  is admitted after a wait has returned true; `DrainedForever` states what does
  hold. `:151`: a notification between a waiter's load and its `notified()` is
  lost, and the waiter sleeps to its timeout (`WaitReturns`).
- `stability/circuit_breaker.rs:26` window: the time since the last failure is
  compared, so failures each close to the previous add up over any time.
- `pooling/cache.rs:218` "Evict one entry (LRU)": duplicates in the order make an
  eviction hit an entry that was used recently; the order grows with every insert.
- `pooling/cache.rs:173`: an entry inserted between the two locks of a `clear` loses its
  place in the order and can never be evicted by LRU; `EntriesListed` excuses it
  (`overtaken`).
- `stability/rate_limiter.rs:164`: a refill amount that is 0 as `u32` panics.
- `pooling/load_balancer.rs:152, 154`: failed checks are not counted towards
  `unhealthy_threshold`, and `healthy_threshold` is not read.

## 6. Abstractions and what is left out

- Steps interleave sequentially; the memory orderings of the atomics are not
  modelled. Time is a bit (idle, expired) or a bounded number of ticks.
- Counters are exact integers. That the decremented ones never go below zero is
  a property; the `u64` limits upwards are out of reach in practice.
- Statistics that no control flow reads are left out, as are message contents,
  logging and error texts.
- `select` takes the loads of one filter or one choice together. The pool has one
  maintenance task, and its `shutdown` calls do not overlap. A handler closes only its own session. `stop` runs to its end
  once called.
- In `MessageStream` a payload is a sequence of bytes to a small base, and the
  header keeps its four bytes; timeouts may fire whenever a call waits. In
  `TcpClient` a frame has one or two pieces, and the back-off between two attempts
  takes no time.
- Not modelled: the conversions of messages from and to JSON and containers, which
  are pure and in third-party formats; the thread pool handler, which only hands a
  message to an external pool and awaits its answer, and is to the server a handler
  like any other; monitoring, logging, tracing, TLS configuration and error types,
  which keep no state that decides anything.

## 7. Plan

Done: the server with its sessions, pool, queue, shutdown, breaker, cache,
limiters, balancer, the byte stream with its framing, and the client, each checked,
and the safety of each proved. To do, in order:

1. A `stop` that is dropped, which needs the accept loops of two lives of the
   server in one state.
2. How often the weighted strategy of the balancer chooses each backend: its total
   weight is a fold over the list, so this would stay with TLC.
