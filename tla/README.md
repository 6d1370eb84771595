# Verification of xredis-client

xredis-client is a C++20 coroutine client for Redis on io_uring. Commands of
many coroutines, possibly on many threads, share one connection: a lock-free
ring orders them, one coroutine writes them, another reads the replies and
resumes their owners by position alone. This directory models that core in
TLA+, checks small instances with TLC, and proves every safety property of
those runs for every instance with TLAPS.

    cd tla
    tlc -workers 2 -config ring.cfg MCRing            # any run of PROJECT.json
    tlapm MPSCRingProofs.tla                          # any *Proofs module

`PROJECT.json` lists the components, the runs, the source lines every
definition models, the findings, the hazards and the theorems. For every
property of a passing run it names a mutant: an operator in the module
(`<definition>_<what is wrong>`), written as a plausible bug in that place,
under which the property fails.

## 1. Inventory

| component | source | state | operations | modelled |
|---|---|---|---|---|
| command ring | `include/mpsc_ring.hpp` | head, head_committed, tail_allocated (with STOP_BIT), tail, slots | push, push_n, prep_writev, pop, drain, reset | `RingQueue`, `MPSCRing` |
| standalone connection | `include/RedisClient.hpp`, `src/RedisConnection.cpp`, `include/RedisConnection.h` | Pipe: ring, socket, eventfd, parser, alive | connect, command, close, destructor; coroutines worker, reader, writer; connect_spot | `Pipeline` |
| event loop | `include/xnet.hpp` 2087-2290 | io_uring queues, spinlock, evs_count | run_until_complete, submit, submit_and_wait, prepare | `EventLoop` |
| race, any, all, allSettled | `include/xnet.hpp` 1352-2010 | done counter, results, handler | start, worker, cancel_except, cancel | `Joins` |
| tasks and cancellation | `include/xnet.hpp` 396-600, 1060-1185 | promise bits, cancel chain with its spinlock and handle | co_await, hook, unhook, request_cancel | `XnetCancel` |
| streams, timers, acceptors | `include/xnet.hpp` 2312-3312 | descriptor, handle of the pending operation | await, timeout, cancel, close, shutdown | IOAwaiter in `XnetCancel`, the rest environment |
| RESP parser | `src/RedisParser.cpp` | linebuffer, pos | parse, try_parse_n, reset | inside `Pipeline` |
| command awaiters, DSL | `include/RedisCommander.hpp` | handle, command text, done counters | await_suspend, await_resume, chain | CommandAwaiter in `Pipeline`, `EventLoop`, `Cluster`; the joining ones in `Joins` |
| cluster router | `include/RedisCluster.hpp` | slot table, shard table, state of a shard | connect, get_pipe, find_shard, try_connect, close | `Cluster`, without close |
| cluster replies | `include/RedisCluster.hpp` | - | handle_response, MOVED, ASK | `Cluster` |
| subscriber | `include/RedisSubscriber.hpp` | one connection, no ring | subscribe, read | no |
| values, hash slots, TLS | `src/RedisValue.cpp`, `src/RedisConnection.cpp` | - | pure functions; OpenSSL | the address dialled in `Cluster`, the rest not |

`header-only/` holds generated copies of the sources; tests and benchmarks are
clients.

**How they interact.** `co_await client.get(k)` runs
`CommandAwaiter::await_suspend`: push (handle, payload) into the ring, then
submit, under the io_context's lock, a write of the connection's eventfd. The
writer coroutine sleeps on that eventfd, collects what is new in the ring
(`prep_writev`) and writes it, reading the payloads out of the suspended
coroutines' frames. The reader parses replies, pops one handle per reply and
resumes it. The worker races the two; when both have ended it drains the ring
(CONN ERR for everybody who waits), resets parser and ring, and reconnects
with backoff, or deletes the pipe if its owner has let go. All of a connection
runs on its io_context's thread, except `push` and the submission, which with
`shared = true` run on any thread.

**What is hard.** Producers interleave with each other, with the reader and
with a drain and reset of the same ring. Replies carry no identity: one frame
too many or too few gives every later coroutine another's reply. The network
cuts the stream anywhere; connections break during anything; the owner lets go
during anything. Wakeups go through the kernel. `PROJECT.json` lists the
hazards one by one with the property that covers each.

**What makes each component correct.**

* ring: bounded FIFO; accepted operations are resumed exactly once, in order;
  pushes and drains finish.
* connection: every accepted command gets one verdict, its own reply or an
  error; commands are executed in order and at most once; nobody sleeps
  through a wakeup; nothing is read from a frame that was resumed; letting go
  ends the coroutines and forgets nobody.
* event loop: nothing prepared stays unsubmitted while the loop sleeps; a
  command gets to the writer whichever thread awaits it.
* joins: the awaiting coroutine goes on once, after its last branch, with the
  outcome its kind promises, and nobody touches the awaiter afterwards.
* cancellation: a cancel sticks, is not missed however it meets the hook or the
  completion of an operation, and hits no operation but its own task's.
* parser: the result does not depend on how the stream is cut.
* cluster: a redirected command is in exactly one ring or in the loop's hands,
  runs at most once, and its coroutine gets its own reply; every command
  settles however slots move and connections break.

## 2. The modules

### RingQueue: what the ring promises

A queue of operations, open or shut, and the fate of each operation. Its
actions are what a user of the ring may rely on: `Accept` appends a whole batch
while there is room for it, `Refuse` answers a whole batch at once, `Answer` and `Abort` resolve the oldest
operation, `Reopen` starts again from nothing. `MPSCRing` instantiates it with
`queue <- LiveQueue`, `open <- ~stopped` and the same `fate`.
`Refuse` permits RING OVERFLOW at any moment, because the code does: a push
delayed between its two loads sees a wrapped difference (section 3).
`ImplementsQueue` excepts the steps that overwrite a live slot and those after
one (`overrun`): the ring is no queue then.

### MPSCRing: the lock-free ring

One action per access of a shared variable.

| action | code |
|---|---|
| `BeginPush`, `LoadTail`, `LoadHead` | the call and the two loads of `_push`/`_push_n`; the stop bit and the room test (`Full`) |
| `CasSucceeds`, `CasFails` | `compare_exchange_weak`, which may fail spuriously |
| `WriteSlots`, `Publish` | filling the claimed slots; spinning on `tail` and advancing it |
| `PrepWritev`, `Pop` | the writer's commit of at most `CommitBatch` commands; the reader |
| `DrainStop`, `DrainWait`, `DrainResume`, `DrainDone` | `_drain`: fetch_or, the wait for earlier claims, the loop over waiting handles |
| `ResetHead`, `ResetCommitted`, `ResetTail`, `ResetAllocated` | the four stores of `_reset`, in their order |

`push` is `push_n` with count 1 (the same code). `tail_allocated` and its
STOP_BIT are two variables changed together. `Full(t, h)` is the unsigned
comparison `t - h >= xcapacity`: with t < h the difference wraps and is huge.
A slot holds the operation of its handle; the payload shares its index.
`fate` records what each coroutine was resumed with; an answer taken from a
slot that holds another operation than the one whose command was sent is
`wrong_reply`. History variables: `epoch`, `seen_epoch` (resets, and which one
a producer's load saw), `stale` (a compare-exchange succeeded across a reset), `overrun` (a live slot
was overwritten). They guard no action.

`Pop` is taken when a committed command has been answered (`sent` is not
empty): the environment of the ring is a server that answers each command
once. `Pipeline` models what happens when it is otherwise. Writing the slots of
a batch is one step: the slots are read by others only after `Publish`.

### Pipeline: one connection

A step is what one coroutine does between two `co_await`s, since the loop runs
them one at a time; the ring is the FIFO `MPSCRing` implements (the unshared
ring is the same code run by one thread).

| part | actions | code |
|---|---|---|
| users | `Await`, `Signal`, `Close`, `Destroy` | `CommandAwaiter::await_suspend`, the eventfd write it submits, `close()`, `~RedisClient()` |
| connect_spot | `TcpConnects`, `ConnectFails`, `HandshakeReceives`, `HelloReplied`, `SelectReplied`, `HandshakeUnparseable`, `HandshakeBreaks`, `BackoffEnds` | `connect_spot`, and what `connect()` and the worker do with its result (`GiveUp`) |
| writer | `WriterWakes`, `WriterSends`, `WriterFails` | `writer`, with partial `writev`s |
| reader | `ReaderReceives`, `ReaderFails` | `reader`; `Deliver` gives every complete frame to the oldest waiter |
| worker | `RaceEnds`, `DrainResumes`, `DrainDeletes`, `DrainReconnects` | `worker` |
| external | `ServerAnswers`, `PeerCloses` | the server, the network |

Data: a reply is a sequence of tokens (RESP elements). A token says which
command it answers, what it is (an aggregate, a leaf, the string OK, an
unparseable line) and how many more elements it announces. The stream is cut
between tokens, or inside one (`torn`), when a receive ends there. Frames are
found by counting owed elements, which is what the recursion of the parser
does. When a handshake attempt fails inside a line, the beginning of that line
stays in the line buffer and is joined to the first line of the next
attempt: the result is unparseable or passes for something nobody sent (two
simple strings joined). `garbled` records that this happened.

`Close` makes `fd` "closed" and completes nothing; `Destroy` makes it "shut",
upon which the operations in flight fail. After the reader or the writer has
returned, `race()` cancels the other: its pending operation fails and so does
its next `co_await`; both must have returned before the race does.

History: `accepted` and `executed` (order of commands), `garbled`, `down`
(commands accepted since the connection was lost).

Simplifications: the handshake commands are sent with the TCP connect in one
step; the server's error replies occur only for HELLO and SELECT (an error
reply to a user's command is a leaf like others); the timeouts of connect_spot
are `HandshakeBreaks` and `ConnectFails`; a coroutine resumed inside a batch of
replies awaits its next command after the batch.

### EventLoop: how a command reaches the wire

Below `Pipeline`'s atomic `Await` and instantaneous wakeups lies the
io_context. `AwaitLocal` is `await_suspend` on the loop's own thread;
`Push`, `Lock`, `PrepSignal`, `WriteSignal` are its steps on another thread.
`Resumes(c)` is one iteration of `run_until_complete` over a completion c with
what the resumed coroutine then does (`ResumesWriter`, `ResumesReader`,
`ResumesTicker`, `ResumesNobody`), `BatchDone`, `LockToSubmit`, `Submit` and
`WaitReturns` the submission in the middle and at the end of a batch. `Submit`
at the end of a batch keeps the lock until `WaitReturns`, as the code does.
`Prep` fails when the submission queue is full: the reader's or the writer's
operation then fails at once and the connection goes `down` (where `Pipeline`
takes over; the other one's operation is then all that is left, and the loop
goes on to run), while a command's signal falls back to write(2). The timer is
that of a coroutine of the user's; when `AsyncTimer`'s awaiter finds the queue
full, `co_await` fails at once and this coroutine ends (`ticking`), which
concerns nobody else. The batch is
resumed with the lock free because each coroutine takes it only for the moment
of its preparation: `Resumes` waits for `lock = "free"`.

The kernel side (`EventWritten`, `EventRead`, `Sent`, `Received`,
`TimerFires`) is external.

### Joins: several branches, one coroutine

The awaiters of `race`, `any`, `all` and `allSettled` (single-threaded and
multi-threaded form), of chained commands on one ring and of an operation whose
parts go to several shards. `kind` and `threads` choose one; they share the
protocol and differ in `Entry`, `Unit`, `NextDone`, `Decides` and `Completes`.

| part | actions | code |
|---|---|---|
| await_suspend | `Refuse`, `StartBranch`, `StartInline`, `PushBatch`, `PushPart`, `PushRefused`, `Return` | a refused hook or batch; `start_all_tasks`, where a branch may complete inside the call; `push_n`; `push_pipe`; the last look at `done` |
| worker | `Finish`, `Store`, `Load`, `CasSucceeds`, `CasFails`, `Count`, `Publish`, `Release`, `CancelNext`, `CancelDone`, `Resume` | one access of the counter, or one call, each |
| cancel() | `CancelAll` | of the awaiter itself |

With several threads `race` and `any` count in twos; the winner stores its
result after it has counted and then takes one back, so that the last of the
others can tell whether the result is in place (`Completes`, `Release`). On
one thread the steps of a worker are not interrupted (`Quiet`). A cancel may end
a running operation (`Reached`), and sticks to a task that has not begun
(`Remembers`, see `XnetCancel`); it does nothing to a command, nor to a plain
operation before it starts. `Ask` also lets it miss what it reaches:
`io_context::cancel` returns EAGAIN without a request when the submission queue
is full, `cancel_except` ignores that, and a cancel between the moment an
awaiter has its handler and the one its operation is prepared finds nothing.
`lost` names the branches missed, `asked` those that will end (`Over` forgets
both when they do). History: `early` (a part of a clustered operation was the last before
`await_suspend` had looked at `done`; the coroutine then goes on twice), `late`
(an operation was cancelled after the coroutine had gone on, which destroys
it; possible with several threads only).

### XnetCancel: cancellation of a stack of tasks

`stack` is the chain of awaiting tasks from the fired one to the running one;
`marked` and `hooked` are the two bits of each promise's state; `lock` and
`handle` are the CancelChain they share.

| actions | code |
|---|---|
| `Call`, `Return` | co_await of a task, and its end |
| `Issue`, `HookLock`, `HookNext`, `HookFails` | `xcoro_hook` and its recursion: one compare-exchange per task, with undo |
| `Prep`, `PrepFails` | the submission, and EAGAIN |
| `Completes`, `Unhook` | the completion; `xcoro_unhook`, bit after bit, without the lock |
| `Mark`, `CancelLock`, `Check`, `CallCancel` | `request_cancel`: the mark, the lock, the second look, the call |

History: `lost` (a cancel that came before the submission, after the
completion, or found no room in the submission queue), `leaked` (EAGAIN has
left hook bits), `wrongly`, `dangling` (`cancel()` called on an awaiter that is
gone: `Unhook` does not take the lock, and the code lets this happen; there is
nothing to check about it). Reference counts are left out: a token keeps its
promise alive.

### Cluster: shards, redirects, and nodes that move slots

Composes the ring, as the FIFO of `RingQueue` with the overrun of `push_n`,
with a worker per shard (`Connected`, `Send`, `Drain`, `Reset`, `Receive`) and
the users' path to it, one step per shared access: `GetSlot` (the slot table),
`TryConnect` (the compare-exchange of the shard's state), `Create`, `Launch`,
`Push`. `Receive` takes the replies of one batch, then `Handle` pops and
decides one after the other, and `Forward` hands a redirected coroutine to
another shard: `try_connect`, `push` or `push_n` with ASKING's noop, or a
refusal. Between these steps of the loop only users and the network run
(`LoopFree`); the two of a drain and reset are separated because users see the
ring stopped between them.

The nodes answer from `owner` and `moving`: a migrating slot's keys may be on
either side, a command behind ASKING is served by the importing node, any other
gets MOVED. An unreadable redirect (`odd`) is one that `parse_error` rejects,
such as a host name: the reader ends with an error after the pop.
`Dialled` is `uint32toip`: the last digit of the address is missing.
`Handle` keeps the code's use of the first value for the whole batch; `batched`
names the commands it touches, `overrun` those of a ring that `push_n`
overran, `lost` those of an unreadable redirect, which nobody may ever resume.

Simplifications: the eventfd is written with the push (`EventLoop` has the way
between); `Send` writes all that is new (`Pipeline` has batches and partial
writes); the handshake succeeds when a node listens there; the shard table is
a map from address to shard, as the loop is its only writer after `connect`;
the slot of a redirect is the command's own.

## 3. The runs

| run | instance | shows |
|---|---|---|
| `ring` | 2 producers, 2 slots, batches of 1-2, commits of 2, 2 operations each, 1 reset, fairness | `TypeOK`, `CountersOrdered`, `ClaimsPartition`, `OccupancyBound`, `WaitersAreLive`, `RepliesMatch`, `ResumedOnce`, `ImplementsQueue`, `PushReturns`, `DrainCompletes` |
| `pipeline` | 2 commands (one with a nested reply), 2 slots, both ways to let go, 1 loss, 2 failed handshakes, 1 torn token, fairness | `TypeOK`, `RepliesMatch`, `PayloadsAlive`, `SentOnceInOrder`, `NoLostWakeup`, `DeletedAfterDrain`, `SettledOnce`, `EveryCommandSettles`, `LettingGoEnds` |
| `event_loop` | 1 local and 1 foreign command, 3 submission entries, submit after 3 completions, a periodic timer, fairness | `TypeOK`, `WakeupOnItsWay`, `OneOperationEach`, `EveryCommandAnswered` |
| `joins` | 3 branches (a task, a plain operation, a command), all six kinds, one thread and several, fairness | `TypeOK`, `ResumedOnce`, `LetGo`, `Verdict`, `Settles` |
| `cancel` | a root and 2 children (below or after one another), 2 cancellers, 3 operations, fairness | `TypeOK`, `HookedIsPath`, `NobodyMissed`, `RefusedForCause`, `Sticky`, `CancelsItsOwn`, `CancelledEnds` |
| `cluster` | 3 commands of one slot, 2 nodes on one host, 2 ring slots, 1 migration, 1 loss, 1 unreadable redirect, fairness | `TypeOK`, `OneHome`, `RepliesMatch`, `ExecutedOnce`, `EverySettles` |

**Why these bounds.** Two slots are the smallest capacity that is a power of
two and has a wrap-around, a batch that does not fit and a full ring with a
second producer; two operations per producer, singly or as a batch, fill a ring
of two and one or two slots more, and let positions wrap. Two producers are
what any race between two loads and a compare-exchange needs. One reset gives
every interleaving of a push begun before it and finished after it. Two
commands over a connection give a batch of frames, one left over, a command
accepted during a reconnection and one that waits while another is torn; they
do not fill the ring of two slots, whose overflow `ring` and `cluster` reach
and the theorems cover for every capacity. One loss and two failures reach
every state of the worker and a second backoff. Three submission entries with
a submission after three completions (in the code a quarter of the entries,
scaled down so that a batch can fill the queue) fill up with one operation of
the connection's, one signal and the ticker; every one of them is refused in
some behaviour.

Three branches are the smallest number with a first, a last and one between.
Three tasks give a stack in which a middle task, its parent or its child is
cancelled, and a child that ends so that the parent's next operation runs
through the same chain; two cancellers are one more than the lock admits, and
three operations are one before, one under and one after a cancel. Three
commands over two slots and two nodes fill either ring by redirects; one
migration gives MOVED, ASK and the change between the two; with one slot every
redirect meets every other command. Nodes on one host are where the code can
reach what it dials; `cluster_address` is the same with two hosts.

**Runs that expect a violation** state what the documentation says of the
code. Each is a finding in `PROJECT.json`.

| run | property | what the trace shows |
|---|---|---|
| `pipeline_close` | `ClosingEnds` | close() while no command waits: receive and eventfd read stay in flight, the worker never ends |
| `event_loop_asleep` | `EveryCommandAnswered` | the loop sleeps with the lock that another thread needs to wake it |
| `cancel_stuck` | `RefusedOnlyIfCancelled` | an operation that found no room leaves its hook bits; the next is refused as cancelled |
| `cluster_batch` | `AnswersArrive` | ASKING's +OK and the reply behind it in one batch: the coroutine gets the null left by the first |
| `cluster_stranded` | `NobodyStranded` | a MOVED that cannot be read: the coroutine was popped, the reader ends, the drain does not find it |
| `cluster_address` | `EverySettles` | hosts x.y.z.12 and x.y.z.1: the shard of the first dials the second, which says MOVED to the first, for ever |

**Provisos.** Where the code breaks a promise in a way that is understood, the
property that must hold names exactly what is spoilt, by a history variable,
and nothing else:

* `~overrun` in the ring's properties: `push_n` tests for one free slot and
  claims several (`mpsc_ring.hpp:60`), so the ring exceeds its capacity and a
  batch may overwrite a waiting handle. `OccupancyBound` says by how much.
* RING OVERFLOW on a ring that is not full, see `RingQueue`.
* `~stale` in `OccupancyBound`: a compare-exchange that succeeds on a tail read
  before a reset.
* `~garbled` in `RepliesMatch`, `PayloadsAlive` and the liveness of `Pipeline`:
  the parser is reset before the first attempt to reconnect only
  (`RedisClient.hpp:161`), so what a failed handshake leaves in the line buffer
  is read by the next, and replies may shift by one.
* `down` in `DeletedAfterDrain` and `EveryCommandSettles`: commands accepted
  while the connection is down are abandoned when the owner lets go before it
  is up again (`RedisClient.hpp:172` deletes the pipe without a drain).
* `LettingGoEnds` holds of the destructor at any moment and of `close()` while a
  command waits or there is no connection. A `close()` on a connection whose
  ring is empty is excepted: docs/API.md:75 equates it with the destructor, but
  it closes the descriptor without completing the operations in flight
  (`RedisClient.hpp:44`). `ClosingEnds` is the property without the exception,
  and `pipeline_close` shows it violated.
* `down` and `ticking` in `EventLoop`: a command is not answered on a connection
  that failed because the reader or the writer found the submission queue full,
  nor, for certain, once the timer's coroutine has ended that way: the loop may
  then sleep as in `event_loop_asleep`. `OneOperationEach` says exactly which
  operations are left in each case.
* `early` and `late` in `Joins`: a clustered operation whose last part ends
  before `await_suspend` looks at the counter goes on twice
  (`RedisCommander.hpp:1949`), and on several threads the winner may go on
  cancelling after the coroutine has gone on. The properties except both; that
  they do harm is not checked.
* `lost` in `Settles`: a decided race waits for a branch whose cancel was
  dropped or did nothing, and if that branch never ends it waits for ever.
* `leaked`, `lost` and `dangling` in `XnetCancel` are explained with the module.
* `batched` in the cluster's `RepliesMatch` and `ExecutedOnce`: the reader
  handles every further reply of a batch with the first one's value
  (`RedisCluster.hpp:608`), so a command may get a null (`cluster_batch`), and
  one behind a MOVED is sent again although its node has executed it.
* `overrun` and `lost` in all properties of the cluster but `TypeOK`: a
  coroutine whose slot was overwritten, or that was popped with an unreadable
  redirect (`cluster_stranded`), may never be resumed.

A command of another thread may be sent with somebody else's wakeup and
answered before its `await_suspend` has returned (`RedisCommander.hpp:223`),
which goes on using the awaiter; `event_loop` reaches this, and what follows is
undefined in the code.

`CHECK_DEADLOCK` is on in the runs of the ring, the connection, the loop and
the cluster; where the system may rest, the action `Finished` says so. `Joins`
and `XnetCancel` simply end when everything was awaited and cancelled once.

**Fairness.** Ring: a runnable thread takes its next step (weak fairness of
each step of a push and of a drain). `compare_exchange_weak` may fail
spuriously but not for ever (strong fairness of its success; on x86 it does not
fail spuriously at all). Nothing obliges a coroutine to push, the server to
answer or a drain to begin. Connection: while the coroutines, the kernel or the
server can take a step, one of them does (`System`, weak fairness of their
disjunction and not of each: the loop runs coroutines whose operation is
complete, timers fire, eventfd writes are executed, the server answers what it
received). Losses and failures are bounded, which stands for "in
the end connecting works". Nothing obliges the owner to let go. Event loop: the
loop and the kernel take their steps; a thread spinning for a lock that is free
again and again gets it (strong fairness of `Lock` and `LockToSubmit`: the
test_and_set spinlock has no queue, so this is an assumption about the
hardware, not a promise of the code). Joins: workers and the starter go on; an
operation ends for certain only once it has been cancelled. Cancellation: both
threads go on inside hook, unhook and `request_cancel`, the kernel completes
what it was asked to cancel, and nothing else is bound to happen. Cluster:
threads that have begun a command go on, the loop runs, nodes answer, connects
succeed; nobody is bound to begin a command, to end a migration or to break a
connection.

## 4. What is proved

Every safety invariant and every action property of the passing runs is a
theorem `Spec => []Inv` or `Spec => [][A]_vars`, for all values of the
constants that satisfy the named assumptions of the module; so is the refinement
`ImplementsQueue`. The exceptions of section 3 are part of the properties and so
of the theorems. The runs check the properties on
their instances; the strengthened invariants were checked by TLC on the same
instances before they were proved. What an assumption says beyond the types of
the constants:

* event loop: finitely many commands, and room for the worker's first two
  operations in the submission queue (the code divides by a quarter of its
  entries, so there are four at least);
* connection: finitely many commands, none called HELLO or SELECT, which name
  the handshake's own replies in the model;
* cluster: at least two ring slots, since ASKING and its command would overrun
  an empty ring of one by themselves (xcapacity is 4096 unless given), and no
  command called after a noop or ASKING.

The bounds (`MaxLosses`, `MaxMoves`, `MaxOps`, ...) are any naturals.

`MPSCRingProofs`: the counters.

* `TypeCorrect`: `TypeOK` is invariant. Its strengthening `TypeInv` adds what
  is known of a producer's frame while it pushes (`Frames`).
* `OccupancyBounded`, `SinglePushSafe`: the ring exceeds its capacity by less
  than the largest batch, and with single pushes no live slot is overwritten,
  unless a compare-exchange succeeded across a reset. The invariant
  `OccupancyInv` says that head only grows within an epoch (`HeadGrows`), that
  what the room test saw is still true of the values it loaded (`RoomSeen`),
  that epochs seen are epochs past (`Epochs`), that a reset starts again from
  zero (`ResetFromZero`) and that the stop bit is set exactly during a drain
  and reset (`StopPhase`). When the compare-exchange succeeds, tail is the one
  loaded and head at least the one loaded, so what was room then is room now.
* `CountersStayOrdered`, `ClaimsArePartition`: claims in progress are disjoint
  (`Disjoint`), between tail and tail_allocated (`InBounds`), and cover
  everything there (`Covered`). A drain can only leave its wait when nobody is
  claiming, and then nobody claims until the last store of the reset
  (`Quiet`); that is why the stores of `_reset`, which producers can observe
  between one another, are harmless in this order (`DrainsAll`, `Cleared`).

`MPSCRingQueueProofs`: the slots.

* `NobodyForgotten`, `RepliesReachTheirCommand`, `NobodyResumedTwice`: the
  inductive invariant `Contents` holds while nothing is overrun. `SlotInv` says
  what each slot holds: claimed and written slots their producer's commands
  (`Written`, `PushFates`), the wire the committed ones in order (`Wire`), and
  fewer positions in use than slots (`Room`). `LiveInv` says that the
  waiting coroutines and the live positions are the same, one to one. `Room` is
  where the counters' theorem is needed: two live positions have different
  slots only because they are less than a capacity apart.
* `RingIsQueue`: until a live slot is overwritten, the ring implements
  `RingQueue` for every size of the batches: each of its steps is a step of the
  queue or none. `CasSucceeds` accepts the whole batch, although its slots are
  written and published later, because `LiveQueue` counts the claim. With single
  pushes only a compare-exchange that succeeds on a tail read before a reset can
  overrun the ring (`SinglePushSafe`); `ring` has too few pushes to get there.

`JoinsProofs` and `JoinsOutcomeProofs`, for every number of branches `N` and
every set of kinds:

* `JoinsTypeCorrect`, `JoinsResumeOnce`: `IInv` adds to `TypeOK` where a worker
  can be for each kind (`PcInv`), what the counter is worth (`CounterInv`: in
  every encoding its absolute value is the number of branches that have
  counted, in units, less the one the winner takes back, `Spot`) and who
  resumes, unless early (`ResumeInv`: nobody owes the resumption, `Owes`, before every branch
  has counted; afterwards at most one worker does, and none while the winner
  has yet to take its one back or once the coroutine has gone on). The counter
  therefore reaches the value `Completes` looks for at most once.
* `JoinsLetGo`: on one thread workers do not overlap (`SoloInv`), and only a
  clustered operation can go on early (`EarlyInv`); with several threads who is
  still inside has not counted, or is the winner with its one to take back.
* `JoinsGiveVerdict`: `OutcomeInv` relates the counter's sign, the index and
  the stored results to who has counted: one winner publishes (`WinInv`), in a
  race the first to count (`RaceInv`), in any() a success as soon as one has
  counted (`AnyInv`), in all() the sign records a failure (`AllInv`), and the
  rest store before they count (`StoreInv`).

`XnetCancelProofs`, for any tasks, cancellers and number of operations:
`CancelTypeCorrect`, `BitsFollowStack`, `NobodyIsMissed`, `RefusalsHaveCause`,
`CancelSticks`, `CancelHitsItsOwn`, and the exclusion of the spinlock,
`LockExcludes`.

* What makes them inductive: a task of the stack that is marked after it was
  hooked has a canceller that waits for the lock (`Watched`); the first
  operation of a lone root is hooked without the lock, but then no canceller
  can want it (`FirstInv`); whoever is about to call `cancel()` holds the lock,
  so no further operation can be hooked and the one outstanding is its own
  task's (`OwnOperation`); after an EAGAIN the root stays hooked and stops
  every later operation (`LeakInv`).

`EventLoopProofs`, for any local and foreign commands and any submission queue:

* `EventLoopTypeCorrect`, `LoopHasOneOperationEach`: a coroutine of the loop's
  thread is never between two steps (`LocalInv`), the loop sleeps only with its
  batch used up (`LoopInv`), and the signals in the submission queue, in the
  kernel and in the counter belong to different suspended commands
  (`SignalInv`, which bounds the counter). How often an operation is in a queue
  is a cardinality (`InSeq`), so that one that moves from the submission queue
  to the kernel to the batch is counted once on its way. A step of the loop
  leaves the tallies alone, swaps one for another, takes one off when the
  connection fails, or takes off the timer when its coroutine ends.
* `NoWakeupIsLost`: `WakeupOnItsWay` is inductive together with these.

`PipelineProofs`, for any commands, ring capacity, commit batch, losses, failed
handshakes and torn tokens:

* `PipelineTypeCorrect`, `PipelineSentOnceInOrder`, `PipelineNoLostWakeup`,
  `PipelineDeletedAfterDrain`, `PipelineSettledOnce`: `RingInv` says what each
  state of the worker implies for the two coroutines (`ModeInv`), that the ring
  holds the suspended commands once each (`QueueInv`), in the order of
  acceptance (`AcceptInv`), behind what was executed and what `writev` has left
  of its batch (`SentInv`, `WaitInv`), that a writer that sleeps over something
  new has a wakeup coming (`WakeInv`), and who waits while there is no
  connection (`DownInv`).
* `PipelineRepliesMatch`, `PipelinePayloadsAlive`: `ReplyInv` says, while
  nothing is garbled, that the line buffer, the wire and the server's queue
  together are, token by token, the replies to the oldest commands of the ring
  (`StreamInv`), and during a handshake exactly its two replies
  (`HandshakeInv`, `Greeting`, `Selecting`). Frames are cut by a recursive
  function over the tokens (`Owed`); that the cut of such a stream is after each
  leaf (`PlainEnds`) is an induction over its length, done by the least-number
  principle, which the library has for a set (`WFMin`) and so without an
  operator as parameter.

`ClusterProofs`, for any nodes, slots, commands, migrations and losses:

* `ClusterTypeCorrect`: in `try_connect` a shard has one maker, which is in
  `create` while the shard is connecting and in `launch` until the worker runs
  (`MakerInv`), so a shard gets one pipe.
* `ClusterOneHome`: what a connection carries (replies on the wire, commands at
  the node, replies the loop holds) are the committed entries of its ring in
  their order (`FarInv`), so the loop never pops from an empty ring and
  `committed` never falls below zero; `HomeInv` then gives each coroutine one
  place, and `Handle` and `Forward` move it from a ring into the loop's hands
  and on.
* `ClusterRepliesMatch`, `ClusterExecutedOnce`: an entry takes the reply to its
  own payload (`Fits`, the invariant `FirstInv` for the one in hand); `RunInv`
  says that a command has run exactly if the reply on its way says ok, and not
  if it is still to be sent or is being redirected. When a node runs a command,
  `HomeInv` excludes that another ring, connection or redirect has it too
  (`AloneWhenServed`), which is why it runs once.

**Only model-checked:** all liveness (`PushReturns`, `DrainCompletes`,
`EveryCommandSettles`, `LettingGoEnds`, `EveryCommandAnswered`, `Settles`,
`CancelledEnds`, `EverySettles`), which together with ENABLED is out of the
prover's reach. The findings are counterexamples, which need no proof.

## 5. What is not modelled

* Weak memory: accesses interleave as in a sequentially consistent memory. The
  acquire/release pairs that carry the slot contents are not examined.
* Counters that reach 2^63: positions are unbounded naturals.
* The options of HELLO, the text of commands, numbers and doubles in replies,
  RESP3 attributes and pushes: data that no property tells apart. Most of
  `RedisCommander.hpp` and of the second half of `RedisCluster.hpp` is one
  formatting function per command.
* TLS, UDP, files, the acceptor: unused by the core, or external code.
* `evs_count`, which lets `run_until_complete` return, and with it the event a
  timer takes off it after a full queue (`xnet.hpp:3080`); the reference counts
  of promises and cancel chains.
* `close()` and the destructor of the cluster, `find_shard` on a full table,
  `connect()`'s parsing of CLUSTER SLOTS.
* The subscriber; CRC16; `RedisValue`, a tagged union.
* `header-only/`: the same text as the sources above.

## 6. What is left to do

1. `close()` in `Cluster`: it deletes shards that slots still point at and may
   meet a `try_connect` between `set_connected` and `set_alive`. The code asks
   that no command follow it, so what can be promised needs a decision first.
2. `RespParser`: the two parsers (`parse_recursion`, `try_parse_recursion`) as
   functions of a cut stream; the result is the frames of the whole stream
   however it is cut; a timed read that expires loses nothing (subscriber).
3. Hash tags and the CRC16 slot against a reference definition.
4. Proofs: an abstract specification of a connection (each command one
   verdict, in order) that `Pipeline` implements, step by step, as `MPSCRing`
   does `RingQueue`.
