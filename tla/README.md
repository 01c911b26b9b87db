# A verification of UtilityEngine's message path

UtilityEngine is a C++ library for network services. This directory models the path
of a message through it - from a socket to a buffer, to a pool of threads, through a
channel to a handler, and back to a socket - checks the models with TLC and proves
the central invariants with TLAPS. Line numbers are those of `src/UtilityEngine/`.

## The system

| component | state | operations | hard behaviour | what makes it correct |
|---|---|---|---|---|
| thread pool (`com_thread_pool.hpp`) | queue, state, one mutex, one condition variable, two atomic counters outside the mutex | `schedule*`, `get_task`/`_run`, `init`, `safe_stop`, destructor | notification after the mutex is released, spurious wake-ups, counters that lag the queue, stop against schedule | no lost wake-up; accepted tasks start in order, once; a stop drains and returns; the counters agree with the queue when nobody is in between |
| rotative buffer (`mem_rotative_buffer`) | a ring with an overhang, four pointers, `m_lastcopy`, `m_lastread` | `write`, `commit_write`, `read`, `readable_size`, `commit_read`, `clear`; `next`, `skip`, `back_up` | a region is filled while the mutex is free; copies in both directions at the ring's end; `m_lastread` doubles as the reader's wake-up flag | a byte queue, whose shown and granted parts are contiguous and never overlap |
| stream buffer (`mem_stream_buffer`) | a chain of blocks, the reader's place in its message | the same interface | a message in several blocks; blocks returned while their links are followed | the same byte queue; a message is whole, and found |
| framing (`msg_pares_len`, `msg_pares_zero`) | `m_size`, `m_limit`, `m_position` | `comfirm`, over either buffer | bytes that come while it looks; a length cut in two; stale bytes behind a piece | every message is found, whole; none is refused but for its length |
| data factory (`mem_data_factory`) | offsets as a free list; chunks of it | `malloc`, `free`, iteration, `clear` | three readings of one offset, chunks that change places | no element handed out twice, none lost |
| received messages (`msg_message`, `msg_pares_*`, `net_session`) | `m_size`, `m_good`, `m_lastread`, the session's `m_state` | `commit_recv`, `comfirm`, `commit`, `go_bad`, `close`, `do_close` | the IO thread, workers and closers share one token | one owner; whole messages, in order; a closed session is released, once, with nothing left over |
| sent bytes (`net_session`) | send buffer, window, `m_send_mutex` | `send`, `process_send`, EPOLLOUT | senders and the IO thread share one write loop | every accepted byte is written once, in order, in the end |
| channel and controler (`msg_channel`, `msg_controler`) | `m_parent`, `m_next`, `m_post_root`, `m_post_tail`, `m_thread_id` | `attach`, `detach`, `post_node`, `front`, `pop_front`, `dispatch_*` | posts while the root is being served; nesting; nodes that move | children of a channel are served by one thread, first come first served, none forgotten |
| dispatcher (`msg_dispatcher`) | a thread pool of nodes | `start`, `dispatch`, `stop` | `dispatch` after `stop` | nothing posted is dropped unseen |
| handler managers | tables | `attach`, `detach`, `get_handle` | - | - |
| responder, requester (`net_responder`, `net_requester`) | session pool, running flag, a promise | `start`, `process_accept`, `on_close_session`, `stop`, `join` | accept against stop; reuse of a session; a promise replaced | stop and join return, after every session is back |
| epoll service (`net_io_service_epoll`) | descriptor, threads, one-shot events, `m_inuse`, `m_need_send` | `start`, `stop`, `track_*`, `untrack_*`, `process_event`, `post_send_event` | two threads re-arm one descriptor | an event that matters is armed |
| md5 (`com_md5`) | state, bit count, block | `reset`, `update`, `c_str` | block and word ends; a digest asked for on the way | the digest of the input, however it was cut |
| application, service manager, logger, helpers, database clients | small | see PROJECT.json | a signal before the wait | - |

How they interact: an IO thread of the epoll service calls a session's `process_recv`;
the buffer's commit says whether the session must be posted; the controler posts it to
its channel, and the channel, or the session itself, to the dispatcher, which is a
thread pool; a worker dispatches it, runs the handler, which may call `send` (any thread
may), and confirms the next message. `close`, from any thread, goes through the same
token, so that a worker gives the session back to the responder or requester.

PROJECT.json lists every part under "components" and what is hard to test under
"hazards".

## Modules

Every module keeps the source's critical sections as single steps, and splits an
operation wherever other threads can come between. Each mapped definition has its
lines in PROJECT.json. Operators named `Mut_...` are plausible mistakes in that code;
a property is only kept if one of them breaks it.

**TaskQueue** is what a pool promises: tasks start in the order they were accepted,
each once; a stop refuses further ones, and ends the pool when the accepted ones have
been started; only a pool destroyed without a stop drops tasks.
**ThreadPool** is `thread_pool_wrap`. `Submit`, `Count`, `Notify` are the three steps of
`schedule` (the push under the mutex, the counter, the notification); a worker goes
through `Loop`, `Wait` or `Take`, `Uncount`, `Finish`; the owner through `BeginInit`,
`Spawn`, `EndInit`, and `StopEmpty` or `StopQueued`, `Await`, `Destroy`, `WakeAll`,
`Join`, or `Destruct`. `SpuriousWakeup` is the standard's licence for `cv.wait`.
`schedule_future` and `schedule_normal` wrap `schedule`. One thread starts and stops
the pool, and not from a task, as the dispatcher does.
**PoolObserver** is the pool with `thread_listen` of its test: `ReadWorkSize` and
`ReadTaskSize` are two loads, and everything else goes on in between. What the two values
tell is `QuietMeansDone`: that all tasks have been started, and how many of those started
before the first load may still run. They do not tell that nothing runs: a task taken between
the two loads is in neither.

**ByteFifo** is the contract of `buffer_iface` (`mem_buffer.hpp`): a queue of bytes with a
granted and a shown region and a flag `waiting`. `Exact` says whether a call grants all it
was asked for, as the ring does, or may stop at the end of a block.
**RotativeBuffer** is the ring. `mem` is the allocation with its overhang, pointers are
offsets. The IO thread does `Write`, `Fill`, `CommitWrite`, one worker at a time the rest.
A reader reads when it was not told to wait, and consumes no more than it was told is
there; that is how `comfirm`, `commit` and `process_send` use it.
**RingMessages** is the ring as the message a session reads, under `pares_len` and `pares_zero`.
It extends RotativeBuffer, whose steps it takes; with `framing = "none"` it is RotativeBuffer, in
every use its interface admits (`Plain`). `CheckLength`, `CheckBody` and `CheckZero`
are `readable_state`; `NextSize` and `NextShow` the two critical sections of `next()` in
`comfirm`, `ScanLength` and `ScanZero` what it does with the bytes, outside the mutex;
`TakeNext` and `BackUp` are the handler's. A byte may be committed between any two of them.
`Strlen` reads what `strlen` reads: also stale bytes behind the piece, up to the sentinel.
**StreamBuffer** is the chain of blocks, with the three operations a message reader has on
it and both framings. `mem` and `link` are the blocks and their `m_next`; `head`, `reader`, `tail`, `writer` the
four pointers. A buffer that sends is read by `Read` and `CommitRead`. One that receives is
read by `Check` and `Scan`, which are `comfirm` of `pares_zero` with the critical sections
apart, or by `CheckLength`, `Gather` (one piece of a length that is cut between blocks) and
`CheckBody`, which are that of `pares_len`; the handler's `TakeNext`, `Skip`, `BackUp`;
and `CommitMessage`. The sentinel of `Strlen` is at each block's end. `free` of the chunked pool does nothing (findings),
so a block is used once between two `clear`s.

**CellPool** is what a pool of elements promises. **FreeList** is `data_factory`: `offset`,
`next` and `left` are its table, list head and count; `Malloc`, `FreeCell` and `Clear` its
operations, and the iterators are operators on a table. Its specification is `TableSpec`, so that
it can be proved about in one module with Responder, which takes its sessions from such a pool. `Top` is the greatest value of the
offset type, so that the numbers the table uses as marks are as close to the elements as the
static_assert admits.

**SessionMessage** is one session's receive path. `lastread` is the token: `CommitRecv`
takes it when it is zero, `ConfirmPending` gives it back in the critical section that
found too few bytes, `GoBad` takes it for the close. Labels in `pc` are the places
between the critical sections of `process_recv`, `post_request`, `dispatch_obj` and
`close`; `after` is where a thread goes on when the call returns. A message is two units,
so that its parts may arrive apart; a `bad` unit is a length out of range. The session is
in no channel and is not used again after its release.

**SessionSend** is one session's socket, with both directions. `Send`, `Lock`, `CheckRoom`,
`Copy`, `Start` are `send()`; `SocketWrite`, `ReleaseSent`, `Reread` the write loop, by the
sender or by an IO thread; `Claim` to `Rearm` the read part of an event, `BeginSend` to
`EndSend` its write part. `interest` is what the one-shot descriptor is armed for: `Deliver`
takes an event and disarms it, and `Rearm`, `Arm` and `Disarm` are the three `epoll_ctl`s,
each a step after the one that read or wrote `m_need_send` (`Peek`, `Remember`, `Clear`), with
any step of any thread in between. The socket takes any part of the window, is full, or fails in
one of the ways `process_send` tells apart (`SocketFull`, `SocketClosed`, `PeerGone`,
`WriteThrows`); `write()` grants any part of a packet, as a ring does at its block size and the
stream buffer at the rest of its last block, so that a packet takes one commit or several; the
peer sends when it likes; anyone may close. Bytes are counted, not stored: ByteFifo has their
order. Two history variables, which no action reads, mark where the code goes wrong (findings):
`crossed` is set when a thread uses `m_need_send` between another's use of it and its
`epoll_ctl`, when an event is delivered while another IO thread has not come to the write loop
of the one before, or when `m_inuse` drops an event; `lost` when `send()` overwrites the answer
that gave it the token, or an exception takes the token along. A property names the one it is
stated up to, and says nothing after it; every behaviour leads there freely. `TokenIsHeld` needs
`lost` only: threads that cross may double the token, they do not drop it.

**Client** composes the parts into the program of `ClientTest.cpp`: `main()` connects its
requesters, sends, erases, stops and joins them, then stops the service and the
dispatcher; the IO thread receives and closes; workers dispatch, handle, commit, confirm and
release. `token` is SessionMessage's; what arrives completes a message, does not, or is too long
for one (`endless`), which `comfirm` answers with an error: `Confirm` is shared by workers and,
in `post_request`, the IO thread. `failed` marks a session closed by `handle_error` under its
token. `queue` is TaskQueue's;
`promise` is `m_can_stop`, which `connect()` replaces after the session was tracked. The
program names `io_service_iocp`; the model has the epoll service, with one IO thread.

**Digest** is `com::md5`: how input is cut into blocks, counted in two words and padded. What
`transform` computes of a block is left abstract: the state is the sequence of blocks it was
given, which tells two digests apart exactly when their input differs.

**Responder** is a server's sessions: `Start` and `BeginStop` to `ClearPool` are the owner's
`start()` and `stop()`; `Poll` to `TrackSession` the IO thread with its batch of events;
`OnCloseSession` a worker that gives a session back. It takes from SessionMessage that a
closed session is released, once (`CloseReleases`, `ReleasedIsOver`), unless it was closed under
its token: `HandlerFails` is that close, by `handle_error`, and puts the session in `leaked`,
for good. It takes from CellPool that
the session pool hands out free elements. A close is one step: between its two changes of
`m_state` nobody else can get the session. `conn` tells the connections of one session
object apart. `CloseAccepted` is stop()'s close of the descriptor in the accept data, which
`accepted` follows: the session that has it is then refused by epoll (`TrackFails`) or forgotten
by it, and its close throws (`CloseThrows`, state "stuck"). Such an exception ends the program;
the model goes on with the other threads, which only adds behaviours. The IO service runs one thread, and it and the dispatcher outlive the server.

**RunQueue** is what a channel promises: a line of nodes, where the first is served and
goes to the end or leaves. **Channel** has the links of `msg_channel.cpp` as they are
(`next`, `root`, `tail`), the recursion of `dispatch_channel` as a `path` per worker, and
`post_node`'s climb from a node to its channel and on to the pool. Handlers may detach or
attach their object, to any channel, from wherever it was dispatched, and threads post at any
time; `Crash` is a null `front()`, or a channel linked into itself. The history variable
`overtaken` is set by the first post of a node that a channel still lists: by another thread,
between the token's return and `pop_front`, or by the worker itself, whose handler has moved the
object to another channel. From there the links are wrong and the program may do anything short
of what it is for (findings), so the properties are stated up to that post. `SafeSpec` is the
specification without fairness.

## Runs

| run | instance | what it shows |
|---|---|---|
| `thread_pool` | 2 workers, 1 caller, an observer, tasks that schedule, 3 tasks, 2 starts, counters modulo 8 | `WorkConserving` (no lost wake-up), `CounterExact`, `QuietMeansDone` (what the observer's two loads tell), `Implements` (refines TaskQueue with its fairness), `StopReturns` |
| `ring_messages` | 5 cells, blocks of 3, bytes 0 and 1, messages up to 3, lengths of 2 bytes, `m_lastread` up to 4 | `ViewIsPrefix`, `GrantIsFree`, `ImplementsFifo` of any use of the ring and of its messages' reader; `MessageIsWhole`, `MessageIsFound` |
| `stream_buffer` | blocks of 2, 4 of them, bytes 0 and 1, messages up to 4, lengths of 2 bytes | `ImplementsFifo`, `PieceIsNext`, `MessageIsWhole`, `MessageIsFound` |
| `free_list` | 4 elements, offsets up to 6 | `FreeListed`, `IterationExact`, `IsPool` (refines CellPool) |
| `session_message` | IO thread, 2 workers, 1 closer, two messages and a bad length, room for 3 units | `SingleOwner`, `TokenExact`, `HandlesWholeMessages`, `ReleasedIsOver`, and in the end `MessagesHandled`, `CloseReleases` |
| `session_message_leak` | the same | `ClosedIsReleased` violated: a failed message leaves the closed session unreleased |
| `session_send` | 2 senders, 1 IO thread, packets of 1 or 2 bytes, blocks of 2, room 3, 2 bytes to read | up to `crossed`: `OneWriteLoop`, `WireExact`; up to `lost`: `TokenIsHeld`; up to either, in the end, `QueuedIsSent`; in the end `DataIsRead` |
| `session_io_threads` | 1 sender, 2 IO threads | `DataIsRead` violated: with two IO threads received bytes may wait for ever |
| `responder` | 2 sessions, 3 connections, 2 starts | `SessionOnce`, `StopComplete`, and in the end `StopReturns`, unless a session is leaked or stuck |
| `client` | 2 clients, 1 worker, data arrives twice | `JoinMeansClosed`, `PromiseKeptOnce`, and in the end `ProgramEnds`, unless a promise was lost or a message too long |
| `channel` | 2 objects, a channel in a channel, 2 workers, 1 IO thread, 2 messages each | up to `overtaken`: `ServedByOne`, `FrontExists`, `NothingLost`, `IsLine` (refines RunQueue), `AllHandled` |
| `digest` | blocks of 4 units of 2 bits, words of 8 values, 14 units | `DigestOfInput` |

The runs check no type invariant of its own: it is proved for every module that has a proof
(see below), and in the others it says what the variables are.

Some definitions are stated and are not invariants of the code. They are findings that
need no run of their own: `RepostIsDispatchers` and `HandlerOwnsObject` (Channel),
`NobodyThrows` (SessionSend); added to the run's cfg, TLC finds them violated. So are the
properties above without the exception they name: `~crossed` and `~lost` in SessionSend,
`~overtaken` in Channel, `leaked` and "stuck" in Responder, "lost" and `failed` in Client,
`answer.sound` in Digest. The exceptions are what the code does wrong, not what a caller must
avoid: the models run through them and on. `ReadExclusive` and `FlagIsArmed` are parts of what
SessionSend keeps; the second is proved as part of its invariant.

Why the bounds are enough. Two workers and one outside thread give every pair of actors
that share a mutex or an atomic; a third of a kind repeats a step another makes. Three tasks
let one run, one wait and one be accepted; two starts reach the second round with what the
first one left. Five cells and blocks of three put the ring's end before, at and inside every
region, with copies of one to three bytes in both directions; four commits fill it byte by byte. Two messages and a bad length
give a message split in two reads, two in one read, and an error behind a good one; room for
three units fills the buffer. Four elements give every order of handing out and giving back
around a part that was never used. Two sessions fill the pool, and three connections use one
of them again. Four blocks of two bytes let a message begin in one, fill one and end in a
third, behind another whose bytes are still there; with three no length would be cut between
blocks in a message that is handled. The two bytes of a length tell four lengths apart: one shorter than itself, two that
fit, one too long, each of which the end of the ring, or of a block, may cut. Packets of two bytes in a buffer of three, granted
in ones and twos, give a packet in one commit and in two, one without room, and a write loop that
meets a second packet. Two clients and one worker make every step of one meet the other's in the same queue;
Blocks of four units
and 14 of them put the padding before, at and behind a block's end, and words of eight values
carry over. A counter modulo 8 is more than twice the tasks and markers, so
that a wrap below zero is told apart from a large count. The bounds (`MaxTasks`, `MaxRounds`,
`MaxLastread`, `MaxNodes`, `MaxSends`, `MaxArrivals`, `MaxConns`, `MaxMessages`, `MaxTotal`, the stream's
length) stand in the guards of the environment's actions only, except `MaxLastread` and
`MaxNodes`, which bound the writer. MCChannel has a
CONSTRAINT, `Explored`: once a node was overtaken, where nothing is claimed, the run follows only
the states in which no object has gone bad; before that it cuts nothing. Runs with
CHECK_DEADLOCK FALSE may really stop: a service whose peers are silent and whose pool is
down has nothing to do, a program that has ended neither.

Fairness. A thread inside the code goes on (weak fairness per thread and step); callers, peers
and closers owe nothing. SessionSend has strong fairness for a sender, because the mutex is
handed over again and again, and weak fairness for the socket's becoming writable: the peer
keeps reading. StreamBuffer and RingMessages only ask the reader to go on, Client every thread of the program:
nobody has to type. Handlers return; a spurious wake-up and a full socket are never required.

## Proofs

| theorem | states |
|---|---|
| ThreadPoolProofs `TypeCorrect`, `NoLostWakeup`, `CounterIsExact`, `QuietIsDone` | `TypeOK`, `WorkConserving`, `CounterExact`, and, of PoolObserver, `QuietMeansDone` while queue and workers together are fewer than the counter's values |
| ThreadPoolProofs `PoolIsQueue` | every step is one of TaskQueue's or none: `Implements` without its fairness |
| RotativeBufferProofs `TypeCorrect`, `ViewCorrect`, `GrantCorrect`, `RingIsFifo` | `TypeOK`, `ViewIsPrefix`, `GrantIsFree`, `ImplementsFifo`, of every use of the ring |
| RotativeBufferProofs `MessageRing`, `MessageTypes`, `MessageWhole` | the same of the ring under a reader of messages; `MessageTypeOK`; `MessageIsWhole` |
| StreamBufferProofs `TypeCorrect`, `ChainIsFifo`, `PieceCorrect`, `WholeCorrect` | `TypeOK`, `ImplementsFifo`, `PieceIsNext`, `MessageIsWhole` |
| SessionMessageProofs `TypeCorrect`, `OwnershipExclusive`, `ReleaseFinal`, `TokenIsExact`, `HandlesWhole` | `TypeOK`, `SingleOwner`, `ReleasedIsOver`, `TokenExact`, and `HandlesWholeMessages` when no length stands where a body belongs |
| ComponentProofs `TableCorrect`, `ListCorrect`, `PoolCorrect`, `IterationCorrect` | of FreeList: `TableTypeOK`, `FreeListed`, `IsPool`, `IterationExact` |
| ComponentProofs `TypeCorrect`, `SessionsCorrect`, `StopCorrect` | of Responder: `TypeOK`, `SessionOnce`, `StopComplete` |
| ComponentProofs `DigestTypes`, `DigestCorrect` | of Digest: `DigestTypeOK`, `DigestOfInput` |
| ClientProofs `TypeCorrect`, `PromiseIsKeptOnce`, `JoinIsCorrect` | `TypeOK`, `PromiseKeptOnce`, `JoinMeansClosed` |
| SessionSendProofs `TypeCorrect`, `LoopIsOne`, `WireIsExact`, `TokenIsKept` | `TypeOK`, `OneWriteLoop`, `WireExact`, `TokenIsHeld` |
| ChannelProofs `TypeCorrect`, `ServedByOneWorker`, `FrontIsThere`, `NothingIsLost`, `ListsAreLines` | `TypeOK`, `ServedByOne`, `FrontExists`, `NothingLost`, `IsLine` |

They hold for every value of the constants that the ASSUMEs admit: any finite sets of threads,
any ring and block size with a block no longer than the ring and any message no longer than a block, any
chain of blocks of any size and messages of any length, any stream (`HandlesWhole` asks that its even places be bodies), any pool size below
the marks, any block and word of a digest when a word counts whole blocks (as 2^32 bits and 64
bytes do), any number of sessions, connections and restarts, any number of clients, workers
and senders and IO threads, of objects and channels and any nesting of them. Besides the ASSUMEs
only `QuietIsDone` and `HandlesWhole` have a hypothesis. SessionSend's and Channel's hold of every
behaviour of the code, with properties that claim nothing after `crossed`, `lost` or `overtaken`.

- *ThreadPool.* `WorkConserving` counts tasks against the workers that are awake and the
  notifications on their way. It is inductive only with `Sleepers` (the wait set is exactly
  the workers at `wait`) and `OwnerShape` (what the owner's place says of the state and of
  its own notification). The counters wrap, so `Counts` says that each differs from what it
  counts by a multiple of `CounterMod`; read as a remainder that is `CounterExact`. For the
  refinement, `InOrder` says that the queue is the last tasks accepted, in order, and what the
  workers have is older and each with one of them; `MarkerLast` that safe_stop's own task is
  behind them all, and its future ready only when the queue is empty; `Phases` what the owner's
  place says of the state. For `QuietMeansDone` the observer's invariant `Seen` says that, from its
first load on, no more of the tasks it counted as started are running than it read.
- *RotativeBuffer.* The invariant adds `Pointers` (what is readable, shown and granted fits
  between the pointers) and `TailCopies` (the overhang repeats the head as far as
  `m_lastcopy` says), which is what makes a view across the end correct. `RingIsFifo` has one
  lemma per call, which says what it does to the queue, the filling and the view.
  The reader of messages has an invariant of its own (`MessageInv`): its place in `comfirm` is the
  token (it looks exactly while `m_lastread` is not zero), and at each place `AtLength`, `AtZero` and
  `AtHandler` say which bytes of the queue it has seen: the length it read is that of the oldest
  bytes, or none of the bytes it passed over is zero. A commit only adds bytes behind these. Every
  one of its steps is a step of the ring (`MessageUsesRing`), so what was proved of the ring holds under it.
- *StreamBuffer.* A byte has an address, its block's number times the block size and its place
  there, and an address has one such place (`Divides`, `Divided`). `Chained` says that the blocks
  from `head` to `tail` are linked one after the other and that what is readable lies between the
  reader's address and the writer's; so the byte `Along` finds by following `m_next` is the one at
  that address (`AlongIs`, `QueueBytes`). A message reader's place is `On` the chain when node and
  offset together are the address that its position says, at a block's end as well, before it
  has turned: `PieceIs` says that a piece from such a place is made of the next bytes and ends at
  such a place again, and `SkippedIs` carries it over any number of pieces by induction. On top of that
  `Token`, `AtZero`, `AtLength` and `AtHandler` say what the reader has seen, as for the ring, with the
  half-copied length in `field`. `ChainIsFifo` has a lemma per call, as `RingIsFifo` has.
- *SessionMessage.* `SingleOwner` counts with `Cardinality`; the inductive form says it with
  quantifiers (`OneOwner`), together with `Token` (a zero `m_lastread` means no owner, the
  half of `TokenExact` that holds with failures too), `Closing` (a released session is bad
  and down) and `Buffer` (what the labels know of the bytes that are there). `TokenKept` is the
  other half, `Whole` ties `m_size` and the position to the stream.
- *FreeList.* The list is a sequence whose existence `FreeListed` states. A fresh element is
  only ever taken when it is the first fresh one (`FreshAtEnd`), and `LeftExact` makes the
  count that of the free elements, so that a refused request means a full pool. `PoolCorrect`
  is the refinement itself. For the iterators, `FreshAtEnd` makes the marked offsets a beginning
  of the table, `Touched`; the bisection of `head_zero` finds its end by induction on the length
  of the interval (`HeadZeroFinds`), and the least and greatest elements the iterators ask for exist.
- *Responder.* `Phases` ties `m_running` and the promise to the owner's place, `Stages` says
  that a tracked session is open and that one being accepted is untracked until the step that
  tracks it, so that a close by event or handler cannot meet it; `SessionOnce` and `StopComplete`
  are inductive with these. A leaked session stays in use, so a `stop()` that returns has none.
- *Digest.* The context `Holds` a message: its whole blocks are hashed, the rest is at the start of the
  buffer, and the two words are its length in bits (`Count`). The index is read from the low word
  alone; that a word is a whole number of blocks makes it the length modulo the block (`IndexIs`), and
  `AddWords` says that the low word wrapped exactly when it is below what was added. `UpdatedHolds`
  takes any input on from any such place, so final's two updates end with the padded message
  (`WholeIsMessage`), and `FinalKeeps` says when the input in the buffer survives them; when it does
  not, `spoiled` is set and nothing is claimed until the next reset.
- *Client.* The invariant is about one client at a time (`Session`): `Requests` ties the token
  to the one task or worker that has it, `Closes` the session's state to the one thread that
  is closing it, `Messages` counts what is unread, `Keeps` says who may still keep the
  promise. `Acts` and `Elsewhere` say what a step does for the other clients: nothing. With
  two requests for a session, or two closers, `JoinMeansClosed` could be true and the next
  step make it false; that neither exists is what the induction carries.
- *SessionSend.* `Holds` is a thread that has the window. `Token` says that one thread holds
  it, or `m_need_send` does, and that `m_lastread` is not zero meanwhile; `Window` that it shows queued bytes; `Events` that an EPOLLOUT event under way means the flag is set; `Arming` that
  the flag is ahead of the descriptor in one thread at most; `Alone` that one IO thread at a time
  is before the write loop of an event. These are about a connected session whose descriptor
  nobody has crossed (`Online`, `Masked`), and `UsesFlag` and `TakesEvent` are what makes them
  inductive: a step that would break one sets `crossed`. What needs no such condition - the types, the
  mutex, the packets (`Packets`) - is kept in every interleaving. So is `Held`, the converse of
  `Token`: a token that is out is with a thread, on its way to the loop (`Keeps`), or in the
  flag; `TokenIsKept` needs `TypeOK` and `Held` alone. `TakesEvent` is why
  the theorems need no assumption about the number of IO threads.
- *Channel.* The invariant has two parts: `Shape`, the types and what the places of a worker say of
  its path, holds always, and `IInv` until a node is overtaken. There a node is in one place at a time: with the thread that posts it, in the pool's
  queue, at the head of a worker's path, or in one channel's list (`Claims`, with `kind` and
  `who`). A list is given by its cells from `lo` to `hi` (`Lists`), without a walk along
  `m_next`: `post_node` adds a cell at the end, `pop_front` gives up the first. All
  five are quantified over in the invariant, and each action names the new ones. A node whose
  dispatch has ended without more to do is still at the worker's hands, and at the front of
  its list; that place does not count (`LettingGo`), and a post of it from there sets `overtaken`. `Paths`
  and `Apart` say that each node on a worker's path is the first of the next one's list, and
  that two paths have no channel in common: from this `ServedByOne` and `FrontExists` follow.
  `Kept` is the invariant behind `NothingLost`: a node that needs to be served is in one of those
  places, and what needs a channel served is in its list, so that from a posted object the way up
  its channels ends at the pool's queue, a post or a worker, by induction on the depth. For `IsLine`, the walk along
  `m_next` is shown, by induction on its length, to visit the cells from `lo` to `hi`.

Model-checked only: all liveness (`StopReturns` of ThreadPool and of Responder, `MessagesHandled`, `CloseReleases`,
`QueuedIsSent`, `DataIsRead`, `MessageIsFound`, `AllHandled`, `ProgramEnds`), which needs fairness and
ENABLED, and with it the fairness in `Implements`. Every safety property of a run has a theorem,
some under the hypotheses above. The library's induction theorems take an
operator, which the prover cannot instantiate. Where a proof needs induction it has a lemma
`Induction` over a set of numbers, from the least number that well-foundedness of `<` gives; with
it a recursive function of one argument is shown to be the function it is meant to be.

## Findings

PROJECT.json quotes each with its lines. In short: a failed message, or one that is too long,
leaks its closed session, and a `stop()` or `join()` waits for it for ever; with two IO threads a
received byte may never be read, and a sent one may be sent twice or its event dropped; the
flag `m_need_send` and the descriptor may contradict each other, with one IO thread too; a packet that takes two
commits may never be sent, nor any after it; nor after an exception in `send()`; a read on a
closed session ends the program; `stop()` closes the descriptor of a session just accepted,
whose close then throws; `join()` can wait for a promise that was replaced, and returns while its session is
still being let go; a post can be mistaken for the worker's own, and a handler that moves its object to
another channel breaks the links of the one it leaves; a handler can lose its thread
id; `skip(0)` does not end; `free` of a chunked pool frees nothing; a second digest can be wrong;
a service cannot be started again.

## Plan

1. **SessionSend**, further: what several IO threads keep after two of them have crossed each
   other, if anything; a reused descriptor number.
2. **Responder**, further: more IO threads, a dispatcher or IO service that is stopped first;
   the session pool composed with the receive path.
3. **SessionMessage** over a buffer: the receive path composed with RingMessages, so that a
   session that fails in the middle of a message, and is used again, has real bytes in it.
4. **Application** and **ServiceManager**, small; `numeric_digit` and `hex_caster` as pure
   operators.

## Not modelled

Most of the repository is not its own: of 69 000 lines counted, about 67 000 are the headers of
MySQL and mysql++, one of which alone has 23 000. Nothing in `src/UtilityEngine` calls into them but
a thin client. What is modelled is most of the code of the message path, and a small share of
the whole.

Left out: the Windows service (`net_io_service_iocp`, the same protocol on another kernel
interface), sockets and database clients (system and library calls), the logger and formatting,
the protobuf adapter and handler tables, the service manager and application, number
conversions, and of `data_factory_ex` what the stream buffer does not use. A requester's second
start and reused descriptor numbers are not states of a model. A task
that stops its own pool is a use nobody makes.
