# A TLA+ model of cpp-tools

cpp-tools is a C++ library: a stackful coroutine scheduler, a thread pool and a
wait group, an epoll/kqueue event loop with an HTTP server on top of it, a
multi-threaded reactor server, an HTTP client, a router, JSON, logging,
configuration and flag parsing, and a protobuf generator. This directory holds
TLA+ modules for the parts whose correctness depends on the order of events, the
TLC configurations that check them on small instances, and theorems about them
for every instance, with proofs that TLAPS checks.

`PROJECT.json` lists components, runs, the source lines each definition stands
for, what the runs found, the hazards and the theorems.

## 1. The system

| Component | State | Operations | What is hard | What makes it correct |
|---|---|---|---|---|
| Coroutine scheduler (`concurrency/coroutine.cpp`) | a pool of coroutine slots, a pool of batches, the running id, a count, the list of batches that are done | create, yield, four Resume functions, BatchInit/Add/Run, local variables, release of stacks, clean | slots and batches are reused; code of the clients runs between any two calls; the scheduler asserts what its callers must guarantee | no assertion fails; barriers open exactly when the children have returned; nobody is forgotten; stacks and locals of live coroutines stay |
| Thread pool (`fixed_quantity_thread_pool.cpp`) | an atomic flag, a queue, a mutex, a condition variable, threads | addTask, shutdown, destructor, the worker loop | the flag is written and the condition notified without the mutex | FIFO, each task at most once, no lost wake-up, no thread left behind |
| Wait group (`wait_group.cpp`) | an atomic counter, a mutex, a condition variable | add, done, wait | add reads the counter twice; reuse | wait is a barrier and returns |
| Event loop (`net/poll_epoll.cpp`, `poll_handler.cpp`, `poll_channel.cpp`) | epoll set, `channelMap`, `connMap` | accept, read, write and hang-up events, close | two maps that must agree, descriptors reused by the kernel, callbacks that close what the loop is looking at | one live entry per descriptor; no buffer of one connection reaches another |
| HTTP server (`http/httpserver.cpp`, `response_writer.cpp`) | per connection a send buffer; routes, interceptors | onRead (parse, intercept, dispatch), onWrite | requests in pieces, partial writes, hang-ups at any point | each connection gets one answer of its own, whole or not at all, and is closed |
| Router, interceptors (`http_router*.cpp`, `httpserver.cpp`) | a trie per method; a list | addRoute, getRoute; addInterceptor, the chain | wildcards and literals at the same level; the `next`/`abort` protocol | a registered route is found; the chain stops exactly when asked |
| Reactor (`reactor/*.h`) | epoll sets of several threads, a ready count | start, hand-over of a connection, read, write | start-up barrier, hand-over between threads | a hand-over finds an epoll instance; every connection is watched by exactly one thread and released once |
| HTTP client (`httpclient.cpp`, `httprequest.cpp`, `httpresponse.cpp`) | a request object used again and again | setters, get, post | what one request leaves for the next; answers in pieces | the body is what the server sent |
| Logger (`log.cpp`) | level, mode, pattern; a stream and a name per level | setters, log | rotation opens files afresh; levels share files; restarts | no line lost |
| INI configuration (`config.cpp`) | sections; a static current section | load, save | state that outlives a file | a file loads as what it means |
| Flags (`flag.cpp`) | options, position | declare, parse | arguments in either form | options have what argv says |
| JSON, protobuf parser (`jsonparse.cpp`, `json.cpp`, `generator/protobuf/parser.cpp`) | the data of one call | parse, toString | boundaries of nested values; tokens over lines and comments | the text of a value parses to it; layout does not matter |
| Sockets, files, time, strings, system helpers | none of their own | wrappers of system calls | - | - |

The coroutine scheduler is used through its functions only (`coroutineTest` in
`main.cpp` is the one client in the repository); it runs on one thread and shares
nothing with the pool or the event loop. Pool and wait group are independent of
each other. The HTTP server owns an event loop, which calls the connection
handler, which calls router, interceptors and response writer. The reactor is a
second server, independent of the first. The logger is called from everywhere.

## 2. Modules

| Module | What it is |
|---|---|
| `CoroutineSchedule` | the scheduler: state, one action per operation, properties |
| `ForkJoin` | what batches promise: structured fork and join on one processor |
| `CoroutineInvariant` | the rules of use, the inductive invariant, the search loop of `CoroutineResume` as a recursive function, and how the scheduler implements `ForkJoin` |
| `MCCoroutine` | master loops and rules for TLC |
| `CoroutineProofs` | theorems about the scheduler |
| `TaskExecutor` | what a thread pool promises |
| `ThreadPool` | the pool, its properties, its inductive invariant; implements `TaskExecutor` |
| `MCThreadPool`, `ThreadPoolProofs` | instances, theorems |
| `WaitGroup` | the wait group, its properties, its inductive invariant |
| `MCWaitGroup`, `WaitGroupProofs` | instances, theorems |
| `AnswerService` | what both servers promise a client |
| `HttpExchange` | one request and its answer: end of header, what it is taken for, what is answered |
| `PollServer`, `MCPollServer` | event loop, maps, connection handler, their inductive invariants; implements `AnswerService`; instance |
| `PollServerProofs`, `PollServiceProofs` | theorems about the maps and the send buffers; the proof that it implements `AnswerService` |
| `ReactorServer`, `MCReactorServer` | the multi-threaded server and its inductive invariant; implements `AnswerService`; instance |
| `ReactorServerProofs` | theorems about start-up, hand-over and release; the proof that it implements `AnswerService` |
| `DataLemmas` | facts about loops, least elements, beginnings of sequences and their parts, for all the proofs |
| `HttpRouter`, `HttpInterceptors` | the trie; path patterns and the chain |
| `FlagParser`, `IniConfig`, `Logger`, `HttpClient` | a state machine each |
| `Json`, `ProtobufLexer`, `ProtobufParser` | pure functions |
| `Library` | the router, interceptors, the four state machines, the lexer and the pass over its tokens side by side, with their properties |
| `MCLibrary` | the values for TLC, the inputs, and `Json` |
| `LibraryProofs` | theorems about the client, the logger, the flags, the interceptors, the router, the INI configuration, the lexer and the pass over its tokens |

Operators whose comment begins with "Wrong" are plausible bugs of the definition
that follows them. No definition uses them; putting one in the place of the right
operator makes TLC refute the property that `PROJECT.json` pairs it with.

### 2.1 CoroutineSchedule

*State.* `state`, `priority`, `relateBatchId`, `isInsertBatch`, `stack`, `local`
are the fields of `Coroutine`; `batchState`, `relateId`, `cid2finish` those of
`Batch`; `isMasterCoroutine`, `runningCoroutineId`, `activityCnt`,
`batchFinishList` those of `Schedule`. `runBatch` is the one local variable that
lives across a context switch, the `batchId` of a `BatchRun` in progress;
`inBatch`, `todo`, `draining` are the loops of `CoroutineResumeInBatch` and
`CoroutineResumeBatchFinish`, which give control away in the middle. `stack` only
says whether memory is allocated. `local` says, per key, whether a value is there
and whether the slot's present coroutine stored it. Clients create coroutines without
a batch: only `BatchAdd` gives `CoroutineCreate` its `relateBatchId`.

*Steps.* One thread runs everything, so a step is all it does between two points
where a client chooses what to call. `SwitchTo` is `swapcontext` together with
the code of the resumed coroutine up to its next choice: for an owner, the lines
of `BatchRun` after the barrier. A failed `assert` is the action `Abort`: the
process is gone and nothing follows (`fault` says which it was). Calls that
return an error and change nothing (`NotRunnable`, a full pool, no idle batch)
are no steps.

*Clients.* Entry functions and the master loop are arbitrary: in each step any
operation may come. `MasterCalls` says which Resume functions the master loop
uses. `Rules` lists what clients refrain from; the source states none of these
rules, each is what one of its assertions demands:

| Rule | Assertion it protects |
|---|---|
| NoNesting: no batch inside a batch | `coroutine.cpp:61`, `:225` |
| NoOpenYield: no yield or return between BatchInit and BatchRun | `:61` |
| OwnBatch: BatchAdd/BatchRun get the caller's open batch | `:380`, `:381`, `:391` |
| CheckRoom: CoroutineCanCreate before BatchAdd | `:383` |
| BeforeFinish: CoroutineResumeInBatch before any child has returned | `:279` |
| FinishList: owners are resumed through the list only | `:294` |
| NonEmpty: a batch has a child | none; see `coroutine_empty_batch` |

One rule is about the master: a loop that empties `batchFinishList` must not also
call `CoroutineResume`, which resumes owners and leaves them on the list
(`Disciplined` in `CoroutineInvariant`).

*Abstracted.* The percentile that `ScheduleTryReleaseMemory` computes is any
member of `PctValues`; its effect (which stacks are freed, in which order, how
many) is modelled. `UINT32_MAX` is the constant `MaxPriority`. The canaries and
the macOS variants are left out.

### 2.2 ThreadPool

A worker is at `check` (`while (running)`), `lock`, `pred` (holding the mutex,
about to evaluate the predicate of `wait`), `block` (it has decided to sleep and
still holds the mutex), `wait`, `exec` or `exited`. The second test of the
predicate in line 33 needs no step of its own: `running` is only ever cleared and
the queue cannot change while the mutex is held, so it cannot come out differently
from what line 29 found. `addTask` is two steps, the push under the lock and
the notification after it; an unneeded `notify_one` does nothing. `SHUTDOWN` is
one step per statement. Spurious wake-ups are allowed at any time. Each task is
added at most once, which only names tasks apart. The pool has one owner, who
calls shutdown any number of times and then the destructor, when no `addTask` is
in progress. Tasks return, do not throw, and do not use the pool themselves.

### 2.3 WaitGroup

`add` is three steps: the atomic addition, the second read of the counter, and
the notification under the mutex when that read gave zero. A spawner counts a
set of items and starts them after `add` has returned; an item that ends calls
`done`. Waiters call `wait` again and again, so the group is reused while others
still sleep. `owed` remembers what was unfinished when a waiter called.

### 2.4 PollServer and HttpExchange

*State.* `connMap` and `channelMap` are the two maps of the code, `pc`, `cur`,
`batch` the place in `pollWait`, `buff` and `chunk` what `onRead` has collected and
read last. The rest is the environment: descriptors (`owner`, the lowest free one is
taken, at most `limit`), epoll (`interest`, and `armed` for the ready list of an
edge-triggered instance), sockets (`inbox`, `ended` after a FIN, `broken` after an
RST, `wire` and `unread` for what was written and what still fills the send buffer) and
the backlog. `broken` distinguishes a pending ECONNRESET from EPIPE, which comes with
SIGPIPE and, since nobody ignores it, ends the process (`pc = "dead"`).

*Steps.* One per system call: clients act between any two. `Accept` is `onAccept` up
to `insert`, `AddChannel` the `epoll_ctl` and the entry of `channelMap`; `Read*` are
the outcomes of one `read` in `onRead`; `Dispatch*` the second half of `onRead` with
what `pollWait` does afterwards; `Write*` the outcomes of one `write` in `onWrite`.
`Refuse` is `badRequest` together with the second close in the loop.

*Data.* A stream is a sequence of units (a header, a piece of one, a body);
`HttpExchange` says where the end of a header is found, and what a request is taken
for when that index is applied to the wrong bytes. An answer is a head and a content.

*The dangling channel.* `PollConn` refers to the `Channel` of the accept loop, which
is gone when it is used. Builds with g++ put the channel of the event being
handled in its stack slot, so the reference denotes the current descriptor. The
model has this outcome only: others are not something a property could be about.

*Facts the model has from the code.* A header in two segments is closed without an
answer, and so is a bad request: the 400 goes into a buffer that is dropped with the
close. A method that `stringToMethod` does not know, and an end of header found in
what a former call left in the uninitialised buffer, end the process. A file is
written in front of its head, and only as much of it as the socket has room for.
`onClose` is skipped by every regular close, so `connMap` keeps entries and
`insert` does not replace them; `BufferIsOwn` shows why no answer reaches the next
connection: what such an entry holds has all been sent.

### 2.5 ReactorServer

Sub reactors fill their slot of `EpollFd`, count themselves and loop; main reactors
wait at the barrier, accept from a listening socket of their own, watch a
connection until its first byte, then remove it from their epoll set (`ClearEvent`),
give it to the next slot (`addToSubReactor`) and free their `Conn` (`DeleteConn`), a
step each, with other threads and the network in between. `conns` are the live
`Conn` objects, by thread and client, `watched` what the epoll instances watch,
`batch` the events a thread has received and not handled. Events are
level-triggered. The slots of `EpollFd` are not initialised; using one that was not
filled makes the assertion in `AddReadEvent` fail (`aborted`).

### 2.6 The library modules

Each is checked by itself inside `Library` and `MCLibrary`; `subject` says which one a behaviour is
about. The properties state a condition under which the code does what it
should, so each documents a limit:

| Module | Property | Condition, and what happens outside it |
|---|---|---|
| `HttpRouter` | `RouteFound` | no route registered behind a wildcard that shadows it: it would overwrite the wildcard's pattern |
| `HttpInterceptors` | `InterceptorsRun` | `**` only at the end of a pattern, where it stands for one component or more (not zero, see `library_double_star`). If the first interceptor of the chain covers the path and calls next, all that cover it are reached; otherwise none after the first is, and the request passes by their guards. Chains are in no particular order, since pointers are sorted |
| `FlagParser` | `ParsedAsGiven` | none |
| `IniConfig` | `LoadIsFresh` | a file is loaded as what it means exactly if no value that counts has an `=`, which `parseLine` drops (`k=a=b` is loaded as `ab`); entries before the first header mean the section left over from another file or object, where the code puts them |
| `Logger` | `NoLineLost` | the pattern names the level; otherwise levels share a file and the second to rotate empties it |
| `HttpClient` | `BodyExact` | no NUL byte; otherwise what follows it in its piece is dropped |
| `Json` | `RoundTrip` | no words and nothing nested in arrays, no quotes in strings, no brackets in strings of nested values; not the last number of an array a second time, by its pointer, before another number: `toString` leaves out the comma behind it and the two are read as one (between other items the comma is not missed) |
| `ProtobufLexer` | `LayoutIgnored` | line ends alone separate no words, no empty `//`, no carriage returns; the last word of a file is lost unless something other than line ends follows it |
| `ProtobufParser` | `ServiceFound` | names of the service and its calls are no keywords, types no labels or punctuation, message names differ (`Plain`), and the last token is there; without it the pass runs past the tokens exactly if a message is last |

`ProtobufParser` has the two nested loops of `parse2ServiceInfo` and `parseMessageInfo` as
rounds on one state: `place` says in which of them the pass is, `i` is the code's index
(from 1), `name` and `fields` are the message so far and `info` is the `ServiceInfo`. A round
takes a token or more, so one round for each token and one for the end are enough. Where the
code would read `tokens[i]` past the end, `place` is `"overrun"`.

`FlagParser` ends a parse at `help` or `h`, and at once when `SetUsage` was not called.

`HttpClient` also shows that a request leaves its port, headers, body and query to
the next one, and that the query is never sent. A request of the caller's
(`HttpClient::doSend(HttpRequest)`) takes the place of the client's own.

## 3. Runs

| Run | Instance | Shows |
|---|---|---|
| `coroutine_plain` | 3 slots, 2 batches, priorities 0 and 1, 1 local key, 2 percentiles, 4 creations | `NoAssertFails`, `ResumeFindsRunnable`, `SearchAgrees`, `NothingLeftBehind`, `ActivityCount`, `LiveHasStack`, `FreedHasNoLocals`; with fairness `EveryCoroutineEnds` |
| `coroutine_event` | 4 slots, 2 batches, 5 creations | `FinishListExact`, `IInv`, `BarrierHolds`, `ImplementsForkJoin`; with fairness `BatchCompletes` |
| `thread_pool` | 3 workers, 2 producers, 2 tasks | `NoThreadOutlivesPool`, `JoinedOnce`, `SleepDecisionIsFresh`, `ImplementsExecutor`; with fairness `AddedIsStarted` |
| `wait_group` | 2 spawners, 2 items, 2 waiters | `CountIsExact`, `NoLostWakeup`, `WaitIsBarrier`; with fairness `WaitReturns` |
| `poll_server` | 2 clients, 1 or 2 descriptors, a buffer of 2 units, sockets with room for 1 | `MapsAgree`, `BufferIsOwn`, `ImplementsService`; with fairness `Served`, `Accepted` |
| `reactor` | 1 main reactor, 1 to 3 sub reactors, 2 CPUs, 2 clients | `SlotFilled`, `WatchedOnce`, `ImplementsService`; with fairness `Served` |
| `library` | the library modules | the properties of the table in 2.6 |

Type correctness, `OneRunner`, `BatchAccounting` and `OwnerParked` are not run by themselves: they are
theorems (section 4), and `coroutine_event` checks `IInv`, of which they are parts or
consequences.

*Bounds.* `MaxCreate` bounds how many coroutines are ever created; it is the only
bound in a guard. In `coroutine_event` four slots hold two batches with a child each at
the same time, or an owner with two children beside a stranger, and five creations make
slots and batches be used again while another batch is open. In `coroutine_plain`
three slots hold an owner and its two children, or an owner and its child beside a
stranger of either priority, the fourth creation uses a slot again, and they are enough
for memory: one live coroutine and two pooled stacks of which one is freed. `ReleaseMax`
is 25 in the code and 1 there, so that the limit is reached. What memory and
`activityCnt` promise whatever the clients do, without any rule, is proved only
(section 4). Two tasks and two producers make the pool's notifications overlap; a
third worker lets one sleep, one run and one be about to sleep. Two items and two
spawners give the wait group two rounds, or two `done` that overlap with an `add`.
`CHECK_DEADLOCK FALSE` is set where the program ends: after `ScheduleClean` or a
failed assertion, and after the pool's destructor. The wait group may always wait
once more and is checked for deadlock.

In `poll_server` one client sends any stream the handler treats differently and the
other a short one: with one descriptor the second connection reuses the first one's
entries, with two both are in the same batch of events. Two units of buffer make a header
fill it exactly, and room for one unit makes every answer a partial write. In `reactor`
three sub reactors on two CPUs leave one slot unused, one sub reactor leaves a slot out
of the array, two use the barrier as meant; two clients are handed to different slots.
In `library`, three routes of at most two components (`MaxParts`) hold a wildcard and two
others on both sides of it, and paths of up to three are looked for; three interceptors
one that does not match between two that do; texts of up to five parts two words with any
three blanks, line ends and comments around them; `MaxDay` 2 has one rotation, `MaxLines` 3 a line before and two after it; `MaxSends` 2 a request that
follows another.

*Fairness.* The loop thread and the reactors are scheduled (weak fairness of their
steps), and a client reads what it is sent, without which a full socket holds an answer
back for ever. Clients need not connect, send, finish or reset. A thread that can run is scheduled (weak fairness of its steps), and a
thread that asks for a mutex gets it if it is free again and again (strong
fairness of taking the lock). A coroutine that gets control again and again
returns in the end, which is the client's duty (strong fairness of `Finish`). The
event loop calls `CoroutineResumeBatchFinish` in every round and the event a
suspended coroutine waits for arrives (strong fairness, since the loop serves
others in between). Nothing forces clients to create, add, yield or shut down,
and spurious wake-ups need never come.

### What the runs found

* `coroutine_local` - `CoroutineInit` does not clear the map of local variables,
  so a coroutine reads what the slot's previous coroutine stored, and that value
  hides the one shared by its batch owner.
* `coroutine_empty_batch` - an owner that runs a batch without children is never
  put on `batchFinishList`: under the event loop it waits for ever. Under the plain
  loop it is resumed at once.
* `thread_pool_shutdown` - `SHUTDOWN` clears `running` and notifies without the
  mutex; a worker that has seen `running` and the empty queue goes to sleep
  afterwards and is never joined.
* `thread_pool_drain` - the comment in line 32 promises that queued tasks are run
  before the pool stops; the loop condition drops them.
* `library_double_star` - the comment in `httpserver.cpp:157` promises that `**` in an
  interceptor's path matches zero or more components; the loop of `pathMatch` ends with
  the path, so a guard for `a/**` does not run for `a`, and the request is dispatched
  without it.

A further limit, kept out of the runs by the choice of priorities: the search in
`CoroutineResume` starts from `UINT32_MAX` and compares strictly, so an owner at a
barrier that has this priority is never chosen, and `ResumeFindsRunnable` fails
as soon as `Priorities` contains `MaxPriority`.

## 4. Proofs

All theorems hold for every value of the constants that satisfies the module's
named assumption (`ScheduleAssumption`, `PoolAssumption`, `GroupAssumption`,
`PollAssumption`, `ReactorAssumption`). Those of `LibraryProofs` name theirs as
hypotheses; they only give the constants their types, except where said below. The
bounds of the runs (`MaxLines`, `MaxSends`, `MaxRoutes` and the like) stay in the guards
but are arbitrary in the proofs.

*Scheduler.* `TypeCorrect`, `ControlTheorem` (`OneRunner`) and `CountIsExact`
(`ActivityCount`) hold for any use. Most of the others assume `Disciplined`. The
properties are not inductive alone: that no assertion fails in `CoroutineResume`
depends on who owns a batch, which depends on the bookkeeping of children, which
depends on slots being returned clean. `IInv` collects these as named parts:
control (`ControlInv`), clean slots (`SlotInv`), an owner fills its batch or waits
in its `BatchRun` (`OwnerInv`), a batch in use has its owner (`BatchInv`), the
map of a batch describes exactly its children (`ChildInv`), announced owners are at
a barrier of a batch that is done (`ListInv`), and the loop of
`CoroutineResumeInBatch` sees only unfinished children (`CallInv`). One lemma per
action shows that it keeps each part. The central argument is in `Resume`: an
owner is chosen only when no coroutine outside a barrier can run; a child that has
not returned is such a coroutine, because children open no batches; so the
batch is done. `NoAssertionFails`, `AccountsAreExact`, `OwnersAreParked`,
`BarrierTheorem` and `CleanTheorem` follow. `ListTheorem` adds the converse of `ListInv`
(`Complete`: the owner of a batch that is done is on the list), which holds in an
event loop whose batches have children: `coroutine_empty_batch` shows why they must.
`StackTheorem` and `FreedTheorem` (memory) hold for any use, and so does
`ResumeTheorem` (`ResumeFindsRunnable`) when no priority is `MaxPriority`; it rests on
the least elements of sets of natural numbers (`LeastNatural`). `SearchTheorem`
(`SearchAgrees`) closes the gap between `IsChosen`, which says in one step which
coroutine `Resume` takes, and the loop that computes it: what the loop has found after
`i` slots is the chosen one of those `i` slots.

*Fork and join.* `Refinement` of `CoroutineProofs`: each step of the scheduler is a step of
`ForkJoin` or changes nothing it can see. A batch is seen as its owner: `ForkedBy` is
the owner of the batch a coroutine was added to, and the coroutines that join are those
in their `BatchRun`. `Join` and the resumption of an owner are where the
invariant is needed. An owner that runs again has no live child, because its
batch is done (`ListInv`, or the argument about `Resume` above) and the map of a batch that
is done describes no live coroutine (`DoneIsChildless`, from `ChildInv`); a coroutine that
pauses or ends owns no open batch (`OwnerInv`, `NoOwnerIsChildless`); a child runs only
while its owner waits, because nothing else runs between `BatchInit` and `BatchRun`. So the
reuse of slots and batches, the list of finished owners and the two ways to resume
them never let an owner and its children alternate. The theorem assumes `Disciplined`.

*Loops.* Seven theorems are about loops over data (`SearchTheorem`, `FlagsTheorem`,
`GuardsTheorem`, `RouteTheorem`, `LoadTheorem`, `LayoutTheorem`, `ServiceTheorem`). A recursive function is a `CHOOSE`, so
the first thing to show is that it exists. `LoopRuns` in `DataLemmas` does that for
every loop of `n` rounds on a typed state, and `LoopKeeps` is the induction over its
rounds; both come from the least number for which the claim would fail. This is why the
modules concerned write their loops as recursive functions over the rounds.

*Library.* The theorems are about `Spec` of `Library`; `SideBySide` says that a step of it
is a step of each module or leaves it alone.

*Pool.* `IInv` of `ThreadPool` ties the wait set and the held tasks to the
workers' places (`WorkerInv`), says that no task is in two places (`PlaceInv`), that
the owner clears the flag once and joins in order (`OwnerInv`), and that a worker
about to sleep has seen the queue as it is (`SleepDecisionIsFresh`).
`SleepTheorem`, `DestructorTheorem` and `JoinTheorem` follow, and `Refinement`:
each step of the pool is a step of `TaskExecutor` or changes nothing it can see.

*Wait group.* `IInv` of `WaitGroup` adds to the counter's equation where each
thread is (`PlaceInv`) and that batches being counted are disjoint (`BatchInv`).
`WakeupTheorem` rests on the mutex in add's zero branch: when it is free no
waiter is between its test and its sleep. `CounterTheorem` and `BarrierTheorem` follow
from the cardinality of the unfinished items.

*Event loop.* `IInv` of `PollServer` holds for any clients, streams, buffer sizes and
descriptor limits. `MapsAgree` speaks of `batch`, `channelMap`, `owner` and `connMap`;
that handling one event never makes another event of the same batch wrong needs
`LoopInv`: the events of a batch are about different descriptors, and the one being
handled has no event left. `BufferIsOwn` needs `ConnInv`: an entry whose descriptor
does not wait for room to write has sent all it holds. So an entry left behind by a
close that skips `onClose` is harmless to the connection that `insert` gives it to,
and an answer is only put behind what has been sent, because `onRead` runs on a
descriptor that waits for `EPOLLIN`. `WatchInv` (watched descriptors are those with a
`Channel`) joins the two. One lemma per action; the three kinds of close share
`CloseKeeps`. `MapsTheorem` and `BufferTheorem` follow. `BufferSize` and `Streams`
need no assumption: the argument does not look at what is read.

*The promise to a client, epoll server.* `PollServiceProofs` shows that each step is a
step of `AnswerService` or changes nothing a client can see. Besides `IInv` it needs
`SInv`: a client waits once in the backlog or has one descriptor, and a hang-up is only
reported of a client that has left (`OwnerInv`); what was written to a client and what
is left in its buffer make up an answer together, or there is neither (`AnswerInv`). The
latter has one equation per direction: an answer is put behind a buffer that has all
been sent (`UnsentOfBuffered`), and a write moves units from the second part to the
first (`WriteMoves`), so that a close after the last unit comes with the whole answer
and a close by `badRequest` with nothing.

*Reactors.* `ReactorAssumption` says that there is a CPU, that sets of threads do not
overlap, and that the numbers of sub reactors are bounded. `IInv` of `ReactorServer` has
`StartInv`: `EpollInitCnt` is the number of sub reactors past their notification, and
each of those has filled its slot; with no more sub reactors than CPUs a main reactor past
the barrier therefore finds every slot filled (`SlotTheorem`, by the cardinality of an
interval). The rest holds unless the process has aborted: a client is watched at most
once and each event of a batch is still watched by the thread that received it
(`WatchInv`), a thread that reads, writes or releases has such a watch (`ServeInv`), a
main reactor that hands over is the only one with that client (`AddInv`), a `Conn`
belongs to a watch or to a hand-over (`ConnInv`), and what is on the wire is the first
`send_len` units of the message (`WireInv`). It is what makes it harmless that one
thread frees a `Conn` while another one already serves the connection:
each thread has its own. `WatchTheorem` and `Refinement` follow.

*Client.* `BodyTheorem`: `ClientInv` says that the body is what has arrived of the answer
as long as that holds no NUL, and that what has arrived and `remaining` add up to the
announced length while the body is read. The announced length need not be the true one.

*Logger.* `LinesTheorem`: `LogInv` says that a level writes to files of its own name or
of no level, that a stream that does not append is at the end of its file, and that the
name a rotation would open has taken no line yet, because no line has a later day than
today. So the truncating open of a rotation never meets a file with lines. The levels are
positive numbers (`NoName` has level 0).

*Flags.* `FlagsTheorem`: while argv is read, `starts` are the words read as options so
far: exactly those that are not the argument of the option before them. Each option has
the value of its last start, or none and is still unset if it is required (`ReadTo`, in
`FlagInv`). The words may be of any type: only the fields that `ParseOpt` looks at matter.

*Interceptors.* `GuardsTheorem`: after `i` rounds, `RanUpTo` says which interceptors ran,
in what order, and that the loop has stopped exactly if one that aborts is among the
first `i` (`ChainGoesOn`); when the first interceptor does not cover the path or does not
call next, the loop has stopped after its first round (`ChainStops`). `MatchCovers` shows that `pathMatch` computes `Covers` when `**` can only be
last.

*Router.* `RouteTheorem` has two hypotheses: `MaxParts` is a number, and no component is
the empty text (`PartsNamed`; `parsePattern` drops empty ones; the root's part is empty and
must not be taken for a wildcard). `RouterInv` says that while no route was registered
behind a wildcard that shadows it, the nodes are the trie of the routes: there is a
`label` that names every node after the components that lead to it, each beginning of a
route has exactly one node, and a node holds a pattern exactly if its label is registered
(`Trie`). `NoWildcardAhead` is where shadowing comes in: the walk of `insert` meets no
wildcard but the component's own, so `PartInserted` finds or makes the node of
that very beginning. For `search`, `RowsAnswer` goes up from the height of the whole path:
what is found below a node is a registered route that matches, and nothing is found
only if no route that begins like the node matches (`AnswersFor`), with the
backtracking in the second half. Components, their number and the number of routes are
arbitrary.

*INI configuration.* `LoadTheorem` assumes `IniFilesTyped`: the contents written from
outside are sequences of typed lines, and `Order`, which stands for the order of the
`SortMap`, lists every name that occurs in them once, the empty one included. `IniInv`
says that files and configurations stay within these names. The first half of
`LoadsFresh` is an equivalence. A file reads as what is kept of its lines (`KeptRead`),
lines without `=` in their values. For such lines `MeansTo` says of each line of the
file what has been loaded up to it: the section in force is that of the last header, or
the one left over, and what is loaded is what the lines so far mean (`FileMeans`). And
what is kept of a file's lines means the same as they do if and only if nothing is
dropped of the values that count (`KeptMeans`): every key of a section has a last entry
with a value (`LastEntry`), and two configurations that mean the same lines agree on it.
For the second half, reading a file that goes on is reading on (`ReadAppend`): while the
loop of `Saved` goes over the sections, what it has written loads as the non-empty ones
among them (`SavedOf`), and while the inner loop goes over the keys, as those keys of
the section on top of what was loaded before it.

*Lexer.* `LayoutTheorem` has no hypothesis but that the text is a sequence of parts; which
parts and neighbours are meant is stated in the property. `Rounds` says what one round of
`parseLine` does in each state. From it there is one lemma per kind of part (`NewLineRead`,
`BlankRead`, `LineCommentRead`, `StarCommentRead`, `WordRead`), each an induction over its
characters: `Read` says that after a part the words so far are the tokens, and the last of
them may still be in `value`. `Pending` says which one that is, the word behind
which only line ends stand. `PartsRead` joins these over the parts; it is where `Clean` is
needed, and the last word is lost because nothing empties `value` at the end.

*Services.* `ServiceTheorem` assumes that the input is the description of a service
(`Services`); `TokenTexts` is the strings with the literals of the grammar, because no prover
shows that a literal is a string. The state after a fixed number of rounds says
little, since rounds take different numbers of tokens, so the lemmas speak of a state that is
*reached*: it occurs before more rounds have passed than its index (`Reaches`). A round that
takes a token goes from a reached state to a reached one (`NextReached`), and the index in the
last state tells how the pass ends (`FileEnds`, `MessageEnds`). `Joins` is a text made of
parts; `PartsIn` says at which place each of them stands, since the pass knows
nothing but places. What a part does is one lemma: `RpcRead` for a call, `FieldRead` for a
field, `BodyRead` for a message, `HeadRead` for what is before the calls; `FieldsRead`,
`RpcsRead` and `MessagesRead` are the inductions over fields, calls and messages. The hard
part is the look-ahead: `Mode` reads the twelfth token after `rpc`, which belongs to the
next call or message if this one has no option. `ModesFound` shows that whatever
stands there, be it a call named like the option, no mode is taken from it. For the text
without its last token, what stands in the text stands in its beginning (`LocatedCut`), so
everything up to the last message is read the same way.

*Only model-checked.* The liveness properties (`EveryCoroutineEnds`, `BatchCompletes`,
`AddedIsStarted`, `WaitReturns`, `Served`, `Accepted`), since fairness and `ENABLED` are
outside the prover's reach. `RoundTrip`:
`Json` is RECURSIVE operators over values nested to any depth, and an induction over such
data cannot be expressed.

## 5. Plan

The macOS event loop, if a build for it is to be trusted.

## 6. Not modelled

* The kqueue loop: not compiled on Linux.
* Wrappers of system calls (sockets, datagrams, files, readers, writers), of time,
  strings, processes and network interfaces, and language helpers (arguments, defer,
  singleton, debug): no state of their own. What the servers use of sockets is part
  of their environment.
* Inside modelled parts: failures of `epoll_wait` and `epoll_ctl`, which the code logs
  and ignores; log files that cannot be opened; parameters that a route takes out of a
  path; conversions of `JsonValue`; an INI entry whose key begins with `[` and whose
  value ends in `]`, which is written back as a header; carriage returns in protobuf files; generated code and usage texts; `setTimeout` of
  the client, which acts on the descriptor of the request before; `stop` of the
  reactor server, which reaches no reactor; `HttpServer::stop` (`httpserver.cpp:54`), which
  clears a flag that `listen` reads after the next event; a log file that takes the
  descriptor between the two closes of a refused connection, which `Refuse` takes for one
  step; a `relateBatchId` given to `CoroutineCreate` by a client.
