# conet in TLA+

conet is a coroutine and network framework in C++ for Linux: coroutines that
are switched in user space, hooks that turn blocking socket calls into polls, a
timer wheel, and servers and RPC on top. This directory holds TLA+ models of it,
TLC configurations that check them, and TLAPS proofs. Paths below are relative
to `src/`. `PROJECT.json` maps each definition to the lines it models.

## The system and its parts

One thread runs one *coroutine environment*. Its main coroutine calls
`dispatch()` in a loop; everything else happens in coroutines that this loop
resumes, directly or through a chain of resumes.

| part | source | state | operations | interacts with |
|---|---|---|---|---|
| coroutine scheduler | `core/src/coroutine.cpp`, `coroutine_env.cpp` | `curr_co`, `run_queue`, per coroutine: state, exit queue, `is_end_delete` | alloc, resume, yield, wait, timed wait, end, free | dispatch (delayed tasks), timer wheel |
| dispatch loop | `core/src/dispatch.cpp` | permanent tasks, `delay_tasks` | `delay`, `dispatch` | runs the event loop, then the delayed tasks |
| timer wheel | `core/src/timewheel.cpp` | slots, `now_list`, `task_num`, `pos`, `prev_ms` | set, set periodic, cancel, `check`, `do_now_task` | a coroutine of its own, woken by a timerfd; callbacks resume coroutines |
| coroutine poll and event loop | `core/src/network.cpp` | wait items with `wait_events` and `poll_ctx`, epoll | `co_poll`, timeout, close, `proc_netevent` | kernel, timer wheel, scheduler |
| socket hooks | `core/src/network_hook.cpp`, `fd_ctx.cpp` | descriptor contexts | read, write, recv, send, accept, connect, poll, select, close, ... | coroutine poll |
| wait queue | `core/src/wait_queue.cpp` | the queue of waiting coroutines, `wait_num`, the timer of a `CondWaitQueue` | wait, timed wait, wake all, wake n from either end, destroy | timer wheel, scheduler |
| event notify, wait by id | `core/event_notify.h`, `wait_id_event.h` | an eventfd, a map of waiting coroutines | wait, notify | hooks, pthread hooks |
| pthread hooks | `core/src/pthread_hook.cpp` | mutexes and condition variables | lock, unlock, wait, signal | event loops of several threads |
| pool, parallel calls | `core/co_pool.h`, `parallel.h` | coroutines of a block | start, wait for all | scheduler |
| time manager | `core/src/time_mgr.cpp` | the published time, notification queue | thread loop, readers | several threads |
| disk I/O hooks | `core/src/disk_io_hook.cpp` | the aio context of a thread, its eventfd | read, write, sync; `proc_disk_event` | kernel aio, scheduler |
| queues and pools | `base/fd_queue.h`, `fifo_lockfree.h`, `llist.h`, `fixed_mempool.h` | lock-free queues, free lists | push, pop | several threads |
| servers | `svrkit/src/tcp_server.cpp`, `udp_server.cpp`, `http_server.cpp` | `cur_conn_num`, pools of coroutines and connections, `to_stop`, `state` | start, accept, serve, stop | hooks, object pools |
| channel | `svrkit/src/channel.cpp` | `tx_queue`, `pending_tx_num`, stop flags | `send_msg`, reader, writer, start, stop | wait queues, hooks, RPC server |
| RPC server | `svrkit/src/rpc_pb_server.cpp` | list of channels, pool of workers | read command, call, answer, stop | channel, TCP server |
| RPC clients | `svrkit/src/rpc_pb_client*.cpp`, `load_balance.h` | queue and map of outstanding calls | call, response, timeout, reconnect, stop | conditional wait queue, timers |

What makes it hard: user code runs inside the loops of the framework (a timer
callback or an event resumes a coroutine, which may resume, cancel, close or end
anything before the loop goes on with the iterator it had cached); work is put
off to delayed tasks while the memory it refers to may be freed and reused;
epoll is edge-triggered and registrations outlive the polls that made them; the
clock may be set back and the loop may pause for longer than the wheel turns;
queue items and request contexts lie on the stacks of the coroutines that wait,
and the coroutines of a connection wake and end one another.
`PROJECT.json` lists these hazards at the lines where they bite.

## Modules

**List** is the intrusive list of `base/list.h` as sequences: `Elems`, `NoDup`,
`Unlink` (`list_del_init`), `Succ` (the `next` that `list_for_each_entry_safe`
caches) and `End`, the list head.

**Coroutine** has the scheduler and the dispatch loop of one thread. `curr_co`,
`run_queue`, `state`, `exit_queue`, `delay_tasks` and `delay_del_list` are the
fields of the same names. `pc` says in which call a coroutine is parked. A freed
address can be allocated again; `gen` counts that, and the value a coroutine
returns is its incarnation, so that a wait that gets the wrong one is noticed.
`Alloc`, `Resume`, `Yield`, `Poll`, `DelayBack`, `Wait`, `WaitEnded`, `Exit`,
`Free` are calls of the current coroutine; `TimerFires` is
`wait_timeout_handle` called in the wheel's coroutine `Tw`; `BeginDispatch` to
`EndDispatch` are the steps of `dispatch()`. The loops that call into user code
(`proc_netevent`, `proc_tasks`, `proc_exit_notify`) take one step per call, with
their local lists and cached iterators as variables; straight-line code between
two switches is one step, since nothing else runs in the thread.
*Contract:* `resume()` is called on a coroutine that has not started or is parked
by a plain `yield()`. The code does not test it; its callers in the repository
keep it.

**TimeWheel** has the wheel: slots as sequences, `now_list`, `task_num`, `pos`,
`prev_ms`, and the walks of `check` and `do_now_task` with `cur_ms`, the current
handle and the cached next one. The callback of a handle lies between
`CheckExpire` and the next `CheckStep`; meanwhile any handle may be set or
cancelled. The system clock advances, jumps ahead and is set back.
*Contracts:* a handle is initialised once and not set while it is linked; it
lives until its callback has returned; callbacks do not block; the clock is not
set back in the middle of a walk; a callback of `do_now_task` does not make its
own handle periodic; and, unless `NextMayGo`, a callback does not cancel the
handle that the walk has cached as `next` (see *Finding*).

**Timers** is what the wheel promises: a set of deadlines. A timer may be set or
cancelled, and it is called once, not before its deadline. `TimeWheel` implements
it under the mapping `Deadlines` (the slots, positions, counters and walks are
not visible in it).

**CoPoll** has `co_poll` and `proc_netevent`: wait items (`wait_events`,
`poll_ctx`), the pollers (`asked`, `revents`, `num_raise`), the batch `evs` and
the list `dispatch`. A hook that gets `EAGAIN` (`Try`) polls in a second step
(`HookPoll`), and the kernel may raise events in between. The kernel (`level`,
`interest`, `mask`, `rdl`) is external: a descriptor gets on the ready list when
an event it is registered for is raised, or when `ADD` or `MOD` finds one on;
`epoll_wait` takes it off; hang-ups are reported unasked. `POLLERR` and
`POLLHUP` are one event.
*Contracts:* a descriptor is polled by one coroutine at a time (the code aborts
otherwise), is not closed while polled, and a poll asks for at least one event.

The five modules below share a device: `stack` is the chain of resumed
coroutines, whose last one runs; the dispatch loop runs when it is empty. A
coroutine that wakes another one is continued when that one blocks. Code between
two switches is one step.

**WaitQueue** has one `WaitQueue` and the `CondWaitQueue` around it. `walk` holds
the loop of each wake-up: the cached next item, how many are left, the direction.
`Resumed` is the part of `wait_on` after its `yield`. `owed` and `again` record,
for the properties, who waited when the walk began and who has waited since.
*Contracts:* nobody wakes the queue inside a walk of it that still has items
ahead, and nobody waits on it while it is destroyed. The callers keep both.
`CondWaitQueue` has no destructor, so one may be destroyed while `tm` is on the
wheel; the model lets it, and leaves out the expiry of `tm` afterwards, which
would use freed memory.

**Channel** has a duplex connection of the RPC server: the reader `R`, the writer
`W`, the connection coroutine `O` that owns the `channel_t`, the workers, the peer
that hangs up and the server that stops. `tx_queue`, `pending` and the three
stop flags are the fields; `out` and `sending` are the local queue of
`do_write_co`. The `send` hook is modelled as written: after it has polled, the
inner `int ret` hides the outer one, so a second `send` that succeeds is
reported as -1, and a hang-up as 0, which `send_data` turns into success
(`SendPolled`).
*Left out:* what a worker does whose channel has gone (`rpc_pb_server.cpp:551`).

**RpcDuplex** has `RpcPbClientDuplex` with one host: the callers, `mgr_proc`,
`send_proc`, `read_proc` and `stop`. `m_req_queue` holds the contexts linked,
`m_in_queue` the keys of the map; `armed` is the 0 ms timer that puts off a
wake-up while fewer than `Batch` requests are queued. `WriteAll` takes any part
of a batch and any result that `write_all` can return. `sent` is what the peer has
and may answer, in any order or never; `written` and `answered` are history.

**TcpServer** has `main_proc` and `main_proc_with_fd_queue`, `conn_proc_co`, both
object pools, `stop` and `clean_up`. `fd_queue` chooses the accept loop.

**DiskIo** has the ten hooks, `get_disk_ctx`, `proc_disk_event` with the `read` hook
it calls (`ReadHook`), and the kernel below them: requests `inflight`, completions on
the `ring`, their signals on the eventfd, which come after the completion and may come
late. `ready` wraps as `uint64_t` does (`Wrap`). `resumed` is the chain of resumed
coroutines, so that a hook that has resumed `proc_disk_event` goes on only when that
coroutine yields.

**Composition.** The modules meet at narrow points. `Channel` and `RpcDuplex` use
the wait queues through what `WaitQueue` shows: each of their queues has one
sleeper, so a wake-up resumes it once and returns. `Channel` runs as the
`conn_proc` of `TcpServer`, which lets a connection block and end as it likes.
`Coroutine` has the wheel's coroutine and treats a poll as a call that the event
loop may end (`ready`); `CoPoll` has that side in detail, where `Timeout` is enabled
where `Coroutine` and `TimeWheel` let timer callbacks run. `TimeWheel` abstracts callbacks to the calls on the wheel.

The modules **MC...** add the symmetry sets, masks and values of the instances.
**ListProofs**, **CoroutineProofs**, **WaitQueueProofs**, **TimeWheelProofs**,
**ChannelProofs**, **RpcDuplexProofs**, **CoPollProofs** and **ServerProofs** (for
`TcpServer` and `DiskIo`) hold the theorems. Definitions marked *Mutant* are wrong
variants of the code, used to see that a property notices them; no
specification contains them.

## What TLC checks

| run | instance | checks |
|---|---|---|
| `scheduler` | 3 coroutines, each allocated once; 41 530 states | `TypeOK`, `StackOK`, `NoLostWaiter`, `NoUseAfterFree`, `CachedNextValid`, `EndedQueued` |
| `scheduler_reuse` | 2 addresses, each allocated twice; 62 076 states | `WaitReturns`, `WaiterWoken`, `EndedFreed` |
| `wheel` | 4 slots, 2 handles, 6 ms, jumps up to a turn, steps back of 1 ms; 441 192 states | `TypeOK`, `CountOK`, `WalkOnList`, `NothingOverdue`, `ImplementsTimers` |
| `wheel_live` | 2 slots, 2 handles, 4 ms; 82 507 states | `Expires` |
| `poll` | 2 coroutines, 2 descriptors, batches of 2 | `TypeOK`, `RegistrationKnown`, `ContextsLive`, `DispatchLive`, `RaisedCounted`, `NoLostEvent` |
| `poll_live` | 1 coroutine, 2 descriptors, batches of 1; 384 101 states | `HookWoken` |
| `wait_queue` | 3 coroutines, `wakeup_*_n` of 0 and 2; 7 610 states | `ItemsOfSleepers`, `WalkOnQueue`, `AllWoken`, `WalkReturns` |
| `channel` | 3 commands, `max_pending` 2; 23 467 states | `PrefixDelivered`, `PendingExact`, `NobodyStuck`, `Closes` |
| `rpc_duplex` | 2 callers, 3 calls, batches of 2; 103 996 states | `ContextsLive`, `WrittenOnce`, `Drained`, `StopReturns` |
| `tcp_server` | 4 workers, `max_conn_num` 1, `accept_num` 2, 2 rounds of `clean_up`; 202 676 states | `OneOwner`, `ConnBound`, `Stops` |
| `wheel_cancel_next` | as `wheel`, with `NextMayGo` | `WalkOnList`, violated |
| `disk_io` | 2 coroutines, 2 requests in the kernel, an array of 2; 9 states | `ReadBlocks`, violated |

*Scheduler.* The stack of resumers is exactly the running coroutines, down to the
main one (`StackOK`). A waiter is on the exit queue of a live coroutine or on a
list whose notification is pending (`NoLostWaiter`). No queue, timer, task or
iterator refers to freed memory (`NoUseAfterFree`). The iterator that
`proc_exit_notify` caches stays the first of its list although each waiter runs
arbitrary code (`CachedNextValid`). The one shared deletion task is never lost
(`EndedQueued`). A wait returns the value of the incarnation it was called for,
and -1 only when it was timed (`WaitReturns`).

*Wheel.* `task_num` counts the linked handles (`CountOK`). After a walk nothing
is overdue, also after pauses longer than a turn and a clock set back
(`NothingOverdue`). A walk stays on its list (`WalkOnList`).

*Poll.* `wait_events` equals the registration in the kernel (`RegistrationKnown`).
No wait item refers to a poll that has returned (`ContextsLive`). Whoever is on
the dispatch list is inside its poll, with its timer off (`DispatchLive`). The
count and the events a poll returns agree (`RaisedCounted`). An event a hook
waits for is on its way to it (`NoLostEvent`). The last is stated for hooks that
try before they poll; for `accept`, `readv`, `recvfrom` and a plain `poll()`,
which poll first, it does not hold, since the edge may have been consumed.

*Wait queue.* The queue holds exactly the coroutines that sleep in `wait_on`, with
`wait_num` its length and no timer of anybody else (`ItemsOfSleepers`). The item a
walk has read ahead is still on the queue when the walk comes to it
(`WalkOnQueue`), and `wakeup_all` leaves out nobody who waited when it began
(`AllWoken`). It returns unless two coroutines wait again meanwhile
(`WalkReturns`): items are appended to the list being walked, and with two
coroutines that go back to waiting at once the loop really never meets the head.

*Channel.* The peer gets a prefix of the responses in the order of `send_msg`
(`PrefixDelivered`). `pending_tx_num` is exact until a send fails
(`PendingExact`); after that it stays too high, which does no harm, since the
writer ends and wakes the owner. Nobody sleeps with work to do and nobody left to
wake it (`NobodyStuck`), and once anything stops, the channel closes (`Closes`),
though `do_stop` wakes nobody: the reader's poll ends after a second, or the
writer's send does.

*Duplex client.* Queue and map refer to calls that have not returned
(`ContextsLive`). A request is written at most once over all connections, and a
call returns 0 only if its request was written (`WrittenOnce`). A queued request is
taken by `send_proc` without the help of its timer (`Drained`), although the reader
ends without waking the sender: the next wake-up finds `m_read_stop` set. `stop`
returns (`StopReturns`).

*TCP server.* Each `conn_info_t` has one owner and `cur_conn_num` is exact
(`OneOwner`). `max_conn_num` is exceeded, by less than one batch, or two after a
stop (`ConnBound`). A stop leads to `SERVER_STOPED` whatever the connections do,
unless the set-up of the socket failed, which leaves the state as it was
(`Stops`).

*Disk.* The coroutine that reads the eventfd should sleep while there is nothing to
read (`ReadBlocks`). It does not; see the findings.

**Bounds.** Three coroutines give a waiter, the coroutine waited for and a third
that ends or is resumed in between; chains of resumes are as deep as they can be.
Two incarnations are enough for a wait that outlives the memory it was called on.
Four slots with delays 0, 1 and 4 have the same slot, the next one and a full
turn; a jump of 4 ms is a pause of a whole turn. Two handles are one for the walk
and one for the callback to interfere with. Two descriptors give polls of several
descriptors and descriptors that compete for a batch. Three
sleepers give one that is woken, one read ahead and one that waits again; counts of
0 and 2 lie on both sides of the test after the first item. Three responses with
room for two fill the queue and leave one whose worker blocks. Three calls of
two callers give a batch, a call after a timeout and a late response. Four workers
are more than `max_conn_num` and a batch of `accept_num` allow, with one over for the
batch after a stop. In `DiskIo` two coroutines are one that calls a hook and one that
could run meanwhile; the nine states are all that these two can reach, whatever the limits.
`MaxGen`, `MaxMs`, `MaxJump`, `MaxBack`, `MaxCmd` and `MaxSeq` are the
bounds, all in guards. Deadlocks are looked for in `Coroutine`, `CoPoll` and `DiskIo`, which never
come to an end. The others do: a wheel at `MaxMs`, a queue that is destroyed, a channel
that is closed, a client or a server that is stopped. What
must not stop in them is said by their liveness properties.

**Fairness.** `Coroutine`: the main coroutine calls `dispatch()` again and again
and goes through it, and each coroutine that runs again and again gives control
up again and again. The first is the loop of every server of the repository; the
second is what cooperative scheduling asks of user code. `epoll_wait` returns
since the wheel's timerfd has an event every millisecond: that is assumed, not shown
(`network.cpp:443`). `TimeWheel`: the clock
advances and the loop calls `check` and `do_now_task`. Strong fairness is used
where a callback may disable the step for a while. `CoPoll`: the loop comes back
to `epoll_wait` (strongly fair, as user code runs in between), and a hook that
has seen `EAGAIN` goes on. The other modules: the coroutine that
runs goes on until it blocks, and the dispatch loop comes back to every poll,
sleep, 0 ms timer and notification of an end, also if it has others to run in between
(hence strong fairness); polls have timeouts, of one second in the servers. In
`RpcDuplex` connecting succeeds now and then; in `DiskIo` the kernel completes and
signals every request, and a coroutine that is not in a hook yields some time. No fairness is assumed of user calls, of timers being
cancelled or of the timers of calls, of responses, of commands and connections that
block, of stops, or of the kernel raising events.

## What is proved

*Scheduler.* For any sets of coroutines and any `MaxGen`, from `CoAssumption` and
`EndAssumption` (the main coroutine, the wheel's, user coroutines and the list
head are different things):

| theorem | statement |
|---|---|
| `TypeCorrect` | `Spec => []TypeOK` |
| `StackCorrect` | `Spec => []StackOK` |
| `WaitersKept` | `Spec => []NoLostWaiter` |
| `IteratorCorrect` | `Spec => []CachedNextValid` |
| `DeletionQueued` | `Spec => []EndedQueued` |
| `MemorySafe` | `Spec => []NoUseAfterFree` |
| `WaitCorrect` | `Spec => WaitReturns` |

The properties are not inductive. That a jump lands on a live coroutine depends
on what is in the queues, and the queues depend on why a coroutine is parked. The
invariant `IInv` adds: a coroutine is suspended exactly
when it is parked in a call (`ParkOK`); it has a target exactly when that call is
a wait, and a timer only when it is a timed one (`WaitOK`); members of an exit
queue wait for the current incarnation of its owner (`ExitOK`), members of a
notification list for that ended incarnation, and nothing is pending for one
that has not ended (`NotifyOK`); a delayed task is linked once (`TaskOK`); the
deletion list has ended coroutines (`DelOK`); the pollers to be resumed are
parked in a poll (`ReadyOK`).

ListProofs has the facts on sequences. CoroutineProofs shows that each action
keeps the types, then what resuming and yielding do to the stack and the queues,
and the actions made of them; then come the other actions, one lemma each, the
induction (`Inductive`, `InitIInv`, `InvariantIInv`) and the theorems. `MemorySafe` follows from `IInv`: everything
that is referred to is running, parked or ended, and none of these is free.
`WaitCorrect` looks at each action that can end a wait.

*Wait queues and timers.* For any sets of coroutines and handles, any number of
slots, delays, intervals and bounds, from `WaitAssumption` and `WheelAssumption`
(the list head is no item and no handle, the wheel's coroutine is none of the others,
the wheel has a slot, intervals are positive). Those about the wheel assume `~NextMayGo`, that is, callbacks that
do not cancel the handle the walk has cached: the run `wheel_cancel_next` shows
that they do not hold without it (see Finding).

| module | theorem | statement |
|---|---|---|
| WaitQueueProofs | `SleepersLinked` | `Spec => []ItemsOfSleepers` |
| | `WalksOnQueue` | `Spec => []WalkOnQueue` |
| | `NobodyLeftOut` | `Spec => AllWoken` |
| TimeWheelProofs | `TypeCorrect` | `~NextMayGo => (Spec => []TypeOK)` |
| | `Counts` | `~NextMayGo => (Spec => []CountOK)` |
| | `WalksOnList` | `~NextMayGo => (Spec => []WalkOnList)` |
| | `NoneOverdue` | `~NextMayGo => (Spec => NothingOverdue)` |
| | `WheelImplementsTimers` | `~NextMayGo => (Spec => ImplementsTimers)` |

`WaitQueue`: what is resumed must sleep, so `ChainOK` says who is on the chain of
resumed coroutines. The item that a walk has cached stays on the queue because nobody
else takes items off meanwhile: of the walks under way at most one has anything ahead
of it (`OneAhead`), and timers expire when there is none. An unlimited walk is always
at the head, with those it owes a wake-up still linked (`Owing`); when it comes to
the end it owes none, which is `NobodyLeftOut`.

`TimeWheel`: a handle is in the slot of its time and not before the last check
(`SlotsOK`), on one list only (`NowOK`), and `do_now_task` is at the head of its list
(`CallsOK`). The heart is `DueAhead`: whatever is due at the time of the walk is in a
slot between the one it walks and the last one, going round, and in its own slot not
before the cached handle. `WalkCovers` shows it for the first step, with arithmetic
modulo the number of slots, for walks shorter and longer than a turn. Handles set
meanwhile are not due: their time is after the clock, and the clock is not set back
during a walk. When the walk is over nothing is left ahead, hence nothing is due.
For the refinement each action has a lemma that names the step of `Timers` it is
(`SetRefines`, `CancelRefines`, `CheckExpireRefines`, ...).

*Connections and disk.* For any sets of coroutines and any limits and bounds, from
the assumption of each module (its coroutines are different, its limits positive; for
`DiskIo` the theorem itself assumes `Proc \notin User`):

| module | theorem | statement | inductive invariant |
|---|---|---|---|
| ChannelProofs | `PendingCounted` | `Spec => []PendingExact` | `IInv` |
| | `NobodyStuckEver` | `Spec => []NobodyStuck` | `IInv` |
| | `PrefixAlways` | `Spec => []PrefixDelivered` | `OrderInv` |
| | `ChannelFreedLast` | `Spec => []FreedLast` | `JoinedInv` |
| RpcDuplexProofs | `ContextsAreLive` | `Spec => []ContextsLive` | `LiveInv` |
| | `RequestsWrittenOnce` | `Spec => []WrittenOnce` | `OnceInv` |
| | `OneConnectionAtATime` | `Spec => []AloneBetween` | `JoinedInv` |
| | `StopLeavesNobody` | `Spec => []StoppedAlone` | `JoinedInv` |
| ServerProofs | `ConnectionsBounded` | `Spec => []ConnBound` | `BoundInv` |
| | `OwnersUnique` | `Spec => []OneOwner` | `OwnerInv` |
| | `FirstHookHangs` | `DiskSpec => []Spinning` | `HangInv` |

`Channel`: who may run is what decides the rest. `Hands` says how many responses the
writer holds at each place, `Booting` what the chain of resumed coroutines is
while the channel starts, and `Awake` who sleeps while another one is where. The
prefix needs more: until a send has failed or the peer has gone, what is on the wire,
in the writer's hand and in the queues, put together, is `given` (`Intact`,
`InOrder`). `RpcDuplex`: `Numbered` says who has a number, and that none is above
`m_seq_id`, so that a new call has a new one; `Requests` and `Forward` say that a
request is queued, in a batch or written, and never goes back. `TcpServer`:
`Bounded` bounds the connections together with the descriptors accepted and not yet
served, which is what one test of `max_conn_num` allows; `OwnInv` says which workers
hold a connection at each place, and `Empty` when the accept loop has no object.
`DiskIo`: `Spinning` says that, once a hook was called, `proc_disk_event` is the coroutine
that runs, at its read or just after a read of nothing, and that the kernel has no
request; nobody else is enabled then, so the first hook of a thread never submits its
request. `HangInv` says the same of the kernel and of `proc_disk_event` from the start, and
that before the first call no coroutine is inside a hook.

Three of these theorems state the safety half of a liveness property of TLC's: what is
true when the thing that must happen has happened. `FreedLast` belongs to `Closes`,
`AloneBetween` and `StoppedAlone` to `StopReturns`. They rest on what a coroutine that
joins others knows at each place (`Joined` of the two modules).

*Poll.* For any set of coroutines, any finite set of descriptors, any masks that are
asked for and any size of a batch, from `PollAssumption`. The set of descriptors is finite
because `num_raise` counts them.

| theorem of CoPollProofs | statement |
|---|---|
| `PollTyped` | `Spec => []TypeOK` |
| `RegistrationAgrees` | `Spec => []RegistrationKnown` |
| `NoDeadContext` | `Spec => []ContextsLive` |
| `DispatchOnce` | `Spec => []DispatchLive` |
| `PollCounts` | `Spec => []RaisedCounted` |
| `EventsKept` | `Spec => []NoLostEvent` |
| `PollResult` | `Spec => PollReturns` |

The invariants hold only together, and with four more. `ReadyOK`: the kernel's ready
list has a descriptor once, and only a poller has a timer. `BatchOK`: a batch has a
descriptor once, and nothing of it has been reported yet; otherwise `num_raise` would
count a descriptor twice. `Registered`: the kernel was asked for whatever somebody polls
for. `TryOK` is for the window between `EAGAIN` and the poll, in which the hook is not yet
on any list: an event of an older registration that comes in it puts the descriptor on
the ready list, where the next `epoll_wait` finds it, and an event without a registration is found
when the descriptor is added. `EventsKept` is the argument for edge-triggered
registrations: while a hook waits for an event that is on, the descriptor is on the ready
list, the event in the batch, or the poller on the dispatch list. `PollResult` (an action property): a step that ends a poll sees
`num_raise = 0` exactly when the timer of the poll was still set, so that 0 means a
timeout and nothing else.

Only model-checked: liveness (`WaiterWoken`, `EndedFreed`, `Expires`, `HookWoken`,
`WalkReturns`, `Closes`, `Drained`, `StopReturns`, `Stops`), which is
outside of the prover's reach. Every safety invariant and action property that a
passing run checks is proved.

## Findings

`wheel_cancel_next`: `check()` (`core/src/timewheel.cpp:406`) walks a slot with
`list_for_each_entry_safe` and calls back inside the loop. The macro survives the
removal of the current entry, not of the cached next one. A callback that cancels
that handle leaves the walk on a detached node: the cancelled timer is called
when it is due, and the loop does not meet the list head again. A coroutine
that times out of a `WaitQueue` and wakes another one, whose timer is next in the
same slot, does this. `CachedNextValid` shows that the similar loop of
`proc_exit_notify` has no such problem.

`disk_io`: the `read` hook (`core/src/network_hook.cpp:319`) tests
`errno != EAGAIN || errno != EINTR`, which is always true, so it returns -1 at once
where it should go on to its `co_poll`. A descriptor with a context is blocking unless
the user asked otherwise ("default is block", `core/src/fd_ctx.cpp:135`), and
`proc_disk_event` depends on it: it reads its eventfd in an endless loop. `get_disk_ctx`
resumes it in the first disk hook of a thread, and it never yields: the
counterexample ends in a loop of `ReadCounter` and `GetDone`, and `FirstHookHangs` shows
that there is no other outcome. A file comes to these hooks when it was opened with the
hooked `open` or `openat`; `example/aio_test.cpp` opens its file with `fopen`, whose hook
is commented out, and does not reach them.

## What is not modelled

Of the modelled parts: coroutine-local storage, stacks and `TimeoutMgr`'s ids;
permanent tasks other than the event loop; `stop()` and the destructors of the
wheel; the table that holds the wait items; descriptor flags and most errors of system
calls; reads of a handle that was on a coroutine's stack after its callback
(`timewheel.cpp:80`); a worker that outlives its channel
(`rpc_pb_server.cpp:551`); a duplex client with several hosts, whose senders share one
wait queue and keep a wake-up of it going as `WalkReturns` describes; offsets and
results of disk requests; the expiry of the timer of a destroyed `CondWaitQueue`
(`wait_queue.h:66`); the sizes of
messages (`cmd_base.h:198`).

Parts left out: the pthread hooks, event notify and the time manager, which are
protocols between threads, each with a dispatch loop of its own, while every module
here is of one thread; the lock-free queues, of which `FdQueue` and the fifo have no caller and `llist`
serves the pthread hooks and the log;
the UDP server, which repeats the loops of `TcpServer` and the writer of `Channel`;
the simple RPC client, the HTTP server and the load balancer, which are sequential;
`fd_ctx`, a table. Left out for good: logging, formatting and
parsing, name resolution (a wrapper of c-ares), start-up code, and QuickJS. The last
is a vendored interpreter in C and makes up more than two thirds of the lines
under `src/`, so the share of all lines that the models cover stays small.
