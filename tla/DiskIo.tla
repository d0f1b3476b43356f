-------------------------------- MODULE DiskIo --------------------------------
(****************************************************************************)
(* The disk hooks of one thread (core/src/disk_io_hook.cpp).  A hook asks   *)
(* get_disk_ctx for the context of its thread, submits a request to the     *)
(* kernel and yields; the kernel puts its completion on a ring and then     *)
(* signals an eventfd; the coroutine proc_disk_event reads the eventfd,     *)
(* takes completions off the ring and resumes their coroutines.  The first  *)
(* get_disk_ctx makes that coroutine and resumes it.                        *)
(*                                                                          *)
(* resumed is the chain of resumed coroutines: the last one runs, and the   *)
(* dispatch loop runs when it is empty.  A completion is named by its       *)
(* coroutine; the file, its offset and the results are left out.            *)
(****************************************************************************)
EXTENDS Integers, Sequences, FiniteSets, List

CONSTANTS User,         \* coroutines that use files
          Proc,         \* proc_co
          Limit,        \* disk_io_ctx_t::num: requests the kernel takes
          Slots,        \* the length of the array `event'
          Wrap          \* 2^64: uint64_t ready

VARIABLES
    made,       \* g_disk_io_ctx is not NULL
    inflight,   \* requests in the kernel
    ring,       \* completions not taken off
    unsignalled,\* completions on the ring whose signal is still to come
    counter,    \* the eventfd
    event, i,   \* proc_disk_event: the array and the place in it
    nread,      \* proc_disk_event: what the read returned
    ready,      \* proc_disk_event: completions it expects
    pc, resumed

disk_vars == <<made, inflight, ring, unsignalled, counter, event, i, nread, ready, pc, resumed>>

aio_vars == <<inflight, ring, unsignalled, counter>>
proc_vars == <<event, i, nread, ready>>

RunsNow(c) == resumed # <<>> /\ Last(resumed) = c
Goes(c, at) == RunsNow(c) /\ pc' = [pc EXCEPT ![c] = at] /\ resumed' = resumed
Sleeps(c, at) == RunsNow(c) /\ pc' = [pc EXCEPT ![c] = at] /\ resumed' = Front(resumed)

-----------------------------------------------------------------------------
\* The program: a coroutine is resumed, and blocks elsewhere.

CoRuns(c) ==
    /\ resumed = <<>> /\ pc[c] = "idle"
    /\ pc' = [pc EXCEPT ![c] = "run"]
    /\ resumed' = <<c>>
    /\ UNCHANGED <<made, aio_vars, proc_vars>>

CoBlocks(c) ==
    /\ pc[c] = "run"
    /\ Sleeps(c, "idle")
    /\ UNCHANGED <<made, aio_vars, proc_vars>>

-----------------------------------------------------------------------------
\* The hooks.  One that is not enabled, or whose lseek fails, changes nothing here.

\* The first caller makes proc_co and resumes it, and goes on when proc_co yields.  That
\* eventfd and io_queue_init succeed is assumed: the program ends otherwise.
get_disk_ctx(c) ==
    /\ RunsNow(c) /\ pc[c] = "run"
    /\ made' = TRUE
    /\ pc' = [pc EXCEPT ![c] = "ctx"]
    /\ resumed' = IF made THEN resumed ELSE Append(resumed, Proc)
    /\ UNCHANGED <<aio_vars, proc_vars>>

\* io_submit, and yield when it takes the request.
Submit(c) ==
    /\ pc[c] = "ctx"
    /\ IF Cardinality(inflight) + Len(ring) < Limit
       THEN inflight' = inflight \cup {c} /\ Sleeps(c, "yield")
       ELSE inflight' = inflight /\ Goes(c, "run")
    /\ UNCHANGED <<made, ring, unsignalled, counter, proc_vars>>

disk_read(c) == get_disk_ctx(c)
disk_readv(c) == get_disk_ctx(c)
disk_write(c) == get_disk_ctx(c)
disk_writev(c) == get_disk_ctx(c)
pread(c) == get_disk_ctx(c)
preadv(c) == get_disk_ctx(c)
pwrite(c) == get_disk_ctx(c)
pwritev(c) == get_disk_ctx(c)
fsync(c) == get_disk_ctx(c)
fdatasync(c) == get_disk_ctx(c)

\* The rest of a hook, once it is resumed.
HookReturn(c) ==
    /\ pc[c] = "back"
    /\ Goes(c, "run")
    /\ UNCHANGED <<made, aio_vars, proc_vars>>

-----------------------------------------------------------------------------
\* The kernel.

Complete(c) ==
    /\ c \in inflight
    /\ inflight' = inflight \ {c}
    /\ ring' = Append(ring, c)
    /\ unsignalled' = unsignalled + 1
    /\ UNCHANGED <<made, counter, proc_vars, pc, resumed>>

Signal ==
    /\ unsignalled > 0
    /\ unsignalled' = unsignalled - 1
    /\ counter' = counter + 1
    /\ UNCHANGED <<made, inflight, ring, proc_vars, pc, resumed>>

-----------------------------------------------------------------------------
\* proc_disk_event

\* The read hook on the eventfd, which is O_NONBLOCK and whose user_flag is not.  When
\* there is nothing to read errno is EAGAIN, `errno != EAGAIN || errno != EINTR' holds,
\* and the hook returns -1: it does not come to its co_poll.
ReadHook ==
    IF counter > 0
    THEN nread' = 8 /\ ready' = counter /\ counter' = 0
    ELSE nread' = -1 /\ ready' = 0 /\ counter' = 0

\* The top of the loop.
ReadCounter ==
    /\ pc[Proc] = "top"
    /\ ReadHook
    /\ Goes(Proc, "get")
    /\ UNCHANGED <<made, inflight, ring, unsignalled, event, i>>

Taken == IF Len(ring) < Slots THEN Len(ring) ELSE Slots

Expects == nread = 8 /\ ready > 0

\* io_getevents: all that is on the ring, as far as the array goes.  It may be more than
\* the counter said, and ready wraps then.
GetEvents ==
    /\ pc[Proc] = "get" /\ Expects /\ Taken > 0
    /\ event' = SubSeq(ring, 1, Taken)
    /\ ring' = SubSeq(ring, Taken + 1, Len(ring))
    /\ ready' = (ready - Taken) % Wrap
    /\ i' = 1
    /\ Goes(Proc, "loop")
    /\ UNCHANGED <<made, inflight, unsignalled, counter, nread>>

\* Nothing is expected, or nothing is there.
GetDone ==
    /\ pc[Proc] = "get"
    /\ ~Expects \/ Taken = 0
    /\ Goes(Proc, "top")
    /\ UNCHANGED <<made, aio_vars, proc_vars>>

ResumeCo ==
    /\ RunsNow(Proc) /\ pc[Proc] = "loop" /\ i <= Len(event)
    /\ pc' = [pc EXCEPT ![event[i]] = "back"]
    /\ resumed' = Append(resumed, event[i])
    /\ i' = i + 1
    /\ UNCHANGED <<made, aio_vars, event, nread, ready>>

ResumeDone ==
    /\ pc[Proc] = "loop" /\ i > Len(event)
    /\ Goes(Proc, "get")
    /\ UNCHANGED <<made, aio_vars, proc_vars>>

-----------------------------------------------------------------------------
\* Before the first hook.
DiskInit ==
    /\ made = FALSE
    /\ inflight = {} /\ ring = <<>> /\ unsignalled = 0 /\ counter = 0
    /\ event = <<>> /\ i = 1 /\ nread = 0 /\ ready = 0
    /\ pc = [c \in User \cup {Proc} |-> IF c = Proc THEN "top" ELSE "idle"]
    /\ resumed = <<>>

Hook(c) ==
    \/ disk_read(c) \/ disk_readv(c) \/ disk_write(c) \/ disk_writev(c)
    \/ pread(c) \/ preadv(c) \/ pwrite(c) \/ pwritev(c) \/ fsync(c) \/ fdatasync(c)

ProcStep == ReadCounter \/ GetEvents \/ GetDone \/ ResumeCo \/ ResumeDone

Kernel == Signal \/ \E c \in User : Complete(c)

DiskNext ==
    \/ \E c \in User : CoRuns(c) \/ CoBlocks(c) \/ Hook(c) \/ Submit(c) \/ HookReturn(c)
    \/ ProcStep
    \/ Kernel

\* The kernel completes every request and signals it; the coroutine that runs goes on, and
\* yields some time when it is not in a hook.
DiskFairness ==
    /\ WF_disk_vars(Kernel) /\ WF_disk_vars(ProcStep)
    /\ \A c \in User : /\ SF_disk_vars(CoBlocks(c)) /\ WF_disk_vars(Submit(c))
                       /\ WF_disk_vars(HookReturn(c))

DiskSpec == DiskInit /\ [][DiskNext]_disk_vars /\ DiskFairness

-----------------------------------------------------------------------------
\* A read from a descriptor whose user_flag has no O_NONBLOCK blocks its coroutine and not
\* the thread ("default is block", core/src/fd_ctx.cpp:135): proc_co, when it reads the
\* eventfd and there is nothing, lets others run.  It does not hold (read,
\* network_hook.cpp:319).
ReadBlocks == RunsNow(Proc) /\ pc[Proc] = "top" /\ counter = 0 ~> ~RunsNow(Proc)

\* Once a hook was called, proc_co runs and finds nothing to read: no request was
\* submitted, and no coroutine of the thread runs again (disk_io_hook.cpp:151).
Spinning ==
    made => /\ RunsNow(Proc) /\ pc[Proc] \in {"top", "get"} /\ (pc[Proc] = "get" => nread = -1)
            /\ inflight = {} /\ unsignalled = 0 /\ counter = 0
=============================================================================
