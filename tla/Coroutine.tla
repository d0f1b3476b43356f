------------------------------ MODULE Coroutine ------------------------------
(****************************************************************************)
(* The coroutine scheduler of one thread (core/src/coroutine.cpp,           *)
(* coroutine_env.cpp) together with the dispatch loop that drives it        *)
(* (core/src/dispatch.cpp).                                                 *)
(*                                                                          *)
(* One coroutine runs at a time (curr_co).  resume() pushes the caller on   *)
(* run_queue and jumps; yield() and the end of a coroutine pop the last     *)
(* caller and jump back.  wait(co) parks the caller on the exit queue of    *)
(* co; when co ends, its exit queue is moved to a heap object (here         *)
(* notify_queue, indexed by the incarnation that ended) and a delayed task  *)
(* resumes the waiters later, from the dispatch loop of Main.  A coroutine  *)
(* with is_end_delete is freed by another delayed task.  The address of a   *)
(* freed coroutine is handed out again by the pool: gen counts how often.   *)
(*                                                                          *)
(* Tw is the coroutine of the timer wheel: the callbacks of timers run in   *)
(* it.  Everything else is user code, which may do at each point any of the *)
(* calls below; resume() is only called on a coroutine that was not yet     *)
(* started or that is parked by a plain yield(), which is the contract the  *)
(* callers in the repository keep and the code does not test.               *)
(****************************************************************************)
EXTENDS Integers, Sequences, List

CONSTANTS User,     \* addresses of the coroutines of user code
          Main,     \* env->main, the coroutine of the thread itself
          Tw,       \* the coroutine of the timer wheel
          MaxGen    \* bound: how often one address is allocated

ASSUME CoAssumption ==
    /\ Main # Tw
    /\ Main \notin User
    /\ Tw \notin User
    /\ MaxGen \in Nat

Co == User \cup {Main, Tw}

\* An incarnation: an address and the number of its allocation.
Inc == Co \X (0..MaxGen)
NoInc == <<>>
\* A coroutine is not the list head.
ASSUME EndAssumption == End \notin Co

\* Delayed tasks: proc_exit_notify of an incarnation, proc_delay_back of a
\* coroutine, and the one delay_del_task of the environment.
ExitTask(n) == [kind |-> "exit", inc |-> n]
BackTask(c) == [kind |-> "back", co |-> c]
DelTask == [kind |-> "del"]
Task == {ExitTask(n) : n \in Inc} \cup {BackTask(c) : c \in Co} \cup {DelTask}

VARIABLES
    curr_co,        \* env->curr_co
    run_queue,      \* env->run_queue: the resumers of curr_co, last one at the tail
    state,          \* co->state, and "FREE" for an address in the pool
    gen,            \* incarnation of each address
    is_end_delete,  \* co->is_end_delete
    pc,             \* the call in which a coroutine is parked, "run" if in none
    target,         \* the incarnation a parked wait() waits for
    timers,         \* coroutines whose wait(co, ms) timer is armed
    exit_queue,     \* co->exit_notify_queue
    notify_queue,   \* exit_notify_t::queue of an ended incarnation
    delay_tasks,    \* mgr->delay_tasks
    delay_del_list, \* env->delay_del_list
    stage,          \* where Main is: "boot", "idle" (outside dispatch()), "net", "delay"
    ready,          \* the ctx->dispatch list of one epoll batch
    last_events,    \* epoll_ctx: the last batch had events
    delay_list,     \* delay_list of proc_tasks: the rest of the batch
    note,           \* incarnation whose waiters proc_exit_notify is resuming
    next_it,        \* its cached iterator `next'
    value           \* what the last jump delivered: a return value, -1 or 0

vars == <<curr_co, run_queue, state, gen, is_end_delete, pc, target, timers,
          exit_queue, notify_queue, delay_tasks, delay_del_list, stage, ready,
          last_events, delay_list, note, next_it, value>>

loop_vars == <<stage, ready, last_events, delay_list, note, next_it>>
task_vars == <<delay_tasks, delay_del_list>>
wait_vars == <<target, timers, exit_queue, notify_queue>>
life_vars == <<gen, is_end_delete>>

-----------------------------------------------------------------------------
\* Delayed tasks.

Linked(t) == t \in Elems(delay_tasks) \cup Elems(delay_list)

\* dispatch_mgr_t::delay: a task that is linked already stays where it is.
Delayed(q, t) == IF Linked(t) THEN q ELSE Append(q, t)

-----------------------------------------------------------------------------
\* Switching.

\* x leaves the exit or notify queue it waits on.
UnlinkWaiter(x) ==
    IF target[x] = NoInc
    THEN UNCHANGED <<exit_queue, notify_queue>>
    ELSE /\ exit_queue' = [exit_queue EXCEPT ![target[x][1]] = Unlink(@, x)]
         /\ notify_queue' = [notify_queue EXCEPT ![target[x]] = Unlink(@, x)]

\* Mutant: wait(co, ms) returns without cancel_timeout.
LeaveWaitKeepsTimer(x) ==
    /\ target' = [target EXCEPT ![x] = NoInc]
    /\ timers' = timers
    /\ pc' = [pc EXCEPT ![x] = "run"]

\* A coroutine that comes back from wait(co, ms) cancels its timer first thing.
LeaveWait(x) ==
    /\ target' = [target EXCEPT ![x] = NoInc]
    /\ timers' = timers \ {x}
    /\ pc' = [pc EXCEPT ![x] = "run"]

\* resume(env, co, val)
JumpTo(x, v) ==
    /\ curr_co' = x
    /\ run_queue' = Append(Unlink(run_queue, curr_co), curr_co)
    /\ state' = [state EXCEPT ![x] = "RUNNING"]
    /\ UnlinkWaiter(x)
    /\ LeaveWait(x)
    /\ value' = v

\* Mutant: the resumer is taken from the head of run_queue.
JumpBackToFirst(st) ==
    /\ run_queue # <<>>
    /\ curr_co' = Head(run_queue)
    /\ run_queue' = Tail(run_queue)
    /\ state' = [state EXCEPT ![curr_co] = st, ![Head(run_queue)] = "RUNNING"]
    /\ value' = 0

\* The pop of yield() and of co_return_p(): curr_co gets the state st.
JumpBack(st) ==
    /\ run_queue # <<>>
    /\ curr_co' = Last(run_queue)
    /\ run_queue' = Front(run_queue)
    /\ state' = [state EXCEPT ![curr_co] = st, ![Last(run_queue)] = "RUNNING"]
    /\ value' = 0

\* yield(NULL), in the call named by why.
Park(why) ==
    /\ JumpBack("SUSPEND")
    /\ pc' = [pc EXCEPT ![curr_co] = why]

-----------------------------------------------------------------------------
\* Operations of user code.

\* User code runs in a user coroutine, in a timer callback, and in Main
\* between two calls of dispatch().
UserRuns == curr_co \in User \cup {Tw} \/ (curr_co = Main /\ stage = "idle")

\* alloc_coroutine, and set_auto_delete when ad holds.
Alloc(x, ad) ==
    /\ UserRuns
    /\ state[x] = "FREE"
    /\ gen[x] < MaxGen
    /\ state' = [state EXCEPT ![x] = "CREATE"]
    /\ gen' = [gen EXCEPT ![x] = @ + 1]
    /\ is_end_delete' = [is_end_delete EXCEPT ![x] = ad]
    /\ value' = 0
    /\ UNCHANGED <<curr_co, run_queue, pc, wait_vars, task_vars, loop_vars>>

\* resume(co) by user code.
Resume(x) ==
    /\ UserRuns
    /\ state[x] = "CREATE" \/ pc[x] = "yield"
    /\ JumpTo(x, 0)
    /\ UNCHANGED <<life_vars, task_vars, loop_vars>>

\* yield(): until somebody calls resume.
Yield ==
    /\ curr_co \in User
    /\ Park("yield")
    /\ UNCHANGED <<life_vars, wait_vars, task_vars, loop_vars>>

\* co_poll(): until the epoll task has an event for it.
Poll ==
    /\ curr_co \in User \cup {Tw}
    /\ Park("poll")
    /\ UNCHANGED <<life_vars, wait_vars, task_vars, loop_vars>>

\* delay_back(): until the delayed tasks run.
DelayBack ==
    /\ curr_co \in User
    /\ delay_tasks' = Delayed(delay_tasks, BackTask(curr_co))
    /\ Park("back")
    /\ UNCHANGED <<life_vars, wait_vars, delay_del_list, loop_vars>>

\* wait(co) of a coroutine that has ended returns its value at once: an
\* incarnation returns its number.
WaitEnded(x) ==
    /\ curr_co \in User
    /\ state[x] = "STOP"
    /\ value' = gen[x]
    /\ UNCHANGED <<curr_co, run_queue, state, pc, life_vars, wait_vars,
                   task_vars, loop_vars>>

\* Mutant: wait does not test whether the coroutine has ended.
WaitAnyState(x, timed) ==
    /\ curr_co \in User \ {x}
    /\ state[x] # "FREE"
    /\ target' = [target EXCEPT ![curr_co] = <<x, gen[x]>>]
    /\ timers' = IF timed THEN timers \cup {curr_co} ELSE timers
    /\ exit_queue' = [exit_queue EXCEPT ![x] = Append(@, curr_co)]
    /\ Park(IF timed THEN "twait" ELSE "wait")
    /\ UNCHANGED <<life_vars, notify_queue, task_vars, loop_vars>>

\* wait(co) and, when timed, wait(co, ms) of a coroutine that has not ended.
Wait(x, timed) ==
    /\ curr_co \in User \ {x}
    /\ state[x] \notin {"FREE", "STOP"}
    /\ target' = [target EXCEPT ![curr_co] = <<x, gen[x]>>]
    /\ timers' = IF timed THEN timers \cup {curr_co} ELSE timers
    /\ exit_queue' = [exit_queue EXCEPT ![x] = Append(@, curr_co)]
    /\ Park(IF timed THEN "twait" ELSE "wait")
    /\ UNCHANGED <<life_vars, notify_queue, task_vars, loop_vars>>

\* Mutant: the notification is only registered when no task is pending.
ExitTasksIfIdle(c) ==
    LET q == IF exit_queue[c] = <<>> \/ delay_tasks # <<>> THEN delay_tasks
             ELSE Append(delay_tasks, ExitTask(<<c, gen[c]>>))
    IN  IF is_end_delete[c] THEN Delayed(q, DelTask) ELSE q

\* The tasks co_main_helper2 registers at the end of c.
ExitTasks(c) ==
    LET q == IF exit_queue[c] = <<>> THEN delay_tasks
             ELSE Append(delay_tasks, ExitTask(<<c, gen[c]>>))
    IN  IF is_end_delete[c] THEN Delayed(q, DelTask) ELSE q

\* co_main_helper2: the function of the coroutine has returned.
Exit ==
    LET c == curr_co IN
    /\ c \in User
    /\ notify_queue' = [notify_queue EXCEPT ![<<c, gen[c]>>] = exit_queue[c]]
    /\ exit_queue' = [exit_queue EXCEPT ![c] = <<>>]
    /\ delay_tasks' = ExitTasks(c)
    /\ delay_del_list' = IF is_end_delete[c] THEN Append(delay_del_list, c)
                         ELSE delay_del_list
    /\ JumpBack("STOP")
    /\ UNCHANGED <<life_vars, pc, target, timers, loop_vars>>

\* free_coroutine of an ended coroutine by the code that owns it.
Free(x) ==
    /\ UserRuns
    /\ state[x] = "STOP"
    /\ ~is_end_delete[x]
    /\ state' = [state EXCEPT ![x] = "FREE"]
    /\ value' = 0
    /\ UNCHANGED <<curr_co, run_queue, pc, life_vars, wait_vars, task_vars,
                   loop_vars>>

\* Mutant: timers are checked wherever user code runs.
TimerFiresAnywhere(x) ==
    /\ curr_co # Main
    /\ x \in timers
    /\ JumpTo(x, -1)
    /\ UNCHANGED <<life_vars, task_vars, loop_vars>>

\* wait_timeout_handle: a timer of the wheel expires in Tw, one of zero
\* milliseconds in do_now_task, which is a delayed task of Main.
TimerFires(x) ==
    /\ \/ curr_co = Tw
       \/ curr_co = Main /\ stage = "delay" /\ note = NoInc
    /\ x \in timers
    /\ JumpTo(x, -1)
    /\ UNCHANGED <<life_vars, task_vars, loop_vars>>

-----------------------------------------------------------------------------
\* dispatch(), called by Main in a loop.

Polling == {c \in Co : pc[c] = "poll"}

\* epoll_wait: it blocks when the last batch resumed nobody, and then needs a
\* polled descriptor to come back; a batch holds each poller at most once, and
\* events nobody polls for any more resume no one.
BeginDispatch ==
    /\ curr_co = Main
    /\ stage = "idle"
    /\ ready' \in SUBSET Polling
    /\ last_events \/ Polling # {}
    /\ last_events' = (ready' # {})
    /\ stage' = "net"
    /\ value' = 0
    /\ UNCHANGED <<curr_co, run_queue, state, pc, life_vars, wait_vars,
                   task_vars, delay_list, note, next_it>>

\* The poller of an event is resumed.
NetResume(x) ==
    /\ curr_co = Main
    /\ stage = "net"
    /\ x \in ready
    /\ ready' = ready \ {x}
    /\ JumpTo(x, 0)
    /\ UNCHANGED <<life_vars, task_vars, stage, last_events, delay_list, note,
                   next_it>>

\* Mutant: dispatch() returns after the swap.
TakeDelayTasksReturns ==
    /\ curr_co = Main
    /\ stage = "net"
    /\ ready = {}
    /\ delay_list' = delay_tasks
    /\ delay_tasks' = <<>>
    /\ stage' = "idle"
    /\ value' = 0
    /\ UNCHANGED <<curr_co, run_queue, state, pc, life_vars, wait_vars,
                   delay_del_list, ready, last_events, note, next_it>>

\* proc_tasks takes the whole list of delayed tasks; what is delayed from now
\* on waits for the next round.  do_now_task, the delayed task of the timer
\* wheel, is not on delay_tasks here: while a timer is armed it may be linked.
TakeDelayTasks ==
    /\ curr_co = Main
    /\ stage = "net"
    /\ ready = {}
    /\ delay_list' = delay_tasks
    /\ delay_tasks' = <<>>
    /\ stage' \in IF delay_tasks # <<>> THEN {"delay"}
                 ELSE IF timers # {} THEN {"idle", "delay"} ELSE {"idle"}
    /\ value' = 0
    /\ UNCHANGED <<curr_co, run_queue, state, pc, life_vars, wait_vars,
                   delay_del_list, ready, last_events, note, next_it>>

\* Main is about to run the task at the head of delay_list.
AtTask == curr_co = Main /\ stage = "delay" /\ note = NoInc /\ delay_list # <<>>

\* proc_exit_notify starts its loop.
BeginNotify ==
    /\ AtTask
    /\ Head(delay_list).kind = "exit"
    /\ note' = Head(delay_list).inc
    /\ next_it' = First(notify_queue[note'])
    /\ delay_list' = Tail(delay_list)
    /\ value' = 0
    /\ UNCHANGED <<curr_co, run_queue, state, pc, life_vars, wait_vars,
                   task_vars, stage, ready, last_events>>

\* One turn of the loop: it has cached its successor before the waiter runs.
\* The value is the ret_val of the incarnation that ended.
NotifyOne ==
    /\ curr_co = Main
    /\ note # NoInc
    /\ next_it # End
    /\ next_it' = Succ(notify_queue[note], next_it)
    /\ IF state[next_it] # "STOP"
       THEN JumpTo(next_it, note[2])
       ELSE /\ UnlinkWaiter(next_it)
            /\ value' = 0
            /\ UNCHANGED <<curr_co, run_queue, state, pc, target, timers>>
    /\ UNCHANGED <<life_vars, task_vars, stage, ready, last_events, delay_list,
                   note>>

EndNotify ==
    /\ curr_co = Main
    /\ note # NoInc
    /\ next_it = End
    /\ note' = NoInc
    /\ value' = 0
    /\ UNCHANGED <<curr_co, run_queue, state, pc, life_vars, wait_vars,
                   task_vars, stage, ready, last_events, delay_list, next_it>>

\* Mutant: the list is not swapped out before the loop.
DeleteEndedKeepsList ==
    /\ AtTask
    /\ Head(delay_list) = DelTask
    /\ state' = [c \in Co |-> IF c \in Elems(delay_del_list) THEN "FREE"
                              ELSE state[c]]
    /\ delay_list' = Tail(delay_list)
    /\ value' = 0
    /\ UNCHANGED <<curr_co, run_queue, pc, life_vars, wait_vars, task_vars,
                   stage, ready, last_events, note, next_it>>

\* Mutant: only the first coroutine of the list is freed.
DeleteEndedFirst ==
    /\ AtTask
    /\ Head(delay_list) = DelTask
    /\ state' = [state EXCEPT ![Head(delay_del_list)] = "FREE"]
    /\ delay_del_list' = <<>>
    /\ delay_list' = Tail(delay_list)
    /\ value' = 0
    /\ UNCHANGED <<curr_co, run_queue, pc, life_vars, wait_vars, delay_tasks,
                   stage, ready, last_events, note, next_it>>

\* do_delay_del_co_task frees every coroutine of delay_del_list.
DeleteEnded ==
    /\ AtTask
    /\ Head(delay_list) = DelTask
    /\ state' = [c \in Co |-> IF c \in Elems(delay_del_list) THEN "FREE"
                              ELSE state[c]]
    /\ delay_del_list' = <<>>
    /\ delay_list' = Tail(delay_list)
    /\ value' = 0
    /\ UNCHANGED <<curr_co, run_queue, pc, life_vars, wait_vars, delay_tasks,
                   stage, ready, last_events, note, next_it>>

\* proc_delay_back
ResumeBack ==
    /\ AtTask
    /\ Head(delay_list).kind = "back"
    /\ delay_list' = Tail(delay_list)
    /\ JumpTo(Head(delay_list).co, 0)
    /\ UNCHANGED <<life_vars, task_vars, stage, ready, last_events, note,
                   next_it>>

EndDispatch ==
    /\ curr_co = Main
    /\ stage = "delay"
    /\ note = NoInc
    /\ delay_list = <<>>
    /\ stage' = "idle"
    /\ value' = 0
    /\ UNCHANGED <<curr_co, run_queue, state, pc, life_vars, wait_vars,
                   task_vars, ready, last_events, delay_list, note, next_it>>

-----------------------------------------------------------------------------
\* coroutine_env_t(): the main coroutine runs and is on run_queue as well.
Init ==
    /\ curr_co = Main
    /\ run_queue = <<Main>>
    /\ state = [c \in Co |-> IF c = Main THEN "RUNNING"
                             ELSE IF c = Tw THEN "CREATE" ELSE "FREE"]
    /\ gen = [c \in Co |-> 0]
    /\ is_end_delete = [c \in Co |-> FALSE]
    /\ pc = [c \in Co |-> "run"]
    /\ target = [c \in Co |-> NoInc]
    /\ timers = {}
    /\ exit_queue = [c \in Co |-> <<>>]
    /\ notify_queue = [n \in Inc |-> <<>>]
    /\ delay_tasks = <<>>
    /\ delay_del_list = <<>>
    /\ stage = "boot"
    /\ ready = {}
    /\ last_events = FALSE
    /\ delay_list = <<>>
    /\ note = NoInc
    /\ next_it = End
    /\ value = 0

\* timewheel_t::start, called by init_conet_env.
StartWheel ==
    /\ stage = "boot"
    /\ stage' = "idle"
    /\ JumpTo(Tw, 0)
    /\ UNCHANGED <<life_vars, task_vars, ready, last_events, delay_list, note,
                   next_it>>

\* The steps of dispatch() once it has been called.
DispatchStep ==
    \/ \E x \in Co : NetResume(x)
    \/ TakeDelayTasks
    \/ BeginNotify
    \/ NotifyOne
    \/ EndNotify
    \/ DeleteEnded
    \/ ResumeBack
    \/ EndDispatch

Next ==
    \/ StartWheel
    \/ \E x \in User, ad \in BOOLEAN : Alloc(x, ad)
    \/ \E x \in User : Resume(x)
    \/ Yield
    \/ Poll
    \/ DelayBack
    \/ \E x \in User : WaitEnded(x)
    \/ \E x \in User, timed \in BOOLEAN : Wait(x, timed)
    \/ Exit
    \/ \E x \in User : Free(x)
    \/ \E x \in User : TimerFires(x)
    \/ BeginDispatch
    \/ DispatchStep

Spec == Init /\ [][Next]_vars

\* c hands control back to its resumer.
GivesUp(c) ==
    /\ curr_co = c
    /\ \/ Yield
       \/ Poll
       \/ DelayBack
       \/ Exit
       \/ \E x \in User, timed \in BOOLEAN : Wait(x, timed)

(****************************************************************************)
(* Main calls dispatch() again and again and runs through it; the timerfd   *)
(* of Tw has an event every millisecond, so epoll_wait returns; a coroutine *)
(* that gets to run again and again gives control up again and again        *)
(* (cooperative scheduling: nothing in the code enforces it).               *)
(****************************************************************************)
Fairness ==
    /\ WF_vars(StartWheel)
    /\ SF_vars(BeginDispatch)
    /\ SF_vars(DispatchStep)
    /\ \A c \in Co : SF_vars(GivesUp(c))

FairSpec == Spec /\ Fairness

-----------------------------------------------------------------------------
\* Properties.

Ended(n) ==
    \/ gen[n[1]] > n[2]
    \/ gen[n[1]] = n[2] /\ state[n[1]] \in {"STOP", "FREE"}

Waiting(c) == pc[c] \in {"wait", "twait"}

\* Every variable has its type, and the local lists of dispatch() are empty
\* outside the loops that own them (proc_netevent, proc_tasks).
TypeOK ==
    /\ curr_co \in Co
    /\ run_queue \in Seq(Co)
    /\ state \in [Co -> {"FREE", "CREATE", "RUNNING", "SUSPEND", "STOP"}]
    /\ gen \in [Co -> 0..MaxGen]
    /\ is_end_delete \in [Co -> BOOLEAN]
    /\ pc \in [Co -> {"run", "yield", "poll", "back", "wait", "twait"}]
    /\ target \in [Co -> Inc \cup {NoInc}]
    /\ timers \subseteq User
    /\ exit_queue \in [Co -> Seq(Co)]
    /\ notify_queue \in [Inc -> Seq(Co)]
    /\ delay_tasks \in Seq(Task)
    /\ delay_del_list \in Seq(Co)
    /\ stage \in {"boot", "idle", "net", "delay"}
    /\ ready \subseteq Co
    /\ stage # "net" => ready = {}
    /\ last_events \in BOOLEAN
    /\ delay_list \in Seq(Task)
    /\ note \in Inc \cup {NoInc}
    /\ stage # "delay" => delay_list = <<>> /\ note = NoInc
    /\ next_it \in Co \cup {End}
    /\ note = NoInc => next_it = End
    /\ value \in Int

\* The coroutines in state RUNNING are the current one and the chain of its
\* resumers, each once, down to Main: yield() and co_return_p() always find a
\* live coroutine to return to, and never one that another resume left
\* elsewhere (resume, yield, co_return_p).
StackOK ==
    /\ \A c \in Co : state[c] = "RUNNING" <=> c \in {curr_co} \cup Elems(run_queue)
    /\ NoDup(run_queue)
    /\ stage = "boot" => curr_co = Main /\ run_queue = <<Main>>
    /\ stage # "boot" => curr_co \notin Elems(run_queue)
    /\ stage # "boot" /\ curr_co = Main => run_queue = <<>>
    /\ curr_co # Main => run_queue # <<>> /\ run_queue[1] = Main

\* The ways in which proc_exit_notify of n is still going to happen.
NotifyPending(n) == Linked(ExitTask(n)) \/ note = n

\* A coroutine parked in wait() is never forgotten: it is on the exit queue
\* of a coroutine that has not ended, or on the list of an ended incarnation
\* whose delayed notification is still to come (wait, co_main_helper2,
\* proc_exit_notify).
NoLostWaiter ==
    \A w \in Co, n \in Inc : Waiting(w) /\ target[w] = n =>
        \/ ~Ended(n) /\ w \in Elems(exit_queue[n[1]])
        \/ Ended(n) /\ w \in Elems(notify_queue[n]) /\ NotifyPending(n)

\* Where a coroutine may be referred to by the scheduler.
InExitQueues == UNION {Elems(exit_queue[c]) : c \in Co}
InNotifyQueues == UNION {Elems(notify_queue[n]) : n \in Inc}
InTasks == Elems(delay_del_list) \cup {c \in Co : Linked(BackTask(c))}
Referenced ==
    {curr_co} \cup Elems(run_queue) \cup timers \cup ready
        \cup InExitQueues \cup InNotifyQueues \cup InTasks \cup ({next_it} \ {End})

\* No list, timer, task or iterator of the scheduler refers to a coroutine
\* that was freed, and nobody waits on a freed coroutine's own queue
\* (free_coroutine, do_delay_del_co_task).
NoUseAfterFree ==
    \A c \in Co : state[c] = "FREE" =>
        c \notin Referenced /\ exit_queue[c] = <<>>

\* A coroutine with is_end_delete that has ended is on delay_del_list until it
\* is freed, and the task that empties that list is linked: the shared
\* delay_del_task is not lost when coroutines end while it is being run
\* (co_main_helper2, dispatch_mgr_t::delay, do_delay_del_co_task).
EndedQueued ==
    \A c \in Co : state[c] = "STOP" /\ is_end_delete[c] =>
        c \in Elems(delay_del_list) /\ Linked(DelTask)

\* The `next' that proc_exit_notify caches before it resumes a waiter is still
\* the first node of the list when that waiter gives control back: nobody
\* unlinks it in between.
CachedNextValid ==
    note # NoInc =>
        IF next_it = End THEN notify_queue[note] = <<>>
        ELSE notify_queue[note] # <<>> /\ next_it = Head(notify_queue[note])

\* wait(co) comes back only after the incarnation it was called for has ended
\* and with the value that incarnation returned, even if its memory was freed
\* and allocated again; only wait(co, ms) may come back with -1 before
\* (wait, wait_timeout_handle, proc_exit_notify).
WaitReturns ==
    [][\A w \in Co : Waiting(w) /\ ~Waiting(w)' =>
          \/ Ended(target[w]) /\ value' = target[w][2]
          \/ pc[w] = "twait" /\ value' = -1]_vars

\* Whoever waits for a coroutine that has ended is resumed.
WaiterWoken ==
    \A w \in User : (Waiting(w) /\ Ended(target[w])) ~> ~Waiting(w)

\* A coroutine with is_end_delete that has ended is freed.
EndedFreed ==
    \A c \in User : (state[c] = "STOP" /\ is_end_delete[c]) ~> (state[c] = "FREE")
=============================================================================
