------------------------------ MODULE TimeWheel ------------------------------
(****************************************************************************)
(* The timer wheel of one thread (core/src/timewheel.cpp): a handle is      *)
(* linked into the slot of its expiry time, or into now_list when it is due *)
(* at once.  The coroutine of the wheel calls check() on every tick of its  *)
(* timerfd; do_now_task is a delayed task of the dispatch loop.  Both walk  *)
(* a list with list_for_each_entry_safe and call back into user code, which *)
(* sets and cancels timers while the walk is under way.                     *)
(*                                                                          *)
(* A caller initialises a handle before it sets it, sets no handle that is  *)
(* linked, and keeps the handle alive until its callback has returned.      *)
(* Callbacks do not block.                                                  *)
(****************************************************************************)
EXTENDS Integers, Sequences, FiniteSets, List

CONSTANTS Handle,       \* timeout_handle_t objects
          SlotNum,      \* slot_num, a power of two
          Delays,       \* the timeouts set_timeout is called with, in ms
          Intervals,    \* the intervals set_interval is called with, in ms
          StartMs,      \* get_cur_ms() when the wheel is constructed
          MaxMs,        \* bound: the last time
          MaxJump,      \* bound: the longest time between two steps, in ms
          MaxBack,      \* bound: how often the clock is set back
          NextMayGo     \* callbacks cancel the handle the walk comes to next

ASSUME WheelAssumption ==
    /\ SlotNum \in Nat \ {0}
    /\ Delays \subseteq Nat
    /\ Intervals \subseteq Nat \ {0}
    /\ StartMs \in Nat \ {0}
    /\ NextMayGo \in BOOLEAN
    /\ End \notin Handle

VARIABLES
    clock,      \* get_cur_ms()
    backs,      \* how often the clock was set back
    slots,      \* tw->slots
    now_list,   \* tw->now_list
    timeout,    \* obj->timeout
    interval,   \* obj->interval
    task_num,   \* tw->task_num
    pos,        \* tw->pos
    prev_ms,    \* tw->prev_ms
    now_task,   \* delay_task is linked
    phase,      \* "idle", in "check" or do_now_task ("now"), or in one of their callbacks
    cur_ms,     \* check: its argument
    spos,       \* check: the slot it walks
    end_pos,    \* check: the slot it ends with
    queue,      \* do_now_task: the list it took
    it,         \* the handle whose callback runs
    next        \* `next' of the walk

vars == <<clock, backs, slots, now_list, timeout, interval, task_num, pos,
          prev_ms, now_task, phase, cur_ms, spos, end_pos, queue, it, next>>

time_vars == <<clock, backs>>
handle_vars == <<slots, now_list, timeout, interval, task_num, now_task>>
wheel_vars == <<pos, prev_ms>>
walk_vars == <<phase, cur_ms, spos, end_pos, queue, it, next>>

Slot == 0..(SlotNum - 1)
InSlots == UNION {Elems(slots[i]) : i \in Slot}
Linked == InSlots \cup Elems(now_list) \cup Elems(queue)

\* slot_num_mask is slot_num - 1.
SlotOf(ms) == ms % SlotNum

-----------------------------------------------------------------------------
\* Handles.

\* Mutant: the counter is not taken down.
RemovedKeepsCount(h) ==
    [slots |-> [i \in Slot |-> Unlink(slots[i], h)], task_num |-> task_num]

\* What cancel_timeout makes of the slots and of task_num.
Removed(h) ==
    [slots |-> [i \in Slot |-> Unlink(slots[i], h)],
     task_num |-> IF h \in Linked /\ timeout[h] > 0 THEN task_num - 1 ELSE task_num]

\* Mutant: a time before prev_ms is taken as it is.
ExpiryUnclamped(ms) == clock + ms

\* The expiry time of set_timeout_impl, never before the last check.
Expiry(ms) == IF clock + ms < prev_ms THEN prev_ms ELSE clock + ms

\* The end of set_timeout_impl, on the wheel w that it found.
Insert(w, h, ms, itv) ==
    LET t == Expiry(ms) IN
    /\ timeout' = [timeout EXCEPT ![h] = t]
    /\ interval' = [interval EXCEPT ![h] = itv]
    /\ slots' = [w.slots EXCEPT ![SlotOf(t)] = Append(@, h)]
    /\ task_num' = w.task_num + 1

\* Callbacks, and everybody else while no walk is under way.
UserRuns == phase \in {"idle", "check_fn", "now_fn"}

\* init_timeout_handle and set_timeout with a time that is to come.
SetTimeout(h, ms) ==
    /\ UserRuns
    /\ h \notin Linked
    /\ ms > 0
    /\ Insert([slots |-> slots, task_num |-> task_num], h, ms, 0)
    /\ UNCHANGED <<now_list, now_task, time_vars, wheel_vars, walk_vars>>

\* init_timeout_handle and set_interval.  A callback of do_now_task does not
\* make its own handle periodic: NowReturn would count it twice.
SetInterval(h, itv) ==
    /\ UserRuns
    /\ h \notin Linked
    /\ ~(phase = "now_fn" /\ h = it)
    /\ Insert([slots |-> slots, task_num |-> task_num], h, itv, itv)
    /\ UNCHANGED <<now_list, now_task, time_vars, wheel_vars, walk_vars>>

\* init_timeout_handle, which sets timeout to 0, and set_timeout of 0 ms, which leaves it.
SetNow(h) ==
    /\ UserRuns
    /\ h \notin Linked
    /\ 0 \in Delays
    /\ timeout' = [timeout EXCEPT ![h] = 0]
    /\ interval' = [interval EXCEPT ![h] = 0]
    /\ now_list' = Append(now_list, h)
    /\ now_task' = TRUE
    /\ UNCHANGED <<slots, task_num, time_vars, wheel_vars, walk_vars>>

\* cancel_timeout
Cancel(h) ==
    /\ UserRuns
    /\ h \in Linked
    /\ h = next => NextMayGo
    /\ slots' = Removed(h).slots
    /\ task_num' = Removed(h).task_num
    /\ now_list' = Unlink(now_list, h)
    /\ queue' = Unlink(queue, h)
    /\ UNCHANGED <<timeout, interval, now_task, time_vars, wheel_vars, phase,
                   cur_ms, spos, end_pos, it, next>>

\* check() or do_now_task returns, and its local variables are gone.
WalkOver ==
    /\ phase' = "idle"
    /\ cur_ms' = 0
    /\ spos' = 0
    /\ end_pos' = 0
    /\ it' = End
    /\ next' = End

-----------------------------------------------------------------------------
\* check(get_cur_ms()).

\* Mutant: off by one in the test of task_num.
CheckEmptyOne ==
    /\ phase = "idle"
    /\ task_num <= 1
    /\ pos' = SlotOf(clock)
    /\ prev_ms' = clock
    /\ UNCHANGED <<time_vars, handle_vars, walk_vars>>

\* There is nothing to expire.
CheckEmpty ==
    /\ phase = "idle"
    /\ task_num <= 0
    /\ pos' = SlotOf(clock)
    /\ prev_ms' = clock
    /\ UNCHANGED <<time_vars, handle_vars, walk_vars>>

\* Mutant: the walk ends one slot early.
LastSlotShort(ms) ==
    IF ms - prev_ms >= SlotNum THEN (pos + SlotNum - 1) % SlotNum
    ELSE SlotOf(ms - 1)

\* Mutant: a full turn is not masked.
LastSlotUnmasked(ms) ==
    IF ms - prev_ms >= SlotNum THEN pos + SlotNum - 1 ELSE SlotOf(ms)

\* The slot with which a walk at time ms ends: a full turn after a long pause.
LastSlot(ms) ==
    IF ms - prev_ms >= SlotNum THEN (pos + SlotNum - 1) % SlotNum
    ELSE SlotOf(ms)

\* The walk starts, unless no time has passed since the last one.
CheckBegin ==
    /\ phase = "idle"
    /\ task_num > 0
    /\ clock > prev_ms
    /\ phase' = "check"
    /\ cur_ms' = clock
    /\ spos' = pos
    /\ end_pos' = LastSlot(clock)
    /\ next' = First(slots[pos])
    /\ UNCHANGED <<time_vars, handle_vars, wheel_vars, queue, it>>

\* Mutant: the next handle is read when the one that expires is off the list.
CheckExpireUnsafe ==
    /\ phase = "check"
    /\ next # End
    /\ cur_ms >= timeout[next]
    /\ it' = next
    /\ phase' = "check_fn"
    /\ IF interval[it'] # 0
       THEN Insert(Removed(it'), it', interval[it'], interval[it'])
       ELSE /\ slots' = Removed(it').slots
            /\ task_num' = Removed(it').task_num
            /\ UNCHANGED <<timeout, interval>>
    /\ next' = Succ(slots'[spos], next)
    /\ UNCHANGED <<now_list, now_task, time_vars, wheel_vars, cur_ms, spos,
                   end_pos, queue>>

\* Mutant: a handle that expires is cancelled when its callback has it done.
CheckExpireKeeps ==
    /\ phase = "check"
    /\ next # End
    /\ cur_ms >= timeout[next]
    /\ it' = next
    /\ next' = Succ(slots[spos], next)
    /\ phase' = "check_fn"
    /\ UNCHANGED <<handle_vars, time_vars, wheel_vars, cur_ms, spos, end_pos, queue>>

\* A handle that expires: it is cancelled, set again if it is periodic, and
\* its callback is called.
CheckExpire ==
    /\ phase = "check"
    /\ next # End
    /\ cur_ms >= timeout[next]
    /\ it' = next
    /\ next' = Succ(slots[spos], next)
    /\ phase' = "check_fn"
    /\ IF interval[it'] # 0
       THEN Insert(Removed(it'), it', interval[it'], interval[it'])
       ELSE /\ slots' = Removed(it').slots
            /\ task_num' = Removed(it').task_num
            /\ UNCHANGED <<timeout, interval>>
    /\ UNCHANGED <<now_list, now_task, time_vars, wheel_vars, cur_ms, spos,
                   end_pos, queue>>

\* A handle of a later turn of the wheel.
CheckSkip ==
    /\ phase = "check"
    /\ next # End
    /\ cur_ms < timeout[next]
    /\ next' = Succ(slots[spos], next)
    /\ UNCHANGED <<time_vars, handle_vars, wheel_vars, phase, cur_ms, spos,
                   end_pos, queue, it>>

CheckReturn ==
    /\ phase = "check_fn"
    /\ phase' = "check"
    /\ UNCHANGED <<time_vars, handle_vars, wheel_vars, cur_ms, spos, end_pos,
                   queue, it, next>>

CheckNextSlot ==
    /\ phase = "check"
    /\ next = End
    /\ spos # end_pos
    /\ spos' = (spos + 1) % SlotNum
    /\ next' = First(slots[spos'])
    /\ UNCHANGED <<time_vars, handle_vars, wheel_vars, phase, cur_ms, end_pos,
                   queue, it>>

CheckEnd ==
    /\ phase = "check"
    /\ next = End
    /\ spos = end_pos
    /\ pos' = SlotOf(cur_ms)
    /\ prev_ms' = cur_ms
    /\ WalkOver
    /\ UNCHANGED <<time_vars, handle_vars, queue>>

-----------------------------------------------------------------------------
\* do_now_task.

NowBegin ==
    /\ phase = "idle"
    /\ now_task
    /\ now_task' = FALSE
    /\ queue' = now_list
    /\ now_list' = <<>>
    /\ next' = First(now_list)
    /\ phase' = "now"
    /\ UNCHANGED <<slots, timeout, interval, task_num, time_vars, wheel_vars,
                   cur_ms, spos, end_pos, it>>

NowCall ==
    /\ phase = "now"
    /\ next # End
    /\ it' = next
    /\ next' = Succ(queue, next)
    /\ queue' = Unlink(queue, it')
    /\ phase' = "now_fn"
    /\ UNCHANGED <<handle_vars, time_vars, wheel_vars, cur_ms, spos, end_pos>>

\* After the callback the handle is looked at once more, and set again if the
\* callback made it periodic.
NowReturn ==
    /\ phase = "now_fn"
    /\ phase' = "now"
    /\ IF interval[it] # 0
       THEN Insert([slots |-> [i \in Slot |-> Unlink(slots[i], it)],
                    task_num |-> task_num], it, interval[it], interval[it])
       ELSE UNCHANGED <<slots, timeout, interval, task_num>>
    /\ UNCHANGED <<now_list, now_task, time_vars, wheel_vars, cur_ms, spos,
                   end_pos, queue, it, next>>

NowEnd ==
    /\ phase = "now"
    /\ next = End
    /\ WalkOver
    /\ UNCHANGED <<handle_vars, time_vars, wheel_vars, queue>>

-----------------------------------------------------------------------------
\* Time passes, also while callbacks run.
Tick(ms) ==
    /\ clock + ms <= MaxMs
    /\ clock' = clock + ms
    /\ UNCHANGED <<backs, handle_vars, wheel_vars, walk_vars>>

\* gettimeofday is set back, between two walks.
SetBack ==
    /\ phase = "idle"
    /\ backs < MaxBack
    /\ clock > StartMs
    /\ clock' = clock - 1
    /\ backs' = backs + 1
    /\ UNCHANGED <<handle_vars, wheel_vars, walk_vars>>

\* timewheel_t(): do_now_task is registered from the start.
Init ==
    /\ clock = StartMs
    /\ backs = 0
    /\ slots = [i \in Slot |-> <<>>]
    /\ now_list = <<>>
    /\ timeout = [h \in Handle |-> 0]
    /\ interval = [h \in Handle |-> 0]
    /\ task_num = 0
    /\ pos = SlotOf(StartMs)
    /\ prev_ms = StartMs
    /\ now_task = TRUE
    /\ phase = "idle"
    /\ cur_ms = 0
    /\ spos = 0
    /\ end_pos = 0
    /\ queue = <<>>
    /\ it = End
    /\ next = End

\* The steps of check() and of do_now_task.
CheckStep == \/ CheckBegin \/ CheckExpire \/ CheckSkip \/ CheckReturn
             \/ CheckNextSlot \/ CheckEnd
NowStep == NowBegin \/ NowCall \/ NowReturn \/ NowEnd

Next ==
    \/ \E h \in Handle, ms \in Delays : SetTimeout(h, ms)
    \/ \E h \in Handle, itv \in Intervals : SetInterval(h, itv)
    \/ \E h \in Handle : SetNow(h)
    \/ \E h \in Handle : Cancel(h)
    \/ CheckEmpty
    \/ CheckStep
    \/ NowStep
    \/ \E ms \in 1..MaxJump : Tick(ms)
    \/ SetBack

Spec == Init /\ [][Next]_vars

(****************************************************************************)
(* Time goes on.  Callbacks return.  Each round of the dispatch loop first  *)
(* polls the timerfd, on whose event the coroutine of the wheel calls       *)
(* check(), and then runs the delayed tasks: neither starves the other.     *)
(****************************************************************************)
Fairness ==
    /\ WF_vars(\E ms \in 1..MaxJump : Tick(ms))
    /\ SF_vars(CheckBegin)
    /\ SF_vars(NowBegin)
    /\ WF_vars(CheckStep)
    /\ WF_vars(NowStep)

FairSpec == Spec /\ Fairness

-----------------------------------------------------------------------------
\* Properties.

\* Every variable has its type.
TypeOK ==
    /\ clock \in Nat
    /\ backs \in Nat
    /\ slots \in [Slot -> Seq(Handle)]
    /\ now_list \in Seq(Handle)
    /\ timeout \in [Handle -> Nat]
    /\ interval \in [Handle -> Nat]
    /\ task_num \in Int
    /\ pos \in Slot
    /\ prev_ms \in Nat
    /\ now_task \in BOOLEAN
    /\ phase \in {"idle", "check", "check_fn", "now", "now_fn"}
    /\ cur_ms \in Nat
    /\ spos \in Slot
    /\ end_pos \in Slot
    /\ queue \in Seq(Handle)
    /\ it \in Handle \cup {End}
    /\ next \in Handle \cup {End}

\* task_num counts the handles in the slots, whatever callbacks set and cancel:
\* the shortcut of check() never passes over a timer (set_timeout_impl,
\* cancel_timeout, check).
CountOK == task_num = Cardinality(InSlots)

\* When check() comes to an end, or takes its shortcut, no timer that was due
\* by then is left in the wheel: not after a pause longer than a turn, not when
\* the clock was set back, not when callbacks set timers into slots the walk has
\* passed (check, set_timeout_impl).
NothingOverdue ==
    [][(phase = "check" /\ phase' = "idle") \/ prev_ms' # prev_ms =>
          \A h \in InSlots' : timeout'[h] > prev_ms']_vars

\* The handle that a walk has cached as `next' is on the list that it walks, so
\* the walk goes on along that list and ends (check, do_now_task).
WalkOnList ==
    /\ phase \in {"check", "check_fn"} /\ next # End => next \in Elems(slots[spos])
    /\ phase \in {"now", "now_fn"} /\ next # End => next \in Elems(queue)

\* The wheel is a set of deadlines: a callback runs only for a timer that is set
\* and due, once per time it was set, and never for one that was cancelled.
Deadlines ==
    [h \in Handle |-> IF h \in InSlots THEN timeout[h]
                      ELSE IF h \in Elems(now_list) \cup Elems(queue) THEN 0
                      ELSE -1]
Abstract == INSTANCE Timers
    WITH Off <- -1, Nobody <- End, now <- clock, deadline <- Deadlines,
         fn <- IF phase \in {"check_fn", "now_fn"} THEN it ELSE End
ImplementsTimers == Abstract!TSpec

\* A timer that is set is taken down or moved in the end: it expires or is
\* cancelled.
Expires ==
    \A h \in Handle, t \in 0..(MaxMs - 1) :
        (h \in Linked /\ timeout[h] = t) ~> ~(h \in Linked /\ timeout[h] = t)
=============================================================================
