------------------------------ MODULE WaitQueue ------------------------------
(****************************************************************************)
(* One WaitQueue of one thread and the CondWaitQueue around it              *)
(* (core/src/wait_queue.cpp).  A coroutine that waits links an item of its  *)
(* own stack; a wake-up walks the queue with list_for_each_entry_safe,      *)
(* unlinks each item and resumes its coroutine, which runs inside the walk  *)
(* until it blocks, and may wait on the same queue again.                   *)
(*                                                                          *)
(* Resumed coroutines form a chain: stack holds it, the last one runs, and  *)
(* the dispatch loop runs when it is empty.  An item is named by its        *)
(* coroutine.                                                               *)
(*                                                                          *)
(* Callers, as those in the repository do, wake the queue inside a walk of  *)
(* it only when that walk has no item ahead, and do not wait on it while it *)
(* is destroyed.                                                            *)
(****************************************************************************)
EXTENDS Integers, Sequences, FiniteSets, List

CONSTANTS Co,       \* coroutines
          Tw,       \* the coroutine of the timer wheel, which runs the callbacks
          Nums      \* the arguments of wakeup_head_n and wakeup_tail_n

ASSUME WaitAssumption ==
    /\ Nums \subseteq Int
    /\ Tw \notin Co
    /\ End \notin Co

VARIABLES
    queue,      \* WaitQueue::queue
    wait_num,   \* WaitQueue::wait_num
    alive,      \* "yes", "dying" in the destructor, or "no"
    pc,         \* "run", "wait" in wait_on, or "away": blocked elsewhere
    timer,      \* the coroutines whose WaitItem::tm is set
    armed,      \* CondWaitQueue::tm is set
    stack,      \* the chain of resumed coroutines
    walk        \* the wake-up each of them is in

vars == <<queue, wait_num, alive, pc, timer, armed, stack, walk>>

Walker == Co \cup {Tw}
NoWalk == [next |-> End, left |-> 0, back |-> FALSE, owed |-> {}, again |-> {},
           on |-> FALSE]
Unlimited == -1

Backwards(s) == [i \in 1..Len(s) |-> s[Len(s) + 1 - i]]
Order(back) == IF back THEN Backwards(queue) ELSE queue

Runs(c) == stack # <<>> /\ Last(stack) = c /\ ~walk[c].on

\* No walk has an item ahead of it.
NoneAhead == \A w \in Walker : walk[w].on => walk[w].next = End \/ walk[w].left = 0

-----------------------------------------------------------------------------
\* Coroutines.

\* The dispatch loop resumes a coroutine for a reason of its own.
LoopResume(c) ==
    /\ stack = <<>>
    /\ pc[c] = "away"
    /\ pc' = [pc EXCEPT ![c] = "run"]
    /\ stack' = <<c>>
    /\ UNCHANGED <<queue, wait_num, alive, timer, armed, walk>>

\* A coroutine blocks elsewhere.
Block(c) ==
    /\ Runs(c)
    /\ pc' = [pc EXCEPT ![c] = "away"]
    /\ stack' = Front(stack)
    /\ UNCHANGED <<queue, wait_num, alive, timer, armed, walk>>

\* Mutant: the walk takes the head of the queue until the queue is empty.
WaitOnWhileNotEmpty(c, timed) ==
    /\ Runs(c)
    /\ alive = "yes"
    /\ queue' = Append(queue, c)
    /\ wait_num' = wait_num + 1
    /\ timer' = IF timed THEN timer \cup {c} ELSE timer
    /\ pc' = [pc EXCEPT ![c] = "wait"]
    /\ stack' = Front(stack)
    /\ walk' = [w \in Walker |->
                  IF walk[w].on
                  THEN [walk[w] EXCEPT !.again = @ \cup {c},
                                       !.next = IF @ = End THEN c ELSE @]
                  ELSE walk[w]]
    /\ UNCHANGED <<alive, armed>>

\* wait_on(ms) up to its yield; timed when ms >= 0.
WaitOn(c, timed) ==
    /\ Runs(c)
    /\ alive = "yes"
    /\ queue' = Append(queue, c)
    /\ wait_num' = wait_num + 1
    /\ timer' = IF timed THEN timer \cup {c} ELSE timer
    /\ pc' = [pc EXCEPT ![c] = "wait"]
    /\ stack' = Front(stack)
    /\ walk' = [w \in Walker |->
                  [walk[w] EXCEPT !.again = IF walk[w].on THEN @ \cup {c} ELSE @]]
    /\ UNCHANGED <<alive, armed>>

\* resume() of a coroutine in wait_on, and the rest of wait_on.
Resumed(c) ==
    /\ pc' = [pc EXCEPT ![c] = "run"]
    /\ wait_num' = wait_num - 1
    /\ timer' = timer \ {c}
    /\ stack' = Append(stack, c)

-----------------------------------------------------------------------------
\* Wake-ups.

\* Mutant: the walk starts at the second item.
WalkingSecond(w, back, num) ==
    [walk EXCEPT ![w] = [next |-> IF queue = <<>> THEN End
                                  ELSE Succ(Order(back), First(Order(back))),
                         left |-> num, back |-> back,
                         owed |-> Elems(queue), again |-> {}, on |-> TRUE]]

\* w starts to walk the queue, from its tail if back, for at most num items.
Walking(w, back, num) ==
    [walk EXCEPT ![w] = [next |-> First(Order(back)), left |-> num, back |-> back,
                         owed |-> Elems(queue), again |-> {}, on |-> TRUE]]

\* wakeup_all
wakeup_all(c) ==
    /\ Runs(c)
    /\ alive = "yes" /\ NoneAhead
    /\ walk' = Walking(c, FALSE, Unlimited)
    /\ UNCHANGED <<queue, wait_num, alive, pc, timer, armed, stack>>

\* wakeup_head_n and wakeup_tail_n: the count is tested after an item is woken.
\* wakeup_head and wakeup_tail are the case of num = 1.
wakeup_n(c, back, num) ==
    /\ Runs(c)
    /\ alive = "yes" /\ NoneAhead
    /\ walk' = Walking(c, back, IF num < 1 THEN 1 ELSE num)
    /\ UNCHANGED <<queue, wait_num, alive, pc, timer, armed, stack>>

\* ~WaitQueue
Destroy(c) ==
    /\ Runs(c)
    /\ alive = "yes"
    /\ \A w \in Walker : ~walk[w].on
    /\ alive' = "dying"
    /\ walk' = Walking(c, FALSE, Unlimited)
    /\ UNCHANGED <<queue, wait_num, pc, timer, armed, stack>>

\* Mutant: the next item is read from x when x has been unlinked, and is x then.
WalkStepUnsafe(w) ==
    LET x == walk[w].next IN
    /\ stack # <<>> /\ Last(stack) = w
    /\ walk[w].on /\ x # End /\ walk[w].left # 0
    /\ queue' = Unlink(queue, x)
    /\ Resumed(x)
    /\ walk' = [walk EXCEPT ![w].next = x,
                            ![w].left = IF @ > 0 THEN @ - 1 ELSE @,
                            ![w].owed = @ \ {x}]
    /\ UNCHANGED <<alive, armed>>

\* The body of the loop: the item after x is read before x is resumed.
WalkStep(w) ==
    LET x == walk[w].next IN
    /\ stack # <<>> /\ Last(stack) = w
    /\ walk[w].on /\ x # End /\ walk[w].left # 0
    /\ queue' = Unlink(queue, x)
    /\ Resumed(x)
    /\ walk' = [walk EXCEPT ![w].next = Succ(Order(walk[w].back), x),
                            ![w].left = IF @ > 0 THEN @ - 1 ELSE @,
                            ![w].owed = @ \ {x}]
    /\ UNCHANGED <<alive, armed>>

\* The loop ends; the coroutine of the wheel goes back to the dispatch loop.
WalkEnd(w) ==
    /\ stack # <<>> /\ Last(stack) = w
    /\ walk[w].on
    /\ walk[w].next = End \/ walk[w].left = 0
    /\ walk' = [walk EXCEPT ![w] = NoWalk]
    /\ alive' = IF alive = "dying" THEN "no" ELSE alive
    /\ stack' = IF w = Tw THEN Front(stack) ELSE stack
    /\ UNCHANGED <<queue, wait_num, pc, timer, armed>>

-----------------------------------------------------------------------------
\* Timers.

\* Mutant: the item stays on the queue.
ItemTimeoutLinked(c) ==
    /\ stack = <<>>
    /\ c \in timer
    /\ queue' = queue
    /\ Resumed(c)
    /\ UNCHANGED <<alive, armed, walk>>

\* wait_queue_item_timeout: wait_on returns -1.
ItemTimeout(c) ==
    /\ stack = <<>>
    /\ c \in timer
    /\ queue' = Unlink(queue, c)
    /\ Resumed(c)
    /\ UNCHANGED <<alive, armed, walk>>

\* CondWaitQueue::wakeup_all, when cond_check_func gives ready.
CondWakeupAll(c, ready) ==
    /\ Runs(c)
    /\ alive = "yes" /\ (ready => NoneAhead)
    /\ armed' = ~ready
    /\ walk' = IF ready THEN Walking(c, FALSE, Unlimited) ELSE walk
    /\ UNCHANGED <<queue, wait_num, alive, pc, timer, stack>>

\* timeout_proc of a CondWaitQueue.  Nothing cancels tm when the object is destroyed: what
\* its expiry does to freed memory is left out.
timeout_proc ==
    /\ stack = <<>>
    /\ armed /\ alive = "yes"
    /\ armed' = FALSE
    /\ stack' = <<Tw>>
    /\ walk' = Walking(Tw, FALSE, Unlimited)
    /\ UNCHANGED <<queue, wait_num, alive, pc, timer>>

-----------------------------------------------------------------------------
Init ==
    /\ queue = <<>> /\ wait_num = 0 /\ alive = "yes"
    /\ pc = [c \in Co |-> "away"]
    /\ timer = {} /\ armed = FALSE
    /\ stack = <<>>
    /\ walk = [w \in Walker |-> NoWalk]

Next ==
    \/ \E c \in Co :
        \/ LoopResume(c)
        \/ Block(c)
        \/ \E timed \in BOOLEAN : WaitOn(c, timed)
        \/ wakeup_all(c)
        \/ \E back \in BOOLEAN, num \in Nums : wakeup_n(c, back, num)
        \/ Destroy(c)
        \/ ItemTimeout(c)
        \/ \E ready \in BOOLEAN : CondWakeupAll(c, ready)
    \/ \E w \in Walker : WalkStep(w) \/ WalkEnd(w)
    \/ timeout_proc

\* The loop of a wake-up goes on when the coroutine it resumed has come back, and
\* a coroutine that runs gives the processor up some time: it is never preempted.
Fairness ==
    /\ \A w \in Walker : WF_vars(WalkStep(w) \/ WalkEnd(w))
    /\ \A c \in Co : SF_vars(Block(c) \/ \E timed \in BOOLEAN : WaitOn(c, timed))

Spec == Init /\ [][Next]_vars /\ Fairness

-----------------------------------------------------------------------------
TypeOK ==
    /\ queue \in Seq(Co)
    /\ wait_num \in Nat
    /\ alive \in {"yes", "dying", "no"}
    /\ pc \in [Co -> {"run", "wait", "away"}]
    /\ timer \subseteq Co
    /\ armed \in BOOLEAN
    /\ stack \in Seq(Walker)
    /\ walk \in [Walker -> [next : Co \cup {End}, left : Int, back : BOOLEAN,
                            owed : SUBSET Co, again : SUBSET Co, on : BOOLEAN]]

\* The items linked, counted in wait_num, and with a timer, are those of the
\* coroutines that sleep in wait_on: no coroutine sleeps where no wake-up finds
\* it, and no list and no timer keeps an item of a stack frame that is gone.
ItemsOfSleepers ==
    /\ Elems(queue) = {c \in Co : pc[c] = "wait"}
    /\ NoDup(queue)
    /\ wait_num = Len(queue)
    /\ timer \subseteq Elems(queue)

\* The item that a walk has read ahead is on the queue when the walk comes to it,
\* though the coroutines it resumed in between have waited again (wait_queue.cpp:164).
WalkOnQueue ==
    \A w \in Walker :
        walk[w].on /\ walk[w].left # 0 /\ walk[w].next # End
            => walk[w].next \in Elems(queue)

\* wakeup_all and the destructor return only when every coroutine that waited when
\* they were called has been resumed.
AllWoken ==
    [][\A w \in Walker :
        WalkEnd(w) /\ walk[w].left = Unlimited => walk[w].owed = {}]_vars

\* A wake-up returns, unless two coroutines wait again while it runs: it comes to
\* each of them again and again then, for they are appended to the list it walks.
WalkReturns ==
    \A w \in Walker :
        walk[w].on ~> (~walk[w].on \/ Cardinality(walk[w].again) >= 2)
=============================================================================
