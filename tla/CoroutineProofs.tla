--------------------------- MODULE CoroutineProofs ---------------------------
(****************************************************************************)
(* Proofs about Coroutine, for every set of user coroutines and every       *)
(* MaxGen: the types, the inductive invariant with the steps that switch    *)
(* from one coroutine to another, the steps that leave the waiting          *)
(* coroutines alone or end one, the induction and the theorems it gives.    *)
(****************************************************************************)
EXTENDS Coroutine, ListProofs, TLAPS

\* An incarnation is a pair.
LEMMA IncFacts ==
    /\ NoInc \notin Inc
    /\ \A n \in Inc : n = <<n[1], n[2]>> /\ n[1] \in Co /\ n[2] \in 0..MaxGen
    /\ \A c \in Co, g \in 0..MaxGen :
         <<c, g>> \in Inc /\ <<c, g>>[1] = c /\ <<c, g>>[2] = g
BY DEF NoInc, Inc

\* The three kinds of tasks are told apart by their kind.
LEMMA TaskFacts ==
    /\ \A n : ExitTask(n) # DelTask /\ ExitTask(n).inc = n /\ ExitTask(n).kind = "exit"
    /\ \A c : BackTask(c) # DelTask /\ BackTask(c).co = c /\ BackTask(c).kind = "back"
    /\ \A n, c : ExitTask(n) # BackTask(c)
    /\ DelTask.kind = "del"
    /\ DelTask \in Task
    /\ \A n \in Inc : ExitTask(n) \in Task
    /\ \A c \in Co : BackTask(c) \in Task
    /\ \A t \in Task : t.kind = "exit" => t.inc \in Inc /\ t = ExitTask(t.inc)
    /\ \A t \in Task : t.kind = "back" => t.co \in Co /\ t = BackTask(t.co)
<1>1. \A n : ExitTask(n).kind = "exit" /\ ExitTask(n).inc = n
  BY DEF ExitTask
<1>2. \A c : BackTask(c).kind = "back" /\ BackTask(c).co = c
  BY DEF BackTask
<1>3. DelTask.kind = "del"
  BY DEF DelTask
<1>. QED BY <1>1, <1>2, <1>3 DEF Task

-----------------------------------------------------------------------------
\* Type correctness.

TypeJump ==
    /\ curr_co \in Co
    /\ run_queue \in Seq(Co)
    /\ state \in [Co -> {"FREE", "CREATE", "RUNNING", "SUSPEND", "STOP"}]
    /\ value \in Int

TypeWait ==
    /\ pc \in [Co -> {"run", "yield", "poll", "back", "wait", "twait"}]
    /\ target \in [Co -> Inc \cup {NoInc}]
    /\ timers \subseteq User
    /\ exit_queue \in [Co -> Seq(Co)]
    /\ notify_queue \in [Inc -> Seq(Co)]

TypeLife ==
    /\ gen \in [Co -> 0..MaxGen]
    /\ is_end_delete \in [Co -> BOOLEAN]

TypeTask ==
    /\ delay_tasks \in Seq(Task)
    /\ delay_del_list \in Seq(Co)

TypeLoop ==
    /\ stage \in {"boot", "idle", "net", "delay"}
    /\ ready \subseteq Co
    /\ stage # "net" => ready = {}
    /\ last_events \in BOOLEAN
    /\ delay_list \in Seq(Task)
    /\ note \in Inc \cup {NoInc}
    /\ stage # "delay" => delay_list = <<>> /\ note = NoInc
    /\ next_it \in Co \cup {End}
    /\ note = NoInc => next_it = End

\* TypeOK is the conjunction of its groups.
LEMMA TypeSplit ==
    /\ TypeOK <=> TypeJump /\ TypeWait /\ TypeLife /\ TypeTask /\ TypeLoop
    /\ TypeOK' <=> TypeJump' /\ TypeWait' /\ TypeLife' /\ TypeTask' /\ TypeLoop'
BY DEF TypeOK, TypeJump, TypeWait, TypeLife, TypeTask, TypeLoop

\* resume() keeps the types.
LEMMA TypeOfJumpTo ==
    ASSUME TypeOK, NEW x \in Co, NEW v \in Int, JumpTo(x, v)
    PROVE  TypeJump' /\ TypeWait'
<1>1. TypeJump'
  BY UnlinkFacts, AppendFacts DEF JumpTo, TypeOK, TypeJump
<1>2. exit_queue' \in [Co -> Seq(Co)] /\ notify_queue' \in [Inc -> Seq(Co)]
  <2>1. CASE target[x] = NoInc
    BY <2>1 DEF JumpTo, UnlinkWaiter, TypeOK
  <2>2. CASE target[x] # NoInc
    <3>1. target[x] \in Inc /\ target[x][1] \in Co
      BY <2>2 DEF TypeOK, Inc
    <3>2. /\ Unlink(exit_queue[target[x][1]], x) \in Seq(Co)
          /\ Unlink(notify_queue[target[x]], x) \in Seq(Co)
      BY <3>1, UnlinkFacts DEF TypeOK
    <3>. QED BY <2>2, <3>1, <3>2, Zenon DEF JumpTo, UnlinkWaiter, TypeOK
  <2>. QED BY <2>1, <2>2
<1>3. TypeWait'
  BY <1>2, Zenon DEF JumpTo, LeaveWait, TypeOK, TypeWait
<1>. QED BY <1>1, <1>3

\* yield() and co_return_p() keep the types.
LEMMA TypeOfJumpBack ==
    ASSUME TypeOK, JumpBack("SUSPEND") \/ JumpBack("STOP")
    PROVE  TypeJump'
<1>1. Last(run_queue) \in Co /\ Front(run_queue) \in Seq(Co)
  BY FrontFacts DEF JumpBack, TypeOK
<1>2. PICK st \in {"SUSPEND", "STOP"} : JumpBack(st)
  OBVIOUS
<1>3. state' \in [Co -> {"FREE", "CREATE", "RUNNING", "SUSPEND", "STOP"}]
  <2>. DEFINE mid == [state EXCEPT ![curr_co] = st]
  <2>1. mid \in [Co -> {"FREE", "CREATE", "RUNNING", "SUSPEND", "STOP"}]
    BY DEF TypeOK
  <2>2. state' = [mid EXCEPT ![Last(run_queue)] = "RUNNING"]
    BY <1>2 DEF JumpBack
  <2>. QED BY <2>1, <2>2, Zenon
<1>. QED BY <1>1, <1>2, <1>3 DEF JumpBack, TypeJump

\* Every step keeps the types.
LEMMA TypeStep ==
    TypeOK /\ [Next]_vars => TypeOK'
<1>. SUFFICES ASSUME TypeOK, [Next]_vars
              PROVE  TypeOK'
  OBVIOUS
<1>. USE TypeSplit, CoAssumption
<1>0. User \subseteq Co /\ Main \in Co /\ Tw \in Co
  BY DEF Co
<1>1. CASE StartWheel
  <2>1. TypeJump' /\ TypeWait'
    BY <1>0, <1>1, TypeOfJumpTo DEF StartWheel
  <2>2. TypeLife' /\ TypeTask' /\ TypeLoop'
    BY <1>1 DEF StartWheel, TypeLife, TypeTask, TypeLoop, life_vars, task_vars
  <2>. QED BY <2>1, <2>2
<1>2. ASSUME NEW x \in User, NEW ad \in BOOLEAN, Alloc(x, ad)
      PROVE  TypeOK'
  <2>1. gen' \in [Co -> 0..MaxGen]
    <3>1. gen[x] + 1 \in 0..MaxGen
      BY <1>0, <1>2 DEF Alloc, TypeLife
    <3>. QED BY <1>0, <1>2, <3>1 DEF Alloc, TypeLife
  <2>2. is_end_delete' \in [Co -> BOOLEAN]
    BY <1>2, Zenon DEF Alloc, TypeLife
  <2>3. TypeJump'
    <3>1. state' = [state EXCEPT ![x] = "CREATE"] /\ value' = 0
      BY <1>2 DEF Alloc
    <3>2. curr_co' = curr_co /\ run_queue' = run_queue
      BY <1>2 DEF Alloc
    <3>3. state' \in [Co -> {"FREE", "CREATE", "RUNNING", "SUSPEND", "STOP"}]
      BY <3>1, Zenon DEF TypeJump
    <3>4. value' \in Int
      BY <3>1
    <3>. QED BY <3>2, <3>3, <3>4 DEF TypeJump
  <2>4. TypeWait' /\ TypeTask' /\ TypeLoop'
    BY <1>2 DEF Alloc, TypeWait, TypeTask, TypeLoop, wait_vars, task_vars, loop_vars
  <2>. QED BY <2>1, <2>2, <2>3, <2>4 DEF TypeLife
<1>3. ASSUME NEW x \in User, Resume(x)
      PROVE  TypeOK'
  <2>1. TypeJump' /\ TypeWait'
    BY <1>0, <1>3, TypeOfJumpTo DEF Resume
  <2>2. TypeLife' /\ TypeTask' /\ TypeLoop'
    BY <1>3 DEF Resume, TypeLife, TypeTask, TypeLoop, life_vars, task_vars, loop_vars
  <2>. QED BY <2>1, <2>2
<1>4. CASE Yield
  <2>1. TypeJump'
    BY <1>4, TypeOfJumpBack DEF Yield, Park
  <2>2. TypeWait' /\ TypeLife' /\ TypeTask' /\ TypeLoop'
    BY <1>4, Zenon DEF Yield, Park, TypeWait, TypeLife, TypeTask, TypeLoop, life_vars,
                wait_vars, task_vars, loop_vars
  <2>. QED BY <2>1, <2>2
<1>5. CASE Poll
  <2>1. TypeJump'
    BY <1>5, TypeOfJumpBack DEF Poll, Park
  <2>2. TypeWait' /\ TypeLife' /\ TypeTask' /\ TypeLoop'
    BY <1>5, Zenon DEF Poll, Park, TypeWait, TypeLife, TypeTask, TypeLoop, life_vars,
                wait_vars, task_vars, loop_vars
  <2>. QED BY <2>1, <2>2
<1>6. CASE DelayBack
  <2>1. TypeJump'
    BY <1>6, TypeOfJumpBack DEF DelayBack, Park
  <2>2. TypeWait' /\ TypeLife' /\ TypeLoop'
    BY <1>6, Zenon DEF DelayBack, Park, TypeWait, TypeLife, TypeLoop, life_vars,
                wait_vars, loop_vars
  <2>3. TypeTask'
    BY <1>6, TaskFacts, AppendFacts DEF DelayBack, Delayed, TypeTask, TypeJump
  <2>. QED BY <2>1, <2>2, <2>3
<1>7. ASSUME NEW x \in User, WaitEnded(x)
      PROVE  TypeOK'
  <2>1. TypeJump'
    <3>1. value' \in Int
      BY <1>0, <1>7 DEF WaitEnded, TypeLife
    <3>. QED BY <1>7, <3>1 DEF WaitEnded, TypeJump
  <2>2. TypeWait' /\ TypeLife' /\ TypeTask' /\ TypeLoop'
    BY <1>7 DEF WaitEnded, TypeWait, TypeLife, TypeTask, TypeLoop, life_vars,
                wait_vars, task_vars, loop_vars
  <2>. QED BY <2>1, <2>2
<1>8. ASSUME NEW x \in User, NEW timed \in BOOLEAN, Wait(x, timed)
      PROVE  TypeOK'
  <2>1. TypeJump'
    BY <1>8, TypeOfJumpBack DEF Wait, Park
  <2>2. TypeLife' /\ TypeTask' /\ TypeLoop'
    BY <1>8 DEF Wait, TypeLife, TypeTask, TypeLoop, life_vars, task_vars, loop_vars
  <2>3. exit_queue' \in [Co -> Seq(Co)] /\ notify_queue' \in [Inc -> Seq(Co)]
    BY <1>0, <1>8, AppendFacts DEF Wait, TypeWait, TypeJump
  <2>4. target' \in [Co -> Inc \cup {NoInc}]
    <3>1. <<x, gen[x]>> \in Inc
      BY <1>0 DEF Inc, TypeLife
    <3>. QED BY <1>8, <3>1, Zenon DEF Wait, TypeWait
  <2>5. TypeWait'
    BY <1>8, <2>3, <2>4 DEF Wait, Park, TypeWait
  <2>. QED BY <2>1, <2>2, <2>5
<1>9. CASE Exit
  <2>1. TypeJump'
    BY <1>9, TypeOfJumpBack DEF Exit
  <2>2. TypeLife' /\ TypeLoop'
    BY <1>9 DEF Exit, TypeLife, TypeLoop, life_vars, loop_vars
  <2>3. TypeWait'
    <3>1. exit_queue' \in [Co -> Seq(Co)]
      <4>1. <<>> \in Seq(Co)
        OBVIOUS
      <4>. QED BY <1>9, <4>1, Zenon DEF Exit, TypeWait
    <3>2. notify_queue' \in [Inc -> Seq(Co)]
      <4>1. exit_queue[curr_co] \in Seq(Co)
        BY DEF TypeWait, TypeJump
      <4>. QED BY <1>9, <4>1, Zenon DEF Exit, TypeWait
    <3>. QED BY <1>9, <3>1, <3>2 DEF Exit, TypeWait
  <2>4. TypeTask'
    <3>1. curr_co \in Co /\ <<curr_co, gen[curr_co]>> \in Inc
      BY DEF TypeJump, TypeLife, Inc
    <3>2. delay_tasks' \in Seq(Task)
      BY <1>9, <3>1, TaskFacts, AppendFacts DEF Exit, ExitTasks, Delayed, TypeTask
    <3>3. delay_del_list' \in Seq(Co)
      BY <1>9, <3>1, AppendFacts DEF Exit, TypeTask
    <3>. QED BY <3>2, <3>3 DEF TypeTask
  <2>. QED BY <2>1, <2>2, <2>3, <2>4
<1>10. ASSUME NEW x \in User, Free(x)
       PROVE  TypeOK'
  BY <1>0, <1>10 DEF Free, TypeOK, life_vars, wait_vars, task_vars, loop_vars
<1>11. ASSUME NEW x \in User, TimerFires(x)
       PROVE  TypeOK'
  <2>1. TypeJump' /\ TypeWait'
    BY <1>0, <1>11, TypeOfJumpTo DEF TimerFires
  <2>2. TypeLife' /\ TypeTask' /\ TypeLoop'
    BY <1>11 DEF TimerFires, TypeLife, TypeTask, TypeLoop, life_vars, task_vars,
                 loop_vars
  <2>. QED BY <2>1, <2>2
<1>12. CASE BeginDispatch
  <2>1. TypeJump' /\ TypeWait' /\ TypeLife' /\ TypeTask'
    BY <1>12 DEF BeginDispatch, TypeJump, TypeWait, TypeLife, TypeTask, life_vars,
                 wait_vars, task_vars
  <2>2. ready' \subseteq Co
    BY <1>12 DEF BeginDispatch, Polling
  <2>3. TypeLoop'
    BY <1>12, <2>2 DEF BeginDispatch, TypeLoop
  <2>. QED BY <2>1, <2>3
<1>13. ASSUME NEW x \in Co, NetResume(x)
       PROVE  TypeOK'
  <2>1. TypeJump' /\ TypeWait'
    BY <1>13, TypeOfJumpTo DEF NetResume
  <2>2. TypeLife' /\ TypeTask' /\ TypeLoop'
    BY <1>13 DEF NetResume, TypeLife, TypeTask, TypeLoop, life_vars, task_vars
  <2>. QED BY <2>1, <2>2
<1>14. CASE TakeDelayTasks
  BY <1>14 DEF TakeDelayTasks, TypeOK, life_vars, wait_vars
<1>15. CASE BeginNotify
  <2>1. /\ Head(delay_list) \in Task
        /\ Tail(delay_list) \in Seq(Task)
        /\ Head(delay_list).inc \in Inc
    BY <1>15, TailFacts, TaskFacts DEF BeginNotify, AtTask, TypeLoop
  <2>2. note' \in Inc /\ next_it' \in Co \cup {End}
    BY <1>15, <2>1, TailFacts DEF BeginNotify, First, TypeWait
  <2>3. TypeLoop'
    BY <1>15, <2>1, <2>2, IncFacts DEF BeginNotify, AtTask, TypeLoop
  <2>4. TypeJump' /\ TypeWait' /\ TypeLife' /\ TypeTask'
    BY <1>15 DEF BeginNotify, TypeJump, TypeWait, TypeLife, TypeTask, life_vars,
                 wait_vars, task_vars
  <2>. QED BY <2>3, <2>4
<1>16. CASE NotifyOne
  <2>1. next_it \in Co /\ note \in Inc /\ note[2] \in Int
    BY <1>16 DEF NotifyOne, TypeLoop, Inc
  <2>2. next_it' \in Co \cup {End}
    BY <1>16, <2>1, SuccType DEF NotifyOne, TypeWait
  <2>3. TypeLife' /\ TypeTask' /\ TypeLoop'
    BY <1>16, <2>1, <2>2 DEF NotifyOne, TypeLife, TypeTask, TypeLoop, life_vars,
                             task_vars
  <2>4. TypeJump' /\ TypeWait'
    <3>1. CASE state[next_it] # "STOP"
      BY <1>16, <2>1, <3>1, TypeOfJumpTo DEF NotifyOne
    <3>2. CASE state[next_it] = "STOP"
      <4>1. exit_queue' \in [Co -> Seq(Co)] /\ notify_queue' \in [Inc -> Seq(Co)]
        <5>1. CASE target[next_it] = NoInc
          BY <1>16, <3>2, <5>1 DEF NotifyOne, UnlinkWaiter, TypeWait
        <5>2. CASE target[next_it] # NoInc
          <6>1. target[next_it] \in Inc /\ target[next_it][1] \in Co
            BY <2>1, <5>2 DEF TypeWait, Inc
          <6>2. /\ Unlink(exit_queue[target[next_it][1]], next_it) \in Seq(Co)
                /\ Unlink(notify_queue[target[next_it]], next_it) \in Seq(Co)
            BY <6>1, UnlinkFacts DEF TypeWait
          <6>3. UnlinkWaiter(next_it)
            BY <1>16, <3>2 DEF NotifyOne
          <6>4. exit_queue' \in [Co -> Seq(Co)]
            BY <5>2, <6>1, <6>2, <6>3, Zenon DEF UnlinkWaiter, TypeWait
          <6>. QED BY <5>2, <6>1, <6>2, <6>3, <6>4, Zenon DEF UnlinkWaiter, TypeWait
        <5>. QED BY <5>1, <5>2
      <4>. QED BY <1>16, <3>2, <4>1 DEF NotifyOne, TypeWait, TypeJump
    <3>. QED BY <3>1, <3>2
  <2>. QED BY <2>3, <2>4
<1>17. CASE EndNotify
  BY <1>17 DEF EndNotify, TypeOK, life_vars, wait_vars, task_vars
<1>18. CASE DeleteEnded
  <2>1. Tail(delay_list) \in Seq(Task)
    BY <1>18, TailFacts DEF DeleteEnded, AtTask, TypeLoop
  <2>2. TypeJump'
    BY <1>18 DEF DeleteEnded, TypeJump
  <2>3. TypeWait' /\ TypeLife'
    BY <1>18 DEF DeleteEnded, TypeWait, TypeLife, life_vars, wait_vars
  <2>4. TypeTask' /\ TypeLoop'
    BY <1>18, <2>1 DEF DeleteEnded, AtTask, TypeTask, TypeLoop
  <2>. QED BY <2>2, <2>3, <2>4
<1>19. CASE ResumeBack
  <2>1. /\ Tail(delay_list) \in Seq(Task)
        /\ Head(delay_list).co \in Co
    BY <1>19, TailFacts, TaskFacts DEF ResumeBack, AtTask, TypeLoop
  <2>2. TypeJump' /\ TypeWait'
    BY <1>19, <2>1, TypeOfJumpTo DEF ResumeBack
  <2>3. TypeLife' /\ TypeTask' /\ TypeLoop'
    BY <1>19, <2>1 DEF ResumeBack, AtTask, TypeLife, TypeTask, TypeLoop, life_vars,
                       task_vars
  <2>. QED BY <2>2, <2>3
<1>20. CASE EndDispatch
  BY <1>20 DEF EndDispatch, TypeOK, life_vars, wait_vars, task_vars
<1>21. CASE UNCHANGED vars
  BY <1>21 DEF vars, TypeOK
<1>. QED
  BY <1>1, <1>2, <1>3, <1>4, <1>5, <1>6, <1>7, <1>8, <1>9, <1>10, <1>11, <1>12,
     <1>13, <1>14, <1>15, <1>16, <1>17, <1>18, <1>19, <1>20, <1>21
     DEF Next, DispatchStep

-----------------------------------------------------------------------------
(****************************************************************************)
(* The inductive invariant.  The safety properties of Coroutine are not     *)
(* inductive by themselves: StackOK needs to know that what is resumed is   *)
(* suspended, hence that pc and state agree (ParkOK) and that every queue   *)
(* refers to coroutines parked in the call that put them there (WaitOK,     *)
(* ExitOK, NotifyOK, TaskOK, ReadyOK); NoLostWaiter needs the converse      *)
(* direction of the same facts.                                             *)
(****************************************************************************)
ParkOK ==
    /\ \A c \in Co : pc[c] # "run" <=> state[c] = "SUSPEND"
    /\ pc[Main] = "run"
    /\ pc[Tw] \in {"run", "poll"}
    /\ state[Tw] \notin {"FREE", "STOP"}
    /\ state[Tw] = "RUNNING" => stage \in {"idle", "net"}
    /\ stage = "boot" => state[Tw] = "CREATE"

WaitOK ==
    /\ \A c \in Co : Waiting(c) <=> target[c] # NoInc
    /\ \A c \in timers : pc[c] = "twait"

ExitOK ==
    \A x \in Co :
        /\ NoDup(exit_queue[x])
        /\ \A w \in Elems(exit_queue[x]) : w \in Co /\ target[w] = <<x, gen[x]>>
        /\ state[x] \in {"FREE", "STOP"} => Elems(exit_queue[x]) = {}

NotifyOK ==
    \A n \in Inc :
        /\ NoDup(notify_queue[n])
        /\ \A w \in Elems(notify_queue[n]) : w \in Co /\ target[w] = n
        /\ ~Ended(n) => Elems(notify_queue[n]) = {} /\ ~NotifyPending(n)

TaskOK ==
    /\ NoDup(delay_tasks)
    /\ NoDup(delay_list)
    /\ Elems(delay_tasks) \cap Elems(delay_list) = {}
    /\ \A c \in Co : Linked(BackTask(c)) => pc[c] = "back"

DelOK ==
    \A c \in Elems(delay_del_list) : c \in Co /\ state[c] = "STOP" /\ is_end_delete[c]

ReadyOK ==
    \A c \in ready : pc[c] = "poll"

IInv ==
    /\ TypeOK
    /\ StackOK
    /\ ParkOK
    /\ WaitOK
    /\ ExitOK
    /\ NotifyOK
    /\ NoLostWaiter
    /\ CachedNextValid
    /\ TaskOK
    /\ DelOK
    /\ EndedQueued
    /\ ReadyOK

\* What yield() and co_return_p() do to the stack of resumers: the last one
\* comes back, the coroutine that gave up leaves the stack.
LEMMA PopStack ==
    ASSUME IInv, NEW st \in {"SUSPEND", "STOP"}, JumpBack(st), curr_co # Main,
           stage' = stage
    PROVE  /\ StackOK'
           /\ state' = [state EXCEPT ![curr_co] = st]
           /\ state[curr_co] = "RUNNING"
           /\ pc[curr_co] = "run"
<1>. DEFINE last == Last(run_queue)
<1>0. /\ run_queue \in Seq(Co) /\ run_queue # <<>> /\ curr_co \in Co
      /\ NoDup(run_queue) /\ run_queue[1] = Main
      /\ state \in [Co -> {"FREE", "CREATE", "RUNNING", "SUSPEND", "STOP"}]
  BY DEF IInv, TypeOK, StackOK
<1>1. /\ Front(run_queue) \in Seq(Co)
      /\ last \in Co
      /\ last \in Elems(run_queue)
      /\ NoDup(Front(run_queue))
      /\ Elems(Front(run_queue)) = Elems(run_queue) \ {last}
      /\ Len(run_queue) = 1 => Front(run_queue) = <<>>
      /\ Len(run_queue) > 1 => Front(run_queue) # <<>> /\ Front(run_queue)[1] = Main
      /\ Len(run_queue) \in Nat \ {0}
  BY <1>0, FrontFacts, Zenon
<1>2. stage # "boot" /\ curr_co \notin Elems(run_queue)
  BY DEF IInv, StackOK
<1>3. last # curr_co /\ state[last] = "RUNNING" /\ state[curr_co] = "RUNNING"
  BY <1>0, <1>1, <1>2 DEF IInv, StackOK
<1>4. state' = [state EXCEPT ![curr_co] = st]
  <2>1. state' = [[state EXCEPT ![curr_co] = st] EXCEPT ![last] = "RUNNING"]
    BY DEF JumpBack
  <2>. QED BY <1>0, <1>1, <1>3, <2>1, Zenon
<1>5. curr_co' = last /\ run_queue' = Front(run_queue)
  BY DEF JumpBack
<1>6. \A c \in Co : state'[c] = "RUNNING" <=> c \in {curr_co'} \cup Elems(run_queue')
  <2>. TAKE c \in Co
  <2>1. state[c] = "RUNNING" <=> c \in {curr_co} \cup Elems(run_queue)
    BY DEF IInv, StackOK
  <2>2. state'[c] = IF c = curr_co THEN st ELSE state[c]
    BY <1>0, <1>4
  <2>. QED BY <1>1, <1>2, <1>5, <2>1, <2>2
<1>7. last = Main <=> Len(run_queue) = 1
  <2>1. Len(run_queue) = 1 => last = Main
    BY <1>0 DEF Last
  <2>2. last = Main => Len(run_queue) = 1
    <3>1. 1 \in 1..Len(run_queue) /\ Len(run_queue) \in 1..Len(run_queue)
      BY <1>1
    <3>2. last = run_queue[Len(run_queue)]
      BY DEF Last
    <3>. QED BY <1>0, <3>1, <3>2, Zenon DEF NoDup
  <2>. QED BY <2>1, <2>2
<1>8. StackOK'
  <2>1. curr_co' \notin Elems(run_queue')
    BY <1>1, <1>5
  <2>2. curr_co' = Main => run_queue' = <<>>
    BY <1>1, <1>5, <1>7
  <2>3. curr_co' # Main => run_queue' # <<>> /\ run_queue'[1] = Main
    <3>1. Len(run_queue) \in Nat \ {0}
      BY <1>1
    <3>0. \A n \in Nat \ {0} : n # 1 => n > 1
      OBVIOUS
    <3>2. Len(run_queue) # 1 => Len(run_queue) > 1
      BY <3>0, <3>1, Zenon
    <3>. QED BY <1>1, <1>5, <1>7, <3>2
  <2>. QED BY <1>1, <1>2, <1>5, <1>6, <2>1, <2>2, <2>3 DEF StackOK
<1>9. pc[curr_co] = "run"
  BY <1>0, <1>3 DEF IInv, ParkOK
<1>. QED BY <1>3, <1>4, <1>8, <1>9

\* What resume() does to the stack of resumers.
LEMMA PushStack ==
    ASSUME IInv, NEW x \in Co, NEW v, JumpTo(x, v), state[x] # "RUNNING",
           stage' # "boot"
    PROVE  StackOK'
<1>0. /\ run_queue \in Seq(Co) /\ curr_co \in Co /\ NoDup(run_queue)
      /\ state \in [Co -> {"FREE", "CREATE", "RUNNING", "SUSPEND", "STOP"}]
      /\ state[Main] = "RUNNING"
      /\ state[curr_co] = "RUNNING"
  <2>1. Main \in Co
    BY DEF Co
  <2>2. curr_co # Main => Main \in Elems(run_queue)
    BY FirstElem DEF IInv, TypeOK, StackOK
  <2>. QED BY <2>1, <2>2 DEF IInv, TypeOK, StackOK
<1>. DEFINE u == Unlink(run_queue, curr_co)
<1>1. u \in Seq(Co) /\ NoDup(u) /\ Elems(u) = Elems(run_queue) \ {curr_co}
  BY <1>0, UnlinkFacts
<1>2. run_queue' = Append(u, curr_co) /\ curr_co' = x
      /\ state' = [state EXCEPT ![x] = "RUNNING"]
  BY DEF JumpTo
<1>. HIDE DEF u
<1>3. /\ NoDup(run_queue')
      /\ Elems(run_queue') = Elems(run_queue) \cup {curr_co}
      /\ run_queue' # <<>>
  BY <1>0, <1>1, <1>2, AppendFacts
<1>4. \A c \in Co : state[c] = "RUNNING" <=> c \in {curr_co} \cup Elems(run_queue)
  BY DEF IInv, StackOK
<1>5. x \notin Elems(run_queue') /\ x # Main
  BY <1>0, <1>3, <1>4
<1>6. \A c \in Co : state'[c] = "RUNNING" <=> c \in {curr_co'} \cup Elems(run_queue')
  BY <1>0, <1>2, <1>3, <1>4
<1>7. run_queue'[1] = Main
  <2>1. CASE curr_co = Main
    <3>1. Elems(run_queue) \ {Main} = {}
      <4>1. CASE stage = "boot"
        <5>1. run_queue = <<Main>>
          BY <4>1 DEF IInv, StackOK
        <5>2. Elems(<<Main>>) = {Main}
          BY DEF Elems
        <5>. QED BY <5>1, <5>2
      <4>2. CASE stage # "boot"
        BY <2>1, <4>2, ElemsEmpty, <1>0, Zenon DEF IInv, StackOK
      <4>. QED BY <4>1, <4>2
    <3>2. u = <<>>
      BY <1>1, <2>1, <3>1, ElemsEmpty
    <3>. QED BY <1>2, <2>1, <3>2
  <2>2. CASE curr_co # Main
    <3>1. run_queue # <<>> /\ run_queue[1] = Main /\ curr_co \notin Elems(run_queue)
      BY <2>2 DEF IInv, StackOK
    <3>2. u = run_queue
      BY <3>1 DEF Unlink, u
    <3>. QED BY <1>0, <1>2, <3>1, <3>2
  <2>. QED BY <2>1, <2>2
<1>. QED BY <1>2, <1>3, <1>5, <1>6, <1>7 DEF StackOK

\* Unlinking a waiter takes it out of the queue it is on and leaves all other
\* queues alone.
LEMMA UnlinkWaiterFacts ==
    ASSUME IInv, NEW x \in Co, UnlinkWaiter(x)
    PROVE  /\ \A y \in Co : /\ NoDup(exit_queue'[y])
                            /\ Elems(exit_queue'[y]) = Elems(exit_queue[y]) \ {x}
           /\ \A n \in Inc : /\ NoDup(notify_queue'[n])
                             /\ Elems(notify_queue'[n]) = Elems(notify_queue[n]) \ {x}
<1>0. /\ exit_queue \in [Co -> Seq(Co)]
      /\ notify_queue \in [Inc -> Seq(Co)]
      /\ target[x] \in Inc \cup {NoInc}
      /\ \A y \in Co : /\ NoDup(exit_queue[y])
                       /\ x \in Elems(exit_queue[y]) => target[x] = <<y, gen[y]>>
      /\ \A n \in Inc : /\ NoDup(notify_queue[n])
                        /\ x \in Elems(notify_queue[n]) => target[x] = n
      /\ \A y \in Co : gen[y] \in 0..MaxGen
  BY DEF IInv, TypeOK, ExitOK, NotifyOK
<1>1. CASE target[x] = NoInc
  <2>1. \A y \in Co : x \notin Elems(exit_queue[y])
    <3>1. \A y \in Co : <<y, gen[y]>> \in Inc
      BY <1>0, IncFacts
    <3>2. NoInc \notin Inc
      BY IncFacts
    <3>3. \A y \in Co : x \in Elems(exit_queue[y]) => NoInc = <<y, gen[y]>>
      BY <1>0, <1>1
    <3>. QED BY <3>1, <3>2, <3>3, Zenon
  <2>2. \A n \in Inc : x \notin Elems(notify_queue[n])
    BY <1>0, <1>1, IncFacts
  <2>. QED BY <1>0, <1>1, <2>1, <2>2 DEF UnlinkWaiter
<1>2. CASE target[x] # NoInc
  <2>. DEFINE t == target[x][1]
  <2>1. target[x] \in Inc /\ t \in Co
    BY <1>0, <1>2, IncFacts
  <2>2. /\ exit_queue' = [exit_queue EXCEPT ![t] = Unlink(exit_queue[t], x)]
        /\ notify_queue' = [notify_queue EXCEPT ![target[x]] =
                              Unlink(notify_queue[target[x]], x)]
    BY <1>2 DEF UnlinkWaiter
  <2>3. \A y \in Co : x \in Elems(exit_queue[y]) => y = t
    BY <1>0, IncFacts
  <2>. HIDE DEF t
  <2>4. ASSUME NEW y \in Co
        PROVE  /\ NoDup(exit_queue'[y])
               /\ Elems(exit_queue'[y]) = Elems(exit_queue[y]) \ {x}
    <3>1. CASE y = t
      BY <1>0, <2>1, <2>2, <3>1, UnlinkFacts
    <3>2. CASE y # t
      BY <1>0, <2>2, <2>3, <3>2
    <3>. QED BY <3>1, <3>2
  <2>5. ASSUME NEW n \in Inc
        PROVE  /\ NoDup(notify_queue'[n])
               /\ Elems(notify_queue'[n]) = Elems(notify_queue[n]) \ {x}
    <3>1. CASE n = target[x]
      BY <1>0, <2>1, <2>2, <3>1, UnlinkFacts
    <3>2. CASE n # target[x]
      BY <1>0, <2>2, <3>2
    <3>. QED BY <3>1, <3>2
  <2>. QED BY <2>4, <2>5
<1>. QED BY <1>1, <1>2

\* What resume() does to the waiting lists: the resumed coroutine is on none
\* afterwards, all others stay where they were.
LEMMA ResumeWaits ==
    ASSUME IInv, NEW x \in Co, NEW v, JumpTo(x, v),
           state[x] \in {"CREATE", "SUSPEND"}, gen' = gen,
           \A n \in Inc : NotifyPending(n)' <=> NotifyPending(n)
    PROVE  /\ WaitOK' /\ ExitOK' /\ NotifyOK' /\ NoLostWaiter'
           /\ state' = [state EXCEPT ![x] = "RUNNING"]
           /\ pc' = [pc EXCEPT ![x] = "run"]
           /\ \A n \in Inc : Ended(n)' <=> Ended(n)
<1>0. /\ state \in [Co -> {"FREE", "CREATE", "RUNNING", "SUSPEND", "STOP"}]
      /\ pc \in [Co -> {"run", "yield", "poll", "back", "wait", "twait"}]
      /\ target \in [Co -> Inc \cup {NoInc}]
      /\ timers \subseteq Co
  BY DEF IInv, TypeOK, Co
<1>1. /\ state' = [state EXCEPT ![x] = "RUNNING"]
      /\ pc' = [pc EXCEPT ![x] = "run"]
      /\ target' = [target EXCEPT ![x] = NoInc]
      /\ timers' = timers \ {x}
      /\ UnlinkWaiter(x)
  BY DEF JumpTo, LeaveWait
<1>2. /\ \A y \in Co : /\ NoDup(exit_queue'[y])
                       /\ Elems(exit_queue'[y]) = Elems(exit_queue[y]) \ {x}
      /\ \A n \in Inc : /\ NoDup(notify_queue'[n])
                        /\ Elems(notify_queue'[n]) = Elems(notify_queue[n]) \ {x}
  BY <1>1, UnlinkWaiterFacts
<1>3. \A n \in Inc : Ended(n)' <=> Ended(n)
  BY <1>0, <1>1, IncFacts DEF Ended
<1>4. WaitOK'
  BY <1>0, <1>1 DEF IInv, WaitOK, Waiting
<1>5. ExitOK'
  <2>. SUFFICES ASSUME NEW y \in Co
                PROVE  /\ \A w \in Elems(exit_queue'[y]) :
                            w \in Co /\ target'[w] = <<y, gen'[y]>>
                       /\ state'[y] \in {"FREE", "STOP"} => Elems(exit_queue'[y]) = {}
    BY <1>2, Zenon DEF ExitOK
  <2>1. /\ \A w \in Elems(exit_queue[y]) : w \in Co /\ target[w] = <<y, gen[y]>>
        /\ state[y] \in {"FREE", "STOP"} => Elems(exit_queue[y]) = {}
    BY DEF IInv, ExitOK
  <2>2. state'[y] \in {"FREE", "STOP"} => state[y] \in {"FREE", "STOP"}
    BY <1>0, <1>1
  <2>. QED BY <1>0, <1>1, <1>2, <2>1, <2>2, Zenon
<1>6. NotifyOK'
  <2>. SUFFICES ASSUME NEW n \in Inc
                PROVE  /\ NoDup(notify_queue'[n])
                       /\ \A w \in Elems(notify_queue'[n]) : w \in Co /\ target'[w] = n
                       /\ ~Ended(n)' => Elems(notify_queue'[n]) = {} /\ ~NotifyPending(n)'
    BY Zenon DEF NotifyOK
  <2>1. /\ \A w \in Elems(notify_queue[n]) : w \in Co /\ target[w] = n
        /\ ~Ended(n) => Elems(notify_queue[n]) = {} /\ ~NotifyPending(n)
    BY Zenon DEF IInv, NotifyOK
  <2>2. \A w \in Elems(notify_queue[n]) \ {x} : target'[w] = target[w]
    BY <1>0, <1>1, <2>1
  <2>. QED BY <1>0, <1>2, <1>3, <2>1, <2>2
<1>7. NoLostWaiter'
  <2>. SUFFICES ASSUME NEW w \in Co, NEW n \in Inc, Waiting(w)', target'[w] = n
                PROVE  \/ ~Ended(n)' /\ w \in Elems(exit_queue'[n[1]])
                       \/ /\ Ended(n)'
                          /\ w \in Elems(notify_queue'[n])
                          /\ NotifyPending(n)'
    BY DEF NoLostWaiter
  <2>1. w # x /\ Waiting(w) /\ target[w] = n
    BY <1>0, <1>1 DEF Waiting
  <2>2. n[1] \in Co
    BY IncFacts
  <2>3. \/ ~Ended(n) /\ w \in Elems(exit_queue[n[1]])
        \/ Ended(n) /\ w \in Elems(notify_queue[n]) /\ NotifyPending(n)
    BY <2>1 DEF IInv, NoLostWaiter
  <2>. QED BY <1>2, <1>3, <2>1, <2>2, <2>3, Zenon
<1>. QED BY <1>1, <1>3, <1>4, <1>5, <1>6, <1>7

\* The part of the invariant that every kind of resume() preserves for the
\* same reasons.
ResumeInv ==
    /\ StackOK /\ ParkOK /\ WaitOK /\ ExitOK /\ NotifyOK /\ NoLostWaiter
    /\ DelOK /\ EndedQueued

\* A jump to a parked or new coroutine preserves what IInv says of the stack and
\* of the waits.
LEMMA ResumeStep ==
    ASSUME IInv, NEW x \in Co, NEW v, JumpTo(x, v),
           state[x] \in {"CREATE", "SUSPEND"},
           gen' = gen, is_end_delete' = is_end_delete,
           delay_del_list' = delay_del_list, note' = note,
           stage' # "boot",
           stage' = stage \/ stage' \in {"idle", "net"},
           x = Tw => stage' \in {"idle", "net"},
           \A n \in Inc : Linked(ExitTask(n))' <=> Linked(ExitTask(n)),
           Linked(DelTask)' <=> Linked(DelTask)
    PROVE  /\ ResumeInv'
           /\ state' = [state EXCEPT ![x] = "RUNNING"]
           /\ pc' = [pc EXCEPT ![x] = "run"]
<1>1. \A n \in Inc : NotifyPending(n)' <=> NotifyPending(n)
  BY DEF NotifyPending
<1>2. /\ WaitOK' /\ ExitOK' /\ NotifyOK' /\ NoLostWaiter'
      /\ state' = [state EXCEPT ![x] = "RUNNING"]
      /\ pc' = [pc EXCEPT ![x] = "run"]
  BY <1>1, ResumeWaits
<1>3. StackOK'
  BY PushStack
<1>4. /\ state \in [Co -> {"FREE", "CREATE", "RUNNING", "SUSPEND", "STOP"}]
      /\ pc \in [Co -> {"run", "yield", "poll", "back", "wait", "twait"}]
      /\ Main \in Co /\ Tw \in Co
  BY DEF IInv, TypeOK, Co
<1>5. ParkOK'
  BY <1>2, <1>4 DEF IInv, ParkOK
<1>6. DelOK'
  BY <1>2, <1>4 DEF IInv, DelOK
<1>7. EndedQueued'
  BY <1>2, <1>4 DEF IInv, EndedQueued
<1>. QED BY <1>2, <1>3, <1>5, <1>6, <1>7 DEF ResumeInv

\* When a coroutine gives up, the incarnations that have ended stay the same,
\* and pc and state keep agreeing.
LEMMA ParkStep ==
    ASSUME IInv, NEW why \in {"yield", "poll", "back", "wait", "twait"}, Park(why),
           curr_co # Main, curr_co = Tw => why = "poll",
           gen' = gen, is_end_delete' = is_end_delete,
           delay_del_list' = delay_del_list, stage' = stage,
           Linked(DelTask) => Linked(DelTask)'
    PROVE  /\ StackOK' /\ ParkOK' /\ DelOK' /\ EndedQueued'
           /\ \A n \in Inc : Ended(n)' <=> Ended(n)
           /\ state' = [state EXCEPT ![curr_co] = "SUSPEND"]
           /\ pc' = [pc EXCEPT ![curr_co] = why]
           /\ pc[curr_co] = "run"
           /\ state[curr_co] = "RUNNING"
<1>0. JumpBack("SUSPEND") /\ pc' = [pc EXCEPT ![curr_co] = why]
  BY DEF Park
<1>1. /\ StackOK'
      /\ state' = [state EXCEPT ![curr_co] = "SUSPEND"]
      /\ pc[curr_co] = "run"
      /\ state[curr_co] = "RUNNING"
  BY <1>0, PopStack
<1>2. /\ state \in [Co -> {"FREE", "CREATE", "RUNNING", "SUSPEND", "STOP"}]
      /\ pc \in [Co -> {"run", "yield", "poll", "back", "wait", "twait"}]
      /\ Main \in Co /\ Tw \in Co /\ curr_co \in Co
  BY DEF IInv, TypeOK, Co
<1>3. ParkOK'
  <2>1. \A c \in Co : pc'[c] # "run" <=> state'[c] = "SUSPEND"
    BY <1>0, <1>1, <1>2 DEF IInv, ParkOK
  <2>2. pc'[Main] = "run" /\ pc'[Tw] \in {"run", "poll"}
    BY <1>0, <1>2 DEF IInv, ParkOK
  <2>3. /\ state'[Tw] \notin {"FREE", "STOP"}
        /\ state'[Tw] = "RUNNING" => stage' \in {"idle", "net"}
    BY <1>1, <1>2 DEF IInv, ParkOK
  <2>4. stage' = "boot" => state'[Tw] = "CREATE"
    BY DEF IInv, StackOK
  <2>. QED BY <2>1, <2>2, <2>3, <2>4 DEF ParkOK
<1>4. \A n \in Inc : Ended(n)' <=> Ended(n)
  BY <1>1, <1>2, IncFacts DEF Ended
<1>5. DelOK'
  BY <1>1, <1>2 DEF IInv, DelOK
<1>6. EndedQueued'
  BY <1>1, <1>2 DEF IInv, EndedQueued
<1>. QED BY <1>0, <1>1, <1>3, <1>4, <1>5, <1>6

\* The waiting lists do not notice a coroutine that gives up without waiting.
LEMMA ParkKeepsWaits ==
    ASSUME IInv, NEW why \in {"yield", "poll", "back"}, NEW c \in Co,
           pc[c] = "run", pc' = [pc EXCEPT ![c] = why],
           state[c] = "RUNNING", state' = [state EXCEPT ![c] = "SUSPEND"],
           gen' = gen, UNCHANGED wait_vars,
           \A n \in Inc : Ended(n)' <=> Ended(n),
           \A n \in Inc : NotifyPending(n)' <=> NotifyPending(n)
    PROVE  WaitOK' /\ ExitOK' /\ NotifyOK' /\ NoLostWaiter'
<1>0. /\ state \in [Co -> {"FREE", "CREATE", "RUNNING", "SUSPEND", "STOP"}]
      /\ pc \in [Co -> {"run", "yield", "poll", "back", "wait", "twait"}]
      /\ timers \subseteq Co
      /\ target' = target /\ timers' = timers
      /\ exit_queue' = exit_queue /\ notify_queue' = notify_queue
  BY DEF IInv, TypeOK, wait_vars, Co
<1>1. \A w \in Co : Waiting(w)' <=> Waiting(w)
  BY <1>0 DEF Waiting
<1>2. WaitOK'
  BY <1>0, <1>1 DEF IInv, WaitOK
<1>3. ExitOK'
  BY <1>0 DEF IInv, ExitOK
<1>4. NotifyOK'
  BY <1>0 DEF IInv, NotifyOK
<1>5. NoLostWaiter'
  BY <1>0, <1>1 DEF IInv, NoLostWaiter
<1>. QED BY <1>2, <1>3, <1>4, <1>5

-----------------------------------------------------------------------------
\* Every step preserves the invariant.

\* The jump to the timer wheel at start-up preserves IInv.
LEMMA StartWheelStep ==
    ASSUME IInv, TypeOK', StartWheel
    PROVE  IInv'
<1>1. Tw \in Co /\ state[Tw] = "CREATE"
  BY DEF IInv, ParkOK, StartWheel, Co
<1>2. \A t : Linked(t)' <=> Linked(t)
  BY DEF StartWheel, Linked, task_vars
<1>3. /\ ResumeInv'
      /\ pc' = [pc EXCEPT ![Tw] = "run"]
  BY <1>1, <1>2, ResumeStep DEF StartWheel, life_vars, task_vars
<1>4. TaskOK'
  <2>1. pc[Tw] = "run"
    BY <1>1 DEF IInv, ParkOK
  <2>. QED BY <1>2, <1>3, <2>1 DEF IInv, TaskOK, TypeOK, StartWheel, task_vars
<1>5. ReadyOK' /\ CachedNextValid'
  BY DEF StartWheel, ReadyOK, CachedNextValid, IInv, TypeOK
<1>. QED BY <1>3, <1>4, <1>5 DEF IInv, ResumeInv

\* resume() by user code preserves IInv.
LEMMA ResumeActionStep ==
    ASSUME IInv, TypeOK', NEW x \in User, Resume(x)
    PROVE  IInv'
<1>0. x \in Co /\ x # Tw /\ x # Main
  BY CoAssumption DEF Co
<1>1. state[x] \in {"CREATE", "SUSPEND"}
  BY <1>0 DEF IInv, ParkOK, Resume
<1>2. stage # "boot"
  BY CoAssumption DEF Resume, UserRuns, IInv, StackOK
<1>3. \A t : Linked(t)' <=> Linked(t)
  BY DEF Resume, Linked, task_vars, loop_vars
<1>4. /\ ResumeInv'
      /\ pc' = [pc EXCEPT ![x] = "run"]
  BY <1>0, <1>1, <1>2, <1>3, ResumeStep DEF Resume, life_vars, task_vars, loop_vars
<1>5. pc[x] \in {"run", "yield"}
  BY <1>0 DEF IInv, ParkOK, Resume
<1>6. target[x] = NoInc
  BY <1>0, <1>5 DEF IInv, WaitOK, Waiting
<1>7. TaskOK'
  BY <1>3, <1>4, <1>5 DEF IInv, TaskOK, TypeOK, Resume, task_vars, loop_vars
<1>8. ReadyOK'
  BY <1>4, <1>5, Zenon DEF IInv, ReadyOK, TypeOK, Resume, loop_vars
<1>9. CachedNextValid'
  <2>1. notify_queue' = notify_queue
    BY <1>6, Zenon DEF Resume, JumpTo, UnlinkWaiter
  <2>. QED BY <2>1, Zenon DEF IInv, CachedNextValid, Resume, loop_vars
<1>. QED BY <1>4, <1>7, <1>8, <1>9 DEF IInv, ResumeInv

\* wait_timeout_handle preserves IInv: the waiter leaves its queue as it leaves
\* its wait.
LEMMA TimerFiresStep ==
    ASSUME IInv, TypeOK', NEW x \in User, TimerFires(x)
    PROVE  IInv'
<1>0. x \in Co /\ x # Tw /\ x # Main
  BY CoAssumption DEF Co
<1>1. pc[x] = "twait" /\ state[x] = "SUSPEND"
  BY <1>0, Zenon DEF IInv, ParkOK, WaitOK, TimerFires
<1>2. stage # "boot" /\ note = NoInc
  <2>1. CASE curr_co = Tw
    <3>1. state[Tw] = "RUNNING" /\ stage \in {"idle", "net"}
      BY <2>1 DEF IInv, StackOK, ParkOK, Co
    <3>. QED BY <3>1, Zenon DEF IInv, TypeOK
  <2>2. CASE curr_co = Main /\ stage = "delay" /\ note = NoInc
    BY <2>2
  <2>. QED BY <2>1, <2>2 DEF TimerFires
<1>3. \A t : Linked(t)' <=> Linked(t)
  BY DEF TimerFires, Linked, task_vars, loop_vars
<1>4. /\ ResumeInv'
      /\ pc' = [pc EXCEPT ![x] = "run"]
  BY <1>0, <1>1, <1>2, <1>3, ResumeStep
     DEF TimerFires, life_vars, task_vars, loop_vars
<1>5. TaskOK'
  BY <1>1, <1>3, <1>4 DEF IInv, TaskOK, TypeOK, TimerFires, task_vars, loop_vars
<1>6. ReadyOK'
  BY <1>1, <1>4 DEF IInv, ReadyOK, TypeOK, TimerFires, loop_vars
<1>7. CachedNextValid'
  BY <1>2, Zenon DEF CachedNextValid, TimerFires, loop_vars
<1>. QED BY <1>4, <1>5, <1>6, <1>7 DEF IInv, ResumeInv

\* Resuming the poller of an epoll event preserves IInv.
LEMMA NetResumeStep ==
    ASSUME IInv, TypeOK', NEW x \in Co, NetResume(x)
    PROVE  IInv'
<1>1. pc[x] = "poll" /\ state[x] = "SUSPEND"
  BY Zenon DEF IInv, ReadyOK, ParkOK, NetResume
<1>2. stage = "net" /\ note = NoInc /\ note' = NoInc
  BY DEF NetResume, IInv, TypeOK
<1>3. \A t : Linked(t)' <=> Linked(t)
  BY DEF NetResume, Linked, task_vars
<1>4. /\ ResumeInv'
      /\ pc' = [pc EXCEPT ![x] = "run"]
  BY <1>1, <1>2, <1>3, ResumeStep DEF NetResume, life_vars, task_vars
<1>5. TaskOK'
  BY <1>1, <1>3, <1>4 DEF IInv, TaskOK, TypeOK, NetResume, task_vars
<1>6. ReadyOK'
  BY <1>4 DEF IInv, ReadyOK, TypeOK, NetResume
<1>7. CachedNextValid'
  BY <1>2 DEF CachedNextValid
<1>. QED BY <1>4, <1>5, <1>6, <1>7 DEF IInv, ResumeInv

\* proc_delay_back preserves IInv.
LEMMA ResumeBackStep ==
    ASSUME IInv, TypeOK', ResumeBack
    PROVE  IInv'
<1>0. delay_list \in Seq(Task) /\ delay_list # <<>> /\ note = NoInc
      /\ stage = "delay" /\ Head(delay_list).kind = "back"
  BY DEF ResumeBack, AtTask, IInv, TypeOK
<1>1. /\ Head(delay_list) \in Task /\ Tail(delay_list) \in Seq(Task)
      /\ Elems(delay_list) = {Head(delay_list)} \cup Elems(Tail(delay_list))
      /\ NoDup(Tail(delay_list)) /\ Head(delay_list) \notin Elems(Tail(delay_list))
  BY <1>0, TailFacts DEF IInv, TaskOK
<1>2. PICK x \in Co : Head(delay_list) = BackTask(x) /\ Head(delay_list).co = x
  BY <1>0, <1>1, TaskFacts
<1>3. /\ delay_list' = Tail(delay_list) /\ delay_tasks' = delay_tasks
      /\ JumpTo(x, 0)
  BY <1>2 DEF ResumeBack, task_vars
<1>4. \A t : Linked(t) <=> Linked(t)' \/ t = BackTask(x)
  BY <1>1, <1>2, <1>3 DEF Linked
<1>5. ~Linked(BackTask(x))'
  BY <1>1, <1>2, <1>3 DEF Linked, IInv, TaskOK
<1>6. pc[x] = "back" /\ state[x] = "SUSPEND"
  <2>1. Linked(BackTask(x))
    BY <1>2, <1>4
  <2>. QED BY <1>2, <2>1 DEF IInv, TaskOK, ParkOK
<1>7. /\ \A n \in Inc : Linked(ExitTask(n))' <=> Linked(ExitTask(n))
      /\ Linked(DelTask)' <=> Linked(DelTask)
  BY <1>2, <1>4, TaskFacts
<1>8. x # Tw
  BY <1>6 DEF IInv, ParkOK
<1>9. /\ ResumeInv'
      /\ pc' = [pc EXCEPT ![x] = "run"]
  BY <1>0, <1>2, <1>3, <1>6, <1>7, <1>8, ResumeStep
     DEF ResumeBack, life_vars, task_vars
<1>10. TaskOK'
  <2>1. \A c \in Co : Linked(BackTask(c))' => pc'[c] = "back"
    <3>. SUFFICES ASSUME NEW c \in Co, Linked(BackTask(c))'
                  PROVE  pc'[c] = "back"
      OBVIOUS
    <3>1. c # x
      BY <1>5
    <3>2. pc[c] = "back"
      BY <1>4 DEF IInv, TaskOK
    <3>. QED BY <1>9, <3>1, <3>2 DEF IInv, TypeOK
  <2>. QED BY <1>1, <1>3, <2>1, Zenon DEF IInv, TaskOK
<1>11. ReadyOK' /\ CachedNextValid'
  BY <1>0 DEF ReadyOK, CachedNextValid, ResumeBack, IInv, TypeOK
<1>. QED BY <1>9, <1>10, <1>11 DEF IInv, ResumeInv

\* One turn of the loop of proc_exit_notify preserves IInv.
LEMMA NotifyOneStep ==
    ASSUME IInv, TypeOK', NotifyOne
    PROVE  IInv'
<1>. DEFINE q == notify_queue[note]
<1>0. PICK x \in Co : x = next_it
  BY DEF NotifyOne, IInv, TypeOK
<1>1. /\ note \in Inc /\ stage = "delay" /\ q \in Seq(Co) /\ NoDup(q)
      /\ notify_queue \in [Inc -> Seq(Co)]
      /\ q # <<>> /\ x = Head(q)
  <2>1. note # NoInc /\ next_it # End
    BY DEF NotifyOne
  <2>. QED BY <1>0, <2>1 DEF IInv, TypeOK, CachedNextValid, NotifyOK
<1>2. x \in Elems(q)
  BY <1>1, TailFacts
<1>3. target[x] = note
  BY <1>1, <1>2 DEF IInv, NotifyOK
<1>4. Waiting(x) /\ state[x] = "SUSPEND"
  BY <1>1, <1>3, IncFacts DEF IInv, WaitOK, ParkOK, Waiting
<1>5. JumpTo(x, note[2])
  BY <1>0, <1>4, Zenon DEF NotifyOne
<1>6. \A t : Linked(t)' <=> Linked(t)
  BY Zenon DEF NotifyOne, Linked, task_vars
<1>7. x # Tw
  BY <1>4 DEF IInv, ParkOK, Waiting
<1>8. /\ ResumeInv'
      /\ pc' = [pc EXCEPT ![x] = "run"]
  BY <1>1, <1>4, <1>5, <1>6, <1>7, ResumeStep DEF NotifyOne, life_vars, task_vars
<1>9. TaskOK'
  BY <1>4, <1>6, <1>8, Zenon DEF IInv, TaskOK, TypeOK, NotifyOne, task_vars, Waiting
<1>10. ReadyOK'
  BY <1>1 DEF ReadyOK, NotifyOne, IInv, TypeOK
<1>11. CachedNextValid'
  <2>1. note' = note /\ next_it' = Succ(q, x)
    BY <1>0 DEF NotifyOne
  <2>2. notify_queue'[note] = Unlink(q, x)
    BY <1>1, <1>3, <1>5, IncFacts DEF JumpTo, UnlinkWaiter
  <2>3. /\ Unlink(q, x) = Tail(q)
        /\ Tail(q) = <<>> => Succ(q, x) = End
        /\ Tail(q) # <<>> => Succ(q, x) = Head(Tail(q))
    BY <1>1, UnlinkHead
  <2>4. Tail(q) # <<>> => Head(Tail(q)) \in Co
    BY <1>1, TailFacts
  <2>5. Tail(q) # <<>> => Head(Tail(q)) # End
    <3>. SUFFICES ASSUME Tail(q) # <<>>
                  PROVE  Head(Tail(q)) # End
      OBVIOUS
    <3>. QED BY <2>4, EndAssumption
  <2>. QED BY <2>1, <2>2, <2>3, <2>5, Zenon DEF CachedNextValid
<1>. QED BY <1>8, <1>9, <1>10, <1>11 DEF IInv, ResumeInv

\* yield() preserves IInv.
LEMMA YieldStep ==
    ASSUME IInv, TypeOK', Yield
    PROVE  IInv'
<1>0. curr_co # Main /\ curr_co # Tw /\ curr_co \in Co
  BY CoAssumption DEF Yield, Co
<1>1. \A t : Linked(t)' <=> Linked(t)
  BY DEF Yield, Linked, task_vars, loop_vars
<1>2. PICK c \in Co : c = curr_co
  BY <1>0
<1>3. /\ StackOK' /\ ParkOK' /\ DelOK' /\ EndedQueued'
      /\ \A n \in Inc : Ended(n)' <=> Ended(n)
      /\ state' = [state EXCEPT ![c] = "SUSPEND"]
      /\ pc' = [pc EXCEPT ![c] = "yield"]
      /\ pc[c] = "run"
      /\ state[c] = "RUNNING"
  BY <1>0, <1>1, <1>2, ParkStep DEF Yield, life_vars, task_vars, loop_vars
<1>4. \A n \in Inc : NotifyPending(n)' <=> NotifyPending(n)
  BY <1>1 DEF NotifyPending, Yield, loop_vars
<1>5. WaitOK' /\ ExitOK' /\ NotifyOK' /\ NoLostWaiter'
  BY <1>3, <1>4, ParkKeepsWaits, Zenon DEF Yield, life_vars
<1>6. TaskOK' /\ ReadyOK'
  BY <1>1, <1>3, Zenon DEF IInv, TypeOK, TaskOK, ReadyOK, Yield, task_vars, loop_vars
<1>7. CachedNextValid'
  BY Zenon DEF IInv, CachedNextValid, Yield, wait_vars, loop_vars
<1>. QED BY <1>3, <1>5, <1>6, <1>7 DEF IInv

\* Parking in co_poll() preserves IInv.
LEMMA PollStep ==
    ASSUME IInv, TypeOK', Poll
    PROVE  IInv'
<1>0. curr_co # Main /\ curr_co \in Co
  BY CoAssumption DEF Poll, Co
<1>1. \A t : Linked(t)' <=> Linked(t)
  BY DEF Poll, Linked, task_vars, loop_vars
<1>2. PICK c \in Co : c = curr_co
  BY <1>0
<1>3. /\ StackOK' /\ ParkOK' /\ DelOK' /\ EndedQueued'
      /\ \A n \in Inc : Ended(n)' <=> Ended(n)
      /\ state' = [state EXCEPT ![c] = "SUSPEND"]
      /\ pc' = [pc EXCEPT ![c] = "poll"]
      /\ pc[c] = "run"
      /\ state[c] = "RUNNING"
  BY <1>0, <1>1, <1>2, ParkStep DEF Poll, life_vars, task_vars, loop_vars
<1>4. \A n \in Inc : NotifyPending(n)' <=> NotifyPending(n)
  BY <1>1 DEF NotifyPending, Poll, loop_vars
<1>5. WaitOK' /\ ExitOK' /\ NotifyOK' /\ NoLostWaiter'
  BY <1>3, <1>4, ParkKeepsWaits, Zenon DEF Poll, life_vars
<1>6. TaskOK' /\ ReadyOK'
  BY <1>1, <1>3 DEF IInv, TypeOK, TaskOK, ReadyOK, Poll, task_vars, loop_vars
<1>7. CachedNextValid'
  BY DEF IInv, CachedNextValid, Poll, wait_vars, loop_vars
<1>. QED BY <1>3, <1>5, <1>6, <1>7 DEF IInv

\* delay_back() preserves IInv.
LEMMA DelayBackStep ==
    ASSUME IInv, TypeOK', DelayBack
    PROVE  IInv'
<1>0. curr_co # Main /\ curr_co # Tw /\ curr_co \in Co
  BY CoAssumption DEF DelayBack, Co
<1>1. PICK c \in Co : c = curr_co
  BY <1>0
<1>2. pc[c] = "run"
  BY <1>1 DEF IInv, StackOK, ParkOK
<1>3. ~Linked(BackTask(c))
  BY <1>2 DEF IInv, TaskOK
<1>4. delay_tasks' = Append(delay_tasks, BackTask(c)) /\ delay_list' = delay_list
  BY <1>1, <1>3 DEF DelayBack, Delayed, loop_vars
<1>5. /\ Elems(delay_tasks') = Elems(delay_tasks) \cup {BackTask(c)}
      /\ NoDup(delay_tasks')
  <2>1. delay_tasks \in Seq(Task) /\ BackTask(c) \in Task
    BY TaskFacts DEF IInv, TypeOK
  <2>2. NoDup(delay_tasks) /\ BackTask(c) \notin Elems(delay_tasks)
    BY <1>3 DEF IInv, TaskOK, Linked
  <2>. QED BY <1>4, <2>1, <2>2, AppendFacts
<1>6. \A t : Linked(t)' <=> Linked(t) \/ t = BackTask(c)
  BY <1>4, <1>5 DEF Linked
<1>7. /\ \A n \in Inc : Linked(ExitTask(n))' <=> Linked(ExitTask(n))
      /\ Linked(DelTask)' <=> Linked(DelTask)
  BY <1>6, TaskFacts
<1>8. /\ StackOK' /\ ParkOK' /\ DelOK' /\ EndedQueued'
      /\ \A n \in Inc : Ended(n)' <=> Ended(n)
      /\ state' = [state EXCEPT ![c] = "SUSPEND"]
      /\ pc' = [pc EXCEPT ![c] = "back"]
      /\ state[c] = "RUNNING"
  BY <1>0, <1>1, <1>7, ParkStep DEF DelayBack, life_vars, loop_vars
<1>9. \A n \in Inc : NotifyPending(n)' <=> NotifyPending(n)
  BY <1>7 DEF NotifyPending, DelayBack, loop_vars
<1>10. WaitOK' /\ ExitOK' /\ NotifyOK' /\ NoLostWaiter'
  BY <1>2, <1>8, <1>9, ParkKeepsWaits, Zenon DEF DelayBack, life_vars
<1>11. TaskOK'
  <2>1. \A b \in Co : Linked(BackTask(b))' => pc'[b] = "back"
    <3>. SUFFICES ASSUME NEW b \in Co, Linked(BackTask(b))'
                  PROVE  pc'[b] = "back"
      OBVIOUS
    <3>1. b = c \/ Linked(BackTask(b))
      BY <1>6, TaskFacts
    <3>2. CASE b = c
      BY <1>8, <3>2 DEF IInv, TypeOK
    <3>3. CASE Linked(BackTask(b))
      BY <1>3, <1>8, <3>3 DEF IInv, TypeOK, TaskOK
    <3>. QED BY <3>1, <3>2, <3>3
  <2>2. Elems(delay_tasks') \cap Elems(delay_list') = {}
    BY <1>3, <1>4, <1>5 DEF IInv, TaskOK, Linked
  <2>. QED BY <1>4, <1>5, <2>1, <2>2, Zenon DEF IInv, TaskOK
<1>12. ReadyOK'
  BY <1>2, <1>8 DEF IInv, TypeOK, ReadyOK, DelayBack, loop_vars
<1>13. CachedNextValid'
  BY DEF IInv, CachedNextValid, DelayBack, wait_vars, loop_vars
<1>. QED BY <1>8, <1>10, <1>11, <1>12, <1>13 DEF IInv

-----------------------------------------------------------------------------
\* A step that moves no coroutine and no task keeps what is said about the
\* waiting lists, if the same incarnations have ended.
LEMMA QuietWaits ==
    ASSUME IInv, UNCHANGED <<pc, wait_vars>>,
           \A x \in Co : Elems(exit_queue[x]) # {} => gen'[x] = gen[x],
           \A x \in Co : state'[x] \in {"FREE", "STOP"} => state[x] \in {"FREE", "STOP"},
           \A n \in Inc : Ended(n)' <=> Ended(n),
           \A n \in Inc : NotifyPending(n)' <=> NotifyPending(n)
    PROVE  WaitOK' /\ ExitOK' /\ NotifyOK' /\ NoLostWaiter'
<1>0. /\ pc' = pc /\ target' = target /\ timers' = timers
      /\ exit_queue' = exit_queue /\ notify_queue' = notify_queue
  BY DEF wait_vars
<1>1. \A w : Waiting(w)' <=> Waiting(w)
  BY <1>0 DEF Waiting
<1>2. WaitOK'
  BY <1>0, <1>1 DEF IInv, WaitOK
<1>3. ExitOK'
  BY <1>0 DEF IInv, ExitOK
<1>4. NotifyOK'
  BY <1>0, Zenon DEF IInv, NotifyOK
<1>5. NoLostWaiter'
  BY <1>0, <1>1, Zenon DEF IInv, NoLostWaiter
<1>. QED BY <1>2, <1>3, <1>4, <1>5

\* alloc_coroutine preserves IInv: the new incarnation of an address starts
\* with nobody waiting for it.
LEMMA AllocStep ==
    ASSUME IInv, TypeOK', NEW x \in User, NEW ad \in BOOLEAN, Alloc(x, ad)
    PROVE  IInv'
<1>0. /\ x \in Co /\ x # Main /\ x # Tw
      /\ state \in [Co -> {"FREE", "CREATE", "RUNNING", "SUSPEND", "STOP"}]
      /\ gen \in [Co -> 0..MaxGen]
      /\ MaxGen \in Nat
      /\ state[x] = "FREE"
      /\ state' = [state EXCEPT ![x] = "CREATE"]
      /\ gen' = [gen EXCEPT ![x] = gen[x] + 1]
  BY CoAssumption, ZenonT(30) DEF Alloc, IInv, TypeOK, Co
<1>1. \A t : Linked(t)' <=> Linked(t)
  BY DEF Alloc, Linked, task_vars, loop_vars
<1>2. \A n \in Inc : NotifyPending(n)' <=> NotifyPending(n)
  BY <1>1 DEF NotifyPending, Alloc, loop_vars
<1>3. \A n \in Inc : Ended(n)' <=> Ended(n)
  <2>. TAKE n \in Inc
  <2>1. n[1] \in Co /\ n[2] \in 0..MaxGen
    BY IncFacts
  <2>2. CASE n[1] # x
    BY <1>0, <2>1, <2>2 DEF Ended
  <2>3. CASE n[1] = x
    <3>1. gen'[x] = gen[x] + 1 /\ state'[x] = "CREATE"
      BY <1>0
    <3>2. gen[x] \in Nat /\ n[2] \in Nat
      BY <1>0, <2>1
    <3>3. Ended(n) <=> gen[x] >= n[2]
      BY <1>0, <2>3, <3>2 DEF Ended
    <3>4. Ended(n)' <=> gen[x] + 1 > n[2]
      BY <2>3, <3>1 DEF Ended
    <3>. QED BY <3>2, <3>3, <3>4
  <2>. QED BY <2>2, <2>3
<1>4. Elems(exit_queue[x]) = {}
  BY <1>0 DEF IInv, ExitOK
<1>5. WaitOK' /\ ExitOK' /\ NotifyOK' /\ NoLostWaiter'
  <2>1. \A y \in Co : Elems(exit_queue[y]) # {} => gen'[y] = gen[y]
    BY <1>0, <1>4
  <2>2. \A y \in Co : state'[y] \in {"FREE", "STOP"} => state[y] \in {"FREE", "STOP"}
    BY <1>0
  <2>. QED BY <1>2, <1>3, <2>1, <2>2, QuietWaits DEF Alloc
<1>6. StackOK'
  <2>1. \A c \in Co : state'[c] = "RUNNING" <=> state[c] = "RUNNING"
    BY <1>0
  <2>. QED BY <2>1 DEF IInv, StackOK, Alloc, loop_vars
<1>7. ParkOK'
  <2>1. \A c \in Co : state'[c] = "SUSPEND" <=> state[c] = "SUSPEND"
    BY <1>0
  <2>2. state'[Tw] = state[Tw]
    BY <1>0
  <2>. QED BY <2>1, <2>2, Zenon DEF IInv, ParkOK, Alloc, loop_vars
<1>8. DelOK' /\ EndedQueued'
  <2>1. \A c \in Co : state'[c] = "STOP" <=> state[c] = "STOP"
    BY <1>0
  <2>2. \A c \in Co : c # x => is_end_delete'[c] = is_end_delete[c]
    BY DEF Alloc, IInv, TypeOK
  <2>3. delay_del_list' = delay_del_list
    BY DEF Alloc, task_vars
  <2>4. DelOK'
    BY <1>0, <2>1, <2>2, <2>3 DEF IInv, DelOK
  <2>5. EndedQueued'
    BY <1>0, <1>1, <2>1, <2>2, <2>3 DEF IInv, EndedQueued
  <2>. QED BY <2>4, <2>5
<1>9. TaskOK' /\ ReadyOK' /\ CachedNextValid'
  BY <1>1 DEF IInv, TaskOK, ReadyOK, CachedNextValid, Alloc, task_vars, loop_vars,
              wait_vars
<1>. QED BY <1>5, <1>6, <1>7, <1>8, <1>9 DEF IInv

\* free_coroutine of an ended coroutine preserves IInv.
LEMMA FreeStep ==
    ASSUME IInv, TypeOK', NEW x \in User, Free(x)
    PROVE  IInv'
<1>0. /\ x \in Co /\ x # Main /\ x # Tw
      /\ state \in [Co -> {"FREE", "CREATE", "RUNNING", "SUSPEND", "STOP"}]
      /\ state[x] = "STOP" /\ ~is_end_delete[x]
      /\ state' = [state EXCEPT ![x] = "FREE"]
  BY CoAssumption, ZenonT(30) DEF Free, IInv, TypeOK, Co
<1>1. \A t : Linked(t)' <=> Linked(t)
  BY DEF Free, Linked, task_vars, loop_vars
<1>2. \A n \in Inc : NotifyPending(n)' <=> NotifyPending(n)
  BY <1>1 DEF NotifyPending, Free, loop_vars
<1>3. \A n \in Inc : Ended(n)' <=> Ended(n)
  BY <1>0, IncFacts DEF Ended, Free, life_vars
<1>4. WaitOK' /\ ExitOK' /\ NotifyOK' /\ NoLostWaiter'
  <2>1. \A y \in Co : state'[y] \in {"FREE", "STOP"} => state[y] \in {"FREE", "STOP"}
    BY <1>0
  <2>. QED BY <1>2, <1>3, <2>1, QuietWaits DEF Free, life_vars
<1>5. \A c \in Co : /\ state'[c] = "RUNNING" <=> state[c] = "RUNNING"
                    /\ state'[c] = "SUSPEND" <=> state[c] = "SUSPEND"
                    /\ state'[c] = "STOP" <=> state[c] = "STOP" /\ c # x
                    /\ c = Tw => state'[c] = state[c]
  BY <1>0
<1>6. StackOK'
  BY <1>5 DEF IInv, StackOK, Free, loop_vars
<1>7. ParkOK'
  BY <1>5 DEF IInv, ParkOK, Free, loop_vars, Co
<1>8. DelOK'
  BY <1>0, <1>5 DEF IInv, DelOK, Free, task_vars, life_vars
<1>9. EndedQueued'
  BY <1>1, <1>5 DEF IInv, EndedQueued, Free, task_vars, life_vars
<1>10. TaskOK' /\ ReadyOK' /\ CachedNextValid'
  BY <1>1 DEF IInv, TaskOK, ReadyOK, CachedNextValid, Free, task_vars, loop_vars,
              wait_vars
<1>. QED BY <1>4, <1>6, <1>7, <1>8, <1>9, <1>10 DEF IInv

\* wait() of an ended coroutine preserves IInv.
LEMMA WaitEndedStep ==
    ASSUME IInv, TypeOK', NEW x \in User, WaitEnded(x)
    PROVE  IInv'
<1>0. UNCHANGED <<curr_co, run_queue, state, pc, life_vars, wait_vars, task_vars,
                  loop_vars>>
  BY DEF WaitEnded
<1>1. \A t : Linked(t)' <=> Linked(t)
  BY <1>0 DEF Linked, task_vars, loop_vars
<1>2. \A n \in Inc : NotifyPending(n)' <=> NotifyPending(n)
  BY <1>0, <1>1 DEF NotifyPending, loop_vars
<1>3. \A n \in Inc : Ended(n)' <=> Ended(n)
  BY <1>0 DEF Ended, life_vars
<1>4. WaitOK' /\ ExitOK' /\ NotifyOK' /\ NoLostWaiter'
  BY <1>0, <1>2, <1>3, QuietWaits DEF life_vars
<1>5. StackOK' /\ ParkOK'
  BY <1>0 DEF IInv, StackOK, ParkOK, loop_vars
<1>6. DelOK' /\ EndedQueued'
  BY <1>0, <1>1, Zenon DEF IInv, DelOK, EndedQueued, task_vars, life_vars
<1>7. TaskOK' /\ ReadyOK' /\ CachedNextValid'
  BY <1>0, <1>1, Zenon DEF IInv, TaskOK, ReadyOK, CachedNextValid, task_vars, loop_vars,
                    wait_vars
<1>. QED BY <1>4, <1>5, <1>6, <1>7 DEF IInv

\* Parking in wait() preserves IInv: the caller is on the queue of the
\* incarnation it waits for.
LEMMA WaitStep ==
    ASSUME IInv, TypeOK', NEW x \in User, NEW timed \in BOOLEAN, Wait(x, timed)
    PROVE  IInv'
<1>. DEFINE why == IF timed THEN "twait" ELSE "wait"
<1>0. /\ curr_co # Main /\ curr_co # Tw /\ curr_co \in User /\ x # curr_co
      /\ x \in Co /\ User \subseteq Co
  BY CoAssumption DEF Wait, Co
<1>1. PICK c \in Co : c = curr_co /\ c \in User /\ c # x
  BY <1>0
<1>2. \A t : Linked(t)' <=> Linked(t)
  BY DEF Wait, Linked, task_vars, loop_vars
<1>3. /\ StackOK' /\ ParkOK' /\ DelOK' /\ EndedQueued'
      /\ \A n \in Inc : Ended(n)' <=> Ended(n)
      /\ state' = [state EXCEPT ![c] = "SUSPEND"]
      /\ pc' = [pc EXCEPT ![c] = why]
      /\ pc[c] = "run"
      /\ state[c] = "RUNNING"
  BY <1>0, <1>1, <1>2, ParkStep, Zenon DEF Wait, life_vars, task_vars, loop_vars
<1>4. \A n \in Inc : NotifyPending(n)' <=> NotifyPending(n)
  BY <1>2 DEF NotifyPending, Wait, loop_vars
<1>5. PICK m \in Inc : m = <<x, gen[x]>> /\ m[1] = x /\ m[2] = gen[x]
  BY <1>0, IncFacts, Zenon DEF IInv, TypeOK
<1>6. /\ target' = [target EXCEPT ![c] = m]
      /\ exit_queue' = [exit_queue EXCEPT ![x] = Append(exit_queue[x], c)]
      /\ notify_queue' = notify_queue
      /\ timers' \in {timers, timers \cup {c}}
      /\ ~timed => timers' = timers
      /\ gen' = gen
  BY <1>1, <1>5 DEF Wait, life_vars
<1>7. /\ state \in [Co -> {"FREE", "CREATE", "RUNNING", "SUSPEND", "STOP"}]
      /\ pc \in [Co -> {"run", "yield", "poll", "back", "wait", "twait"}]
      /\ target \in [Co -> Inc \cup {NoInc}]
      /\ exit_queue \in [Co -> Seq(Co)]
      /\ timers \subseteq Co
  BY <1>0, Zenon DEF IInv, TypeOK
<1>8. target[c] = NoInc
  BY <1>3, Zenon DEF IInv, WaitOK, Waiting
<1>9. /\ \A y \in Co : c \notin Elems(exit_queue[y])
      /\ \A n \in Inc : c \notin Elems(notify_queue[n])
  <2>1. \A y \in Co : <<y, gen[y]>> \in Inc
    BY IncFacts DEF IInv, TypeOK
  <2>2. NoInc \notin Inc
    BY IncFacts
  <2>3. \A y \in Co : c \in Elems(exit_queue[y]) => NoInc = <<y, gen[y]>>
    BY <1>8, Zenon DEF IInv, ExitOK
  <2>4. \A n \in Inc : c \in Elems(notify_queue[n]) => NoInc = n
    BY <1>8 DEF IInv, NotifyOK
  <2>. QED BY <2>1, <2>2, <2>3, <2>4, Zenon
<1>10. /\ NoDup(exit_queue'[x])
       /\ Elems(exit_queue'[x]) = Elems(exit_queue[x]) \cup {c}
       /\ \A y \in Co \ {x} : exit_queue'[y] = exit_queue[y]
  <2>1. NoDup(exit_queue[x]) /\ exit_queue[x] \in Seq(Co)
    BY <1>0, <1>7 DEF IInv, ExitOK
  <2>2. exit_queue'[x] = Append(exit_queue[x], c)
    BY <1>0, <1>6, <1>7
  <2>3. c \notin Elems(exit_queue[x])
    BY <1>0, <1>9
  <2>4. /\ NoDup(Append(exit_queue[x], c))
        /\ Elems(Append(exit_queue[x], c)) = Elems(exit_queue[x]) \cup {c}
    <3>1. PICK q \in Seq(Co) : q = exit_queue[x]
      BY <2>1, Zenon
    <3>2. NoDup(q) /\ c \notin Elems(q)
      BY <2>1, <2>3, <3>1, Zenon
    <3>3. NoDup(Append(q, c)) /\ Elems(Append(q, c)) = Elems(q) \cup {c}
      BY <3>2, AppendFacts
    <3>. QED BY <3>1, <3>3, Zenon
  <2>5. \A y \in Co \ {x} : exit_queue'[y] = exit_queue[y]
    BY <1>6, <1>7
  <2>. QED BY <2>2, <2>4, <2>5, Zenon
<1>11. WaitOK'
  <2>1. \A w \in Co : Waiting(w)' <=> Waiting(w) \/ w = c
    BY <1>3, <1>7 DEF Waiting
  <2>2. m # NoInc
    BY <1>5, IncFacts
  <2>3. \A w \in timers' : pc'[w] = "twait"
    BY <1>3, <1>6, <1>7 DEF IInv, WaitOK
  <2>. QED BY <1>6, <1>7, <2>1, <2>2, <2>3 DEF IInv, WaitOK
<1>12. ExitOK'
  <2>. SUFFICES ASSUME NEW y \in Co
                PROVE  /\ NoDup(exit_queue'[y])
                       /\ \A w \in Elems(exit_queue'[y]) :
                            w \in Co /\ target'[w] = <<y, gen'[y]>>
                       /\ state'[y] \in {"FREE", "STOP"} => Elems(exit_queue'[y]) = {}
    BY DEF ExitOK
  <2>1. /\ NoDup(exit_queue[y])
        /\ \A w \in Elems(exit_queue[y]) : w \in Co /\ target[w] = <<y, gen[y]>>
        /\ state[y] \in {"FREE", "STOP"} => Elems(exit_queue[y]) = {}
    BY DEF IInv, ExitOK
  <2>2. state'[y] \in {"FREE", "STOP"} => state[y] \in {"FREE", "STOP"}
    BY <1>3, <1>7
  <2>3. state'[x] \notin {"FREE", "STOP"}
    BY <1>0, <1>1, <1>3, <1>7, Zenon DEF Wait
  <2>4. CASE y = x
    <3>1. NoDup(exit_queue'[y]) /\ Elems(exit_queue'[y]) = Elems(exit_queue[y]) \cup {c}
      BY <1>10, <2>4
    <3>2. target'[c] = <<y, gen'[y]>>
      BY <1>5, <1>6, <1>7, <2>4
    <3>3. \A w \in Elems(exit_queue[y]) : w \in Co /\ target'[w] = <<y, gen'[y]>>
      BY <1>6, <1>7, <1>9, <2>1
    <3>. QED BY <2>3, <2>4, <3>1, <3>2, <3>3
  <2>5. CASE y # x
    BY <1>6, <1>7, <1>9, <1>10, <2>1, <2>2, <2>5, Zenon
  <2>. QED BY <2>4, <2>5
<1>13. NotifyOK'
  <2>. SUFFICES ASSUME NEW n \in Inc
                PROVE  /\ NoDup(notify_queue'[n])
                       /\ \A w \in Elems(notify_queue'[n]) : w \in Co /\ target'[w] = n
                       /\ ~Ended(n)' => Elems(notify_queue'[n]) = {} /\ ~NotifyPending(n)'
    BY Zenon DEF NotifyOK
  <2>1. /\ NoDup(notify_queue[n])
        /\ \A w \in Elems(notify_queue[n]) : w \in Co /\ target[w] = n
        /\ ~Ended(n) => Elems(notify_queue[n]) = {} /\ ~NotifyPending(n)
    BY Zenon DEF IInv, NotifyOK
  <2>2. \A w \in Elems(notify_queue[n]) : target'[w] = target[w]
    BY <1>6, <1>7, <1>9, <2>1, Zenon
  <2>. QED BY <1>3, <1>4, <1>6, <2>1, <2>2
<1>14. NoLostWaiter'
  <2>. SUFFICES ASSUME NEW w \in Co, NEW n \in Inc, Waiting(w)', target'[w] = n
                PROVE  \/ ~Ended(n)' /\ w \in Elems(exit_queue'[n[1]])
                       \/ /\ Ended(n)'
                          /\ w \in Elems(notify_queue'[n])
                          /\ NotifyPending(n)'
    BY Zenon DEF NoLostWaiter
  <2>1. CASE w = c
    <3>1. n = m /\ w \in Elems(exit_queue'[x])
      BY <1>6, <1>7, <1>10, <2>1
    <3>2. ~Ended(m)
      <4>1. state[x] \notin {"FREE", "STOP"}
        BY DEF Wait
      <4>2. m[2] \in Int
        BY IncFacts
      <4>3. m[1] = x /\ gen[m[1]] = m[2]
        BY <1>5
      <4>4. ~(gen[m[1]] > m[2])
        BY <4>2, <4>3
      <4>5. state[m[1]] \notin {"FREE", "STOP"}
        BY <4>1, <4>3, Zenon
      <4>. QED BY <4>4, <4>5, Zenon DEF Ended
    <3>. QED BY <1>3, <1>5, <3>1, <3>2, Zenon
  <2>2. CASE w # c
    <3>1. Waiting(w) /\ target[w] = n
      BY <1>3, <1>6, <1>7, <2>2 DEF Waiting
    <3>2. \/ ~Ended(n) /\ w \in Elems(exit_queue[n[1]])
          \/ Ended(n) /\ w \in Elems(notify_queue[n]) /\ NotifyPending(n)
      BY <3>1, Zenon DEF IInv, NoLostWaiter
    <3>3. n[1] \in Co
      BY IncFacts
    <3>. QED BY <1>3, <1>4, <1>6, <1>10, <3>2, <3>3, Zenon
  <2>. QED BY <2>1, <2>2, Zenon
<1>15. /\ delay_tasks' = delay_tasks /\ delay_list' = delay_list /\ ready' = ready
       /\ \A y \in Co : pc[y] \in {"back", "poll"} => pc'[y] = pc[y]
  BY <1>3, <1>7, Zenon DEF Wait, task_vars, loop_vars
<1>16. TaskOK'
  BY <1>2, <1>15, Zenon DEF IInv, TaskOK
<1>17. ReadyOK'
  BY <1>15 DEF IInv, TypeOK, ReadyOK
<1>18. CachedNextValid'
  BY <1>6, Zenon DEF IInv, CachedNextValid, Wait, loop_vars
<1>. QED BY <1>3, <1>11, <1>12, <1>13, <1>14, <1>16, <1>17, <1>18 DEF IInv

\* epoll_wait preserves IInv.
LEMMA BeginDispatchStep ==
    ASSUME IInv, TypeOK', BeginDispatch
    PROVE  IInv'
<1>0. UNCHANGED <<curr_co, run_queue, state, pc, life_vars, wait_vars, task_vars,
                  delay_list, note, next_it>>
  BY DEF BeginDispatch
<1>1. \A t : Linked(t)' <=> Linked(t)
  BY <1>0 DEF Linked, task_vars
<1>2. \A n \in Inc : NotifyPending(n)' <=> NotifyPending(n)
  BY <1>0, <1>1 DEF NotifyPending
<1>3. \A n \in Inc : Ended(n)' <=> Ended(n)
  BY <1>0 DEF Ended, life_vars
<1>4. WaitOK' /\ ExitOK' /\ NotifyOK' /\ NoLostWaiter'
  BY <1>0, <1>2, <1>3, QuietWaits DEF life_vars
<1>5. StackOK' /\ ParkOK'
  BY <1>0, Zenon DEF BeginDispatch, IInv, StackOK, ParkOK
<1>6. DelOK' /\ EndedQueued'
  BY <1>0, <1>1, Zenon DEF IInv, DelOK, EndedQueued, task_vars, life_vars
<1>7. TaskOK' /\ CachedNextValid'
  BY <1>0, <1>1, Zenon DEF IInv, TaskOK, CachedNextValid, task_vars, wait_vars
<1>8. ReadyOK'
  BY <1>0 DEF BeginDispatch, ReadyOK, Polling
<1>. QED BY <1>4, <1>5, <1>6, <1>7, <1>8 DEF IInv

\* Main runs, so Tw does not.
LEMMA MainAlone ==
    ASSUME IInv, curr_co = Main, stage # "boot"
    PROVE  state[Tw] # "RUNNING"
<1>1. Elems(run_queue) = {}
  BY ElemsEmpty, Zenon DEF IInv, StackOK, TypeOK
<1>. QED BY <1>1, CoAssumption DEF IInv, StackOK, Co

\* The swap of the delayed tasks in proc_tasks preserves IInv.
LEMMA TakeDelayTasksStep ==
    ASSUME IInv, TypeOK', TakeDelayTasks
    PROVE  IInv'
<1>0. /\ UNCHANGED <<curr_co, run_queue, state, pc, life_vars, wait_vars,
                     delay_del_list, ready, note, next_it>>
      /\ delay_list = <<>> /\ delay_list' = delay_tasks /\ delay_tasks' = <<>>
      /\ stage' \in {"idle", "delay"} /\ stage = "net" /\ curr_co = Main
      /\ ready' = {}
  BY Zenon DEF TakeDelayTasks, IInv, TypeOK
<1>1. Elems(<<>>) = {}
  BY DEF Elems
<1>2. \A t : Linked(t)' <=> Linked(t)
  BY <1>0, <1>1 DEF Linked
<1>3. \A n \in Inc : NotifyPending(n)' <=> NotifyPending(n)
  BY <1>0, <1>2 DEF NotifyPending
<1>4. \A n \in Inc : Ended(n)' <=> Ended(n)
  BY <1>0 DEF Ended, life_vars
<1>5. WaitOK' /\ ExitOK' /\ NotifyOK' /\ NoLostWaiter'
  BY <1>0, <1>3, <1>4, QuietWaits DEF life_vars
<1>6. StackOK' /\ ParkOK'
  BY <1>0, MainAlone, Zenon DEF IInv, StackOK, ParkOK
<1>7. DelOK' /\ EndedQueued'
  BY <1>0, <1>2, Zenon DEF IInv, DelOK, EndedQueued, life_vars
<1>8. TaskOK'
  <2>1. NoDup(<<>>)
    BY DEF NoDup
  <2>. QED BY <1>0, <1>1, <1>2, <2>1 DEF IInv, TaskOK
<1>9. ReadyOK' /\ CachedNextValid'
  BY <1>0 DEF IInv, ReadyOK, CachedNextValid, wait_vars
<1>. QED BY <1>5, <1>6, <1>7, <1>8, <1>9 DEF IInv

\* The end of proc_exit_notify preserves IInv: its list is empty by then.
LEMMA EndNotifyStep ==
    ASSUME IInv, TypeOK', EndNotify
    PROVE  IInv'
<1>0. /\ UNCHANGED <<curr_co, run_queue, state, pc, life_vars, wait_vars, task_vars,
                     stage, ready, delay_list, next_it>>
      /\ note # NoInc /\ next_it = End /\ note' = NoInc
      /\ note \in Inc
  BY DEF EndNotify, IInv, TypeOK
<1>1. \A t : Linked(t)' <=> Linked(t)
  BY <1>0 DEF Linked, task_vars
<1>2. \A n \in Inc : Ended(n)' <=> Ended(n)
  BY <1>0 DEF Ended, life_vars
<1>3. Elems(notify_queue[note]) = {}
  <2>1. CachedNextValid
    BY DEF IInv
  <2>2. notify_queue[note] = <<>>
    BY <1>0, <2>1, Zenon DEF CachedNextValid
  <2>3. Elems(<<>>) = {}
    BY DEF Elems
  <2> QED  BY <2>2, <2>3, Zenon
<1>4. \A n \in Inc : /\ NotifyPending(n)' => NotifyPending(n)
                     /\ NotifyPending(n) => NotifyPending(n)' \/ Elems(notify_queue[n]) = {}
  BY <1>0, <1>1, <1>3, IncFacts DEF NotifyPending
<1>5. \A w : Waiting(w)' <=> Waiting(w)
  BY <1>0 DEF Waiting
<1>6. WaitOK' /\ ExitOK' /\ NotifyOK'
  <2>1. WaitOK'
    BY <1>0, <1>5 DEF IInv, WaitOK, wait_vars
  <2>2. ExitOK'
    BY <1>0 DEF IInv, ExitOK, wait_vars, life_vars
  <2>3. NotifyOK'
    <3>1. notify_queue' = notify_queue /\ target' = target
      BY <1>0 DEF wait_vars
    <3>2. \A n \in Inc : NotifyPending(n)' => NotifyPending(n)
      BY <1>4
    <3>. QED BY <1>2, <3>1, <3>2, Zenon DEF IInv, NotifyOK
  <2>. QED BY <2>1, <2>2, <2>3
<1>7. NoLostWaiter'
  BY <1>0, <1>2, <1>4, <1>5, Zenon DEF IInv, NoLostWaiter, wait_vars
<1>8. StackOK' /\ ParkOK'
  BY <1>0 DEF IInv, StackOK, ParkOK
<1>9. DelOK' /\ EndedQueued'
  BY <1>0, <1>1, Zenon DEF IInv, DelOK, EndedQueued, task_vars, life_vars
<1>10. TaskOK' /\ ReadyOK' /\ CachedNextValid'
  BY <1>0, <1>1, Zenon DEF IInv, TaskOK, ReadyOK, CachedNextValid, task_vars
<1>. QED BY <1>6, <1>7, <1>8, <1>9, <1>10 DEF IInv

\* The return of dispatch() preserves IInv.
LEMMA EndDispatchStep ==
    ASSUME IInv, TypeOK', EndDispatch
    PROVE  IInv'
<1>0. /\ UNCHANGED <<curr_co, run_queue, state, pc, life_vars, wait_vars, task_vars,
                     ready, delay_list, note, next_it>>
      /\ stage' = "idle" /\ stage # "boot"
  BY DEF EndDispatch
<1>1. \A t : Linked(t)' <=> Linked(t)
  BY <1>0 DEF Linked, task_vars
<1>2. \A n \in Inc : NotifyPending(n)' <=> NotifyPending(n)
  BY <1>0, <1>1 DEF NotifyPending
<1>3. \A n \in Inc : Ended(n)' <=> Ended(n)
  BY <1>0 DEF Ended, life_vars
<1>4. WaitOK' /\ ExitOK' /\ NotifyOK' /\ NoLostWaiter'
  BY <1>0, <1>2, <1>3, QuietWaits DEF life_vars
<1>5. StackOK' /\ ParkOK'
  BY <1>0 DEF IInv, StackOK, ParkOK
<1>6. DelOK' /\ EndedQueued'
  BY <1>0, <1>1, Zenon DEF IInv, DelOK, EndedQueued, task_vars, life_vars
<1>7. TaskOK' /\ ReadyOK' /\ CachedNextValid'
  BY <1>0, <1>1, Zenon DEF IInv, TaskOK, ReadyOK, CachedNextValid, task_vars, wait_vars
<1>. QED BY <1>4, <1>5, <1>6, <1>7 DEF IInv

\* The start of proc_exit_notify preserves IInv.
LEMMA BeginNotifyStep ==
    ASSUME IInv, TypeOK', BeginNotify
    PROVE  IInv'
<1>0. /\ UNCHANGED <<curr_co, run_queue, state, pc, life_vars, wait_vars, task_vars,
                     stage, ready>>
      /\ delay_list # <<>> /\ delay_list' = Tail(delay_list) /\ note = NoInc
      /\ note' = Head(delay_list).inc /\ Head(delay_list).kind = "exit"
      /\ delay_list \in Seq(Task)
  BY Zenon DEF BeginNotify, AtTask, IInv, TypeOK
<1>1. /\ Head(delay_list) \in Task
      /\ Elems(delay_list) = {Head(delay_list)} \cup Elems(Tail(delay_list))
      /\ NoDup(Tail(delay_list))
  BY <1>0, TailFacts DEF IInv, TaskOK
<1>2. PICK m \in Inc : Head(delay_list) = ExitTask(m) /\ note' = m
  BY <1>0, <1>1, TaskFacts
<1>3. /\ \A t : Linked(t) <=> Linked(t)' \/ t = ExitTask(m)
      /\ Elems(delay_list') \subseteq Elems(delay_list)
  BY <1>0, <1>1, <1>2 DEF Linked, task_vars
<1>4. \A n \in Inc : NotifyPending(n)' <=> NotifyPending(n)
  <2>. TAKE n \in Inc
  <2>1. n # NoInc
    BY IncFacts
  <2>2. ExitTask(n) = ExitTask(m) <=> n = m
    BY TaskFacts
  <2>. QED BY <1>0, <1>2, <1>3, <2>1, <2>2 DEF NotifyPending
<1>5. \A n \in Inc : Ended(n)' <=> Ended(n)
  BY <1>0 DEF Ended, life_vars
<1>6. WaitOK' /\ ExitOK' /\ NotifyOK' /\ NoLostWaiter'
  BY <1>0, <1>4, <1>5, QuietWaits DEF life_vars
<1>7. StackOK' /\ ParkOK'
  BY <1>0 DEF IInv, StackOK, ParkOK
<1>8. DelOK' /\ EndedQueued'
  BY <1>0, <1>3, TaskFacts, Zenon DEF IInv, DelOK, EndedQueued, task_vars, life_vars
<1>9. TaskOK'
  BY <1>0, <1>1, <1>3, Zenon DEF IInv, TaskOK, task_vars
<1>10. ReadyOK'
  BY <1>0 DEF IInv, ReadyOK
<1>11. CachedNextValid'
  <2>1. notify_queue' = notify_queue /\ notify_queue[m] \in Seq(Co)
    BY <1>0 DEF wait_vars, IInv, TypeOK
  <2>2. next_it' = IF notify_queue[m] = <<>> THEN End ELSE Head(notify_queue[m])
    BY <1>2, Zenon DEF BeginNotify, First
  <2>3. notify_queue[m] # <<>> => Head(notify_queue[m]) # End
    BY <2>1, TailFacts, EndAssumption
  <2>. QED BY <1>2, <2>1, <2>2, <2>3 DEF CachedNextValid
<1>. QED BY <1>6, <1>7, <1>8, <1>9, <1>10, <1>11 DEF IInv

\* do_delay_del_co_task preserves IInv: it frees all that had ended.
LEMMA DeleteEndedStep ==
    ASSUME IInv, TypeOK', DeleteEnded
    PROVE  IInv'
<1>0. /\ UNCHANGED <<curr_co, run_queue, pc, life_vars, wait_vars, delay_tasks,
                     stage, ready, note, next_it>>
      /\ delay_list # <<>> /\ delay_list' = Tail(delay_list)
      /\ Head(delay_list) = DelTask
      /\ delay_list \in Seq(Task)
      /\ state' = [c \in Co |-> IF c \in Elems(delay_del_list) THEN "FREE" ELSE state[c]]
      /\ delay_del_list' = <<>>
  BY DEF DeleteEnded, AtTask, IInv, TypeOK
<1>1. /\ Elems(delay_list) = {DelTask} \cup Elems(Tail(delay_list))
      /\ NoDup(Tail(delay_list))
  BY <1>0, TailFacts, Zenon DEF IInv, TaskOK
<1>2. /\ \A t : Linked(t) <=> Linked(t)' \/ t = DelTask
      /\ Elems(delay_list') \subseteq Elems(delay_list)
  BY <1>0, <1>1 DEF Linked
<1>3. \A n \in Inc : NotifyPending(n)' <=> NotifyPending(n)
  BY <1>0, <1>2, TaskFacts, Zenon DEF NotifyPending
<1>4. \A c \in Co : \/ state'[c] = state[c] /\ c \notin Elems(delay_del_list)
                    \/ state'[c] = "FREE" /\ state[c] = "STOP" /\ is_end_delete[c]
  <2>. TAKE c \in Co
  <2>1. CASE c \in Elems(delay_del_list)
    BY <1>0, <2>1 DEF IInv, DelOK
  <2>2. CASE c \notin Elems(delay_del_list)
    BY <1>0, <2>2
  <2>. QED BY <2>1, <2>2, Zenon
<1>5. \A n \in Inc : Ended(n)' <=> Ended(n)
  BY <1>0, <1>4, IncFacts DEF Ended, life_vars
<1>6. WaitOK' /\ ExitOK' /\ NotifyOK' /\ NoLostWaiter'
  BY <1>0, <1>3, <1>4, <1>5, QuietWaits, Zenon DEF life_vars
<1>7. StackOK'
  BY <1>0, <1>4 DEF IInv, StackOK
<1>8. ParkOK'
  BY <1>0, <1>4, Zenon DEF IInv, ParkOK, Co
<1>9. DelOK'
  <2>1. Elems(<<>>) = {}
    BY DEF Elems
  <2>2. Elems(delay_del_list') = {}
    BY <1>0, <2>1, Zenon
  <2>. QED BY <2>2, Zenon DEF DelOK
<1>10. EndedQueued'
  BY <1>0, <1>4, Zenon DEF IInv, EndedQueued, life_vars
<1>11. TaskOK'
  BY <1>0, <1>1, <1>2, Zenon DEF IInv, TaskOK
<1>12. ReadyOK' /\ CachedNextValid'
  BY <1>0, Zenon DEF IInv, ReadyOK, CachedNextValid, wait_vars
<1>. QED BY <1>6, <1>7, <1>8, <1>9, <1>10, <1>11, <1>12 DEF IInv

\* The end of a coroutine (co_main_helper2) preserves IInv: its exit queue moves
\* to the list of the incarnation, together with the task that will empty it.
LEMMA ExitStep ==
    ASSUME IInv, TypeOK', Exit
    PROVE  IInv'
<1>0. /\ curr_co # Main /\ curr_co # Tw /\ curr_co \in Co
      /\ JumpBack("STOP") /\ stage' = stage
  BY CoAssumption, Zenon DEF Exit, Co, loop_vars
<1>1. PICK c \in Co : c = curr_co
  BY <1>0
<1>2. PICK m \in Inc : m = <<c, gen[c]>> /\ m[1] = c /\ m[2] = gen[c]
  BY IncFacts, Zenon DEF IInv, TypeOK
<1>3. /\ StackOK'
      /\ state' = [state EXCEPT ![c] = "STOP"]
      /\ state[c] = "RUNNING"
      /\ pc[c] = "run"
  BY <1>0, <1>1, PopStack
<1>4. /\ notify_queue' = [notify_queue EXCEPT ![m] = exit_queue[c]]
      /\ exit_queue' = [exit_queue EXCEPT ![c] = <<>>]
      /\ delay_tasks' = ExitTasks(c)
      /\ delay_del_list' = IF is_end_delete[c] THEN Append(delay_del_list, c)
                           ELSE delay_del_list
      /\ UNCHANGED <<pc, target, timers, gen, is_end_delete, ready, delay_list, note,
                     next_it>>
  BY <1>1, <1>2, Zenon DEF Exit, life_vars, loop_vars
<1>5. /\ state \in [Co -> {"FREE", "CREATE", "RUNNING", "SUSPEND", "STOP"}]
      /\ gen \in [Co -> 0..MaxGen]
      /\ exit_queue \in [Co -> Seq(Co)]
      /\ notify_queue \in [Inc -> Seq(Co)]
      /\ delay_tasks \in Seq(Task)
      /\ delay_del_list \in Seq(Co)
      /\ is_end_delete \in [Co -> BOOLEAN]
  BY Zenon DEF IInv, TypeOK
<1>6. ~Ended(m)
  BY <1>2, <1>3, <1>5 DEF Ended
<1>7. \A n \in Inc : Ended(n)' <=> Ended(n) \/ n = m
  <2>. TAKE n \in Inc
  <2>1. n[1] \in Co /\ n = <<n[1], n[2]>>
    BY IncFacts
  <2>2. CASE n[1] # c
    BY <1>2, <1>3, <1>4, <1>5, <2>1, <2>2 DEF Ended
  <2>3. CASE n[1] = c
    <3>1. n = m <=> n[2] = gen[c]
      BY <1>2, <2>1, <2>3
    <3>2. state'[c] = "STOP" /\ gen' = gen
      BY <1>3, <1>4, <1>5
    <3>. QED BY <1>3, <2>3, <3>1, <3>2 DEF Ended
  <2>. QED BY <2>2, <2>3
<1>8. Elems(notify_queue[m]) = {} /\ ~NotifyPending(m)
  BY <1>6, Zenon DEF IInv, NotifyOK
<1>9. /\ \A t : Linked(t)' <=> \/ Linked(t)
                               \/ t = ExitTask(m) /\ exit_queue[c] # <<>>
                               \/ t = DelTask /\ is_end_delete[c]
      /\ NoDup(delay_tasks')
      /\ Elems(delay_tasks') \cap Elems(delay_list') = {}
  <2>. DEFINE q == IF exit_queue[c] = <<>> THEN delay_tasks
                   ELSE Append(delay_tasks, ExitTask(m))
  <2>1. /\ ExitTask(m) \in Task /\ DelTask \in Task /\ ExitTask(m) # DelTask
        /\ NoDup(delay_tasks) /\ Elems(delay_tasks) \cap Elems(delay_list) = {}
    BY TaskFacts, Zenon DEF IInv, TaskOK
  <2>2. ExitTask(m) \notin Elems(delay_tasks) \cup Elems(delay_list)
    BY <1>8 DEF NotifyPending, Linked
  <2>3. /\ q \in Seq(Task) /\ NoDup(q)
        /\ Elems(q) = Elems(delay_tasks) \cup
                       (IF exit_queue[c] = <<>> THEN {} ELSE {ExitTask(m)})
    BY <1>5, <2>1, <2>2, AppendFacts
  <2>4. delay_tasks' = IF is_end_delete[c]
                       THEN (IF Linked(DelTask) THEN q ELSE Append(q, DelTask))
                       ELSE q
    BY <1>2, <1>4, Zenon DEF ExitTasks, Delayed
  <2>. HIDE DEF q
  <2>5. ~Linked(DelTask) => DelTask \notin Elems(q)
    BY <2>1, <2>3, Zenon DEF Linked
  <2>6. /\ NoDup(delay_tasks')
        /\ Elems(delay_tasks') = Elems(q) \cup
             (IF is_end_delete[c] /\ ~Linked(DelTask) THEN {DelTask} ELSE {})
    <3>1. CASE is_end_delete[c] /\ ~Linked(DelTask)
      <4>1. delay_tasks' = Append(q, DelTask) /\ DelTask \notin Elems(q)
        BY <2>4, <2>5, <3>1
      <4>2. NoDup(Append(q, DelTask)) /\ Elems(Append(q, DelTask)) = Elems(q) \cup {DelTask}
        <5>1. q \in Seq(Task) /\ NoDup(q) /\ DelTask \in Task
          BY <2>1, <2>3
        <5>. QED BY <4>1, <5>1, AppendFacts
      <4>. QED BY <3>1, <4>1, <4>2
    <3>2. CASE ~(is_end_delete[c] /\ ~Linked(DelTask))
      <4>1. delay_tasks' = q
        BY <2>4, <3>2
      <4>. QED BY <2>3, <3>2, <4>1
    <3>. QED BY <3>1, <3>2
  <2>7. Elems(delay_tasks') \cap Elems(delay_list') = {}
    BY <1>4, <2>1, <2>2, <2>3, <2>6, Zenon DEF Linked
  <2>8. ASSUME NEW t
        PROVE  Linked(t)' <=> \/ Linked(t)
                              \/ t = ExitTask(m) /\ exit_queue[c] # <<>>
                              \/ t = DelTask /\ is_end_delete[c]
    <3>1. Linked(t)' <=> \/ t \in Elems(q)
                         \/ t \in Elems(delay_list)
                         \/ is_end_delete[c] /\ ~Linked(DelTask) /\ t = DelTask
      BY <1>4, <2>6, Zenon DEF Linked
    <3>2. t \in Elems(q) <=> \/ t \in Elems(delay_tasks)
                             \/ t = ExitTask(m) /\ exit_queue[c] # <<>>
      BY <2>3, Zenon
    <3>. QED BY <3>1, <3>2, Zenon DEF Linked
  <2>. QED BY <2>6, <2>7, <2>8, Zenon
<1>10. \A n \in Inc : NotifyPending(n)' <=>
          NotifyPending(n) \/ (n = m /\ exit_queue[c] # <<>>)
  <2>. TAKE n \in Inc
  <2>1. ExitTask(n) # DelTask /\ (ExitTask(n) = ExitTask(m) <=> n = m)
    BY TaskFacts
  <2>2. Linked(ExitTask(n))' <=> \/ Linked(ExitTask(n))
                                 \/ n = m /\ exit_queue[c] # <<>>
    BY <1>9, <2>1, Zenon
  <2>. QED BY <1>4, <2>2, Zenon DEF NotifyPending
<1>11. ParkOK'
  BY <1>0, <1>1, <1>3, <1>4, <1>5, Zenon DEF IInv, ParkOK, Co
<1>12. WaitOK'
  BY <1>4, Zenon DEF IInv, WaitOK, Waiting
<1>13. Elems(<<>>) = {} /\ NoDup(<<>>)
  BY DEF Elems, NoDup
<1>14. ExitOK'
  <2>. SUFFICES ASSUME NEW y \in Co
                PROVE  /\ NoDup(exit_queue'[y])
                       /\ \A w \in Elems(exit_queue'[y]) :
                            w \in Co /\ target'[w] = <<y, gen'[y]>>
                       /\ state'[y] \in {"FREE", "STOP"} => Elems(exit_queue'[y]) = {}
    BY DEF ExitOK
  <2>1. CASE y = c
    BY <1>4, <1>5, <1>13, <2>1, Zenon
  <2>2. CASE y # c
    BY <1>3, <1>4, <1>5, <2>2, Zenon DEF IInv, ExitOK
  <2>. QED BY <2>1, <2>2, Zenon
<1>15. NotifyOK'
  <2>. SUFFICES ASSUME NEW n \in Inc
                PROVE  /\ NoDup(notify_queue'[n])
                       /\ \A w \in Elems(notify_queue'[n]) : w \in Co /\ target'[w] = n
                       /\ ~Ended(n)' => Elems(notify_queue'[n]) = {} /\ ~NotifyPending(n)'
    BY DEF NotifyOK
  <2>1. CASE n = m
    BY <1>2, <1>4, <1>5, <1>7, <2>1 DEF IInv, ExitOK
  <2>2. CASE n # m
    BY <1>4, <1>5, <1>7, <1>10, <2>2 DEF IInv, NotifyOK
  <2>. QED BY <2>1, <2>2, Zenon
<1>16. NoLostWaiter'
  <2>. SUFFICES ASSUME NEW w \in Co, NEW n \in Inc, Waiting(w)', target'[w] = n
                PROVE  \/ ~Ended(n)' /\ w \in Elems(exit_queue'[n[1]])
                       \/ /\ Ended(n)'
                          /\ w \in Elems(notify_queue'[n])
                          /\ NotifyPending(n)'
    BY DEF NoLostWaiter
  <2>1. \/ ~Ended(n) /\ w \in Elems(exit_queue[n[1]])
        \/ Ended(n) /\ w \in Elems(notify_queue[n]) /\ NotifyPending(n)
    BY <1>4, Zenon DEF IInv, NoLostWaiter, Waiting
  <2>2. CASE n = m
    <3>1. w \in Elems(exit_queue[c])
      BY <1>2, <1>6, <2>1, <2>2, Zenon
    <3>2. exit_queue[c] # <<>>
      BY <1>13, <3>1
    <3>. QED BY <1>4, <1>5, <1>7, <1>10, <2>2, <3>1, <3>2, Zenon
  <2>3. CASE n # m
    <3>1. w \in Elems(exit_queue[n[1]]) => n[1] # c
      <4>. SUFFICES ASSUME w \in Elems(exit_queue[c])
                    PROVE  target[w] = m
        BY <1>4, <2>3
      <4>. QED BY <1>2 DEF IInv, ExitOK
    <3>. QED BY <1>4, <1>5, <1>7, <1>10, <2>1, <2>3, <3>1, IncFacts
  <2>. QED BY <2>2, <2>3, Zenon
<1>17. DelOK' /\ EndedQueued'
  <2>1. Elems(delay_del_list') = Elems(delay_del_list) \cup
                                 (IF is_end_delete[c] THEN {c} ELSE {})
    BY <1>4, <1>5, AppendFacts
  <2>2. \A d \in Co : state'[d] = "STOP" <=> state[d] = "STOP" \/ d = c
    BY <1>3, <1>5
  <2>3. DelOK'
    BY <1>4, <2>1, <2>2, Zenon DEF IInv, DelOK
  <2>4. EndedQueued'
    <3>1. /\ Linked(DelTask) => Linked(DelTask)'
          /\ is_end_delete[c] => Linked(DelTask)'
      BY <1>9
    <3>. QED BY <1>4, <2>1, <2>2, <3>1, Zenon DEF IInv, EndedQueued
  <2>. QED BY <2>3, <2>4
<1>18. TaskOK'
  <2>1. \A b \in Co : Linked(BackTask(b))' => pc'[b] = "back"
    <3>. TAKE b \in Co
    <3>1. BackTask(b) # DelTask /\ BackTask(b) # ExitTask(m)
      BY TaskFacts
    <3>2. Linked(BackTask(b))' => Linked(BackTask(b))
      BY <1>9, <3>1
    <3>3. Linked(BackTask(b)) => pc[b] = "back"
      BY DEF IInv, TaskOK
    <3>. QED BY <1>4, <3>2, <3>3, Zenon
  <2>. QED BY <1>4, <1>9, <2>1, Zenon DEF IInv, TaskOK
<1>19. ReadyOK'
  BY <1>4 DEF IInv, ReadyOK
<1>20. CachedNextValid'
  <2>1. note # m
    BY <1>8 DEF NotifyPending
  <2>2. note \in Inc => notify_queue'[note] = notify_queue[note]
    BY <1>4, <1>5, <2>1
  <2>. QED BY <1>4, <2>2, Zenon DEF IInv, CachedNextValid, TypeOK
<1>. QED BY <1>3, <1>11, <1>12, <1>14, <1>15, <1>16, <1>17, <1>18, <1>19, <1>20, Zenon DEF IInv

\* Every step of the scheduler, and stuttering, preserves IInv.
LEMMA Inductive ==
    IInv /\ [Next]_vars => IInv'
<1>. SUFFICES ASSUME IInv, [Next]_vars
              PROVE  IInv'
  OBVIOUS
<1>0. TypeOK'
  BY TypeStep DEF IInv
<1>1. ASSUME NEW x \in User, NEW ad \in BOOLEAN, Alloc(x, ad)
      PROVE  IInv'
  BY <1>0, <1>1, AllocStep
<1>2. ASSUME NEW x \in User, Resume(x)
      PROVE  IInv'
  BY <1>0, <1>2, ResumeActionStep
<1>3. ASSUME NEW x \in User, WaitEnded(x)
      PROVE  IInv'
  BY <1>0, <1>3, WaitEndedStep
<1>4. ASSUME NEW x \in User, NEW timed \in BOOLEAN, Wait(x, timed)
      PROVE  IInv'
  BY <1>0, <1>4, WaitStep
<1>5. ASSUME NEW x \in User, Free(x)
      PROVE  IInv'
  BY <1>0, <1>5, FreeStep
<1>6. ASSUME NEW x \in User, TimerFires(x)
      PROVE  IInv'
  BY <1>0, <1>6, TimerFiresStep
<1>7. CASE StartWheel
  BY <1>0, <1>7, StartWheelStep
<1>8. CASE Yield
  BY <1>0, <1>8, YieldStep
<1>9. CASE Poll
  BY <1>0, <1>9, PollStep
<1>10. CASE DelayBack
  BY <1>0, <1>10, DelayBackStep
<1>11. CASE Exit
  BY <1>0, <1>11, ExitStep
<1>12. CASE BeginDispatch
  BY <1>0, <1>12, BeginDispatchStep
<1>13. CASE DispatchStep
  <2>1. ASSUME NEW x \in Co, NetResume(x)
        PROVE  IInv'
    BY <1>0, <2>1, NetResumeStep
  <2>2. CASE TakeDelayTasks
    BY <1>0, <2>2, TakeDelayTasksStep
  <2>3. CASE BeginNotify
    BY <1>0, <2>3, BeginNotifyStep
  <2>4. CASE NotifyOne
    BY <1>0, <2>4, NotifyOneStep
  <2>5. CASE EndNotify
    BY <1>0, <2>5, EndNotifyStep
  <2>6. CASE DeleteEnded
    BY <1>0, <2>6, DeleteEndedStep
  <2>7. CASE ResumeBack
    BY <1>0, <2>7, ResumeBackStep
  <2>8. CASE EndDispatch
    BY <1>0, <2>8, EndDispatchStep
  <2>. QED
    BY <1>13, <2>1, <2>2, <2>3, <2>4, <2>5, <2>6, <2>7, <2>8 DEF DispatchStep
<1>14. CASE UNCHANGED vars
  <2>0. /\ UNCHANGED <<curr_co, run_queue, state, gen, is_end_delete, pc>>
        /\ UNCHANGED <<target, timers, exit_queue, notify_queue>>
        /\ UNCHANGED <<delay_tasks, delay_del_list, stage, ready, delay_list>>
        /\ UNCHANGED <<note, next_it>>
    BY <1>14 DEF vars
  <2>1. \A t : Linked(t)' <=> Linked(t)
    BY <2>0 DEF Linked
  <2>2. \A n \in Inc : NotifyPending(n)' <=> NotifyPending(n)
    BY <2>0, <2>1 DEF NotifyPending
  <2>3. \A n \in Inc : Ended(n)' <=> Ended(n)
    BY <2>0 DEF Ended
  <2>4. WaitOK' /\ ExitOK' /\ NotifyOK' /\ NoLostWaiter'
    BY <2>0, <2>2, <2>3, QuietWaits, Zenon DEF wait_vars
  <2>5. StackOK' /\ ParkOK' /\ ReadyOK'
    BY <2>0 DEF IInv, StackOK, ParkOK, ReadyOK
  <2>6. CachedNextValid' /\ DelOK'
    BY <2>0, Zenon DEF IInv, CachedNextValid, DelOK
  <2>7. TaskOK' /\ EndedQueued'
    BY <2>0, <2>1, Zenon DEF IInv, TaskOK, EndedQueued
  <2>. QED BY <1>0, <2>4, <2>5, <2>6, <2>7 DEF IInv
<1>. QED
  BY <1>1, <1>2, <1>3, <1>4, <1>5, <1>6, <1>7, <1>8, <1>9, <1>10, <1>11, <1>12,
     <1>13, <1>14 DEF Next

\* The state the environment is constructed in satisfies IInv.
LEMMA InitIInv ==
    Init => IInv
<1>. SUFFICES ASSUME Init
              PROVE  IInv
  OBVIOUS
<1>1. Elems(<<>>) = {} /\ NoDup(<<>>)
  BY DEF Elems, NoDup
<1>2. TypeOK
  <2>1. Main \in Co /\ 0 \in 0..MaxGen
    BY CoAssumption DEF Co
  <2>2. TypeJump
    BY <2>1 DEF Init, TypeJump
  <2>3. TypeWait
    BY DEF Init, TypeWait
  <2>4. TypeLife
    BY <2>1 DEF Init, TypeLife
  <2>5. TypeTask
    BY DEF Init, TypeTask
  <2>6. TypeLoop
    <3>1. last_events \in BOOLEAN
      BY Zenon DEF Init
    <3>2. /\ stage \in {"boot", "idle", "net", "delay"}
          /\ stage # "net" /\ stage # "delay"
      BY DEF Init
    <3>3. /\ delay_list \in Seq(Task) /\ note \in Inc \cup {NoInc}
          /\ next_it \in Co \cup {End} /\ ready \subseteq Co
      BY DEF Init
    <3>4. delay_list = <<>> /\ note = NoInc /\ next_it = End /\ ready = {}
      BY DEF Init
    <3>. QED BY <3>1, <3>2, <3>3, <3>4 DEF TypeLoop
  <2>. QED BY <2>2, <2>3, <2>4, <2>5, <2>6, TypeSplit
<1>3. StackOK
  <2>1. Elems(<<Main>>) = {Main} /\ NoDup(<<Main>>)
    BY DEF Elems, NoDup
  <2>. QED BY <2>1, CoAssumption DEF Init, StackOK, Co
<1>4. \A t : ~Linked(t)
  BY <1>1 DEF Linked, Init
<1>5. ParkOK
  BY CoAssumption DEF Init, ParkOK, Co
<1>6. WaitOK /\ NoLostWaiter
  BY <1>1 DEF Init, WaitOK, NoLostWaiter, Waiting
<1>7. ExitOK
  BY <1>1 DEF Init, ExitOK
<1>8. NotifyOK
  BY <1>1, <1>4, IncFacts DEF Init, NotifyOK, NotifyPending
<1>9. CachedNextValid /\ ReadyOK
  BY DEF Init, CachedNextValid, ReadyOK
<1>10. TaskOK
  BY <1>1, <1>4 DEF Init, TaskOK
<1>11. DelOK /\ EndedQueued
  BY <1>1 DEF Init, DelOK, EndedQueued
<1>. QED BY <1>2, <1>3, <1>5, <1>6, <1>7, <1>8, <1>9, <1>10, <1>11 DEF IInv

\* IInv holds in every reachable state.
LEMMA InvariantIInv ==
    Spec => []IInv
BY InitIInv, Inductive, PTL DEF Spec

-----------------------------------------------------------------------------
\* Every variable of the scheduler keeps its type, and the lists local to
\* proc_netevent and proc_tasks are empty outside of them.
THEOREM TypeCorrect ==
    Spec => []TypeOK
<1>1. IInv => TypeOK
  BY DEF IInv
<1>. QED BY <1>1, InvariantIInv, PTL

\* For any number of coroutines: RUNNING are exactly the current coroutine and
\* the chain of its resumers down to Main, so that yield() and co_return_p()
\* always return to the coroutine whose resume() they end.
THEOREM StackCorrect ==
    Spec => []StackOK
<1>1. IInv => StackOK
  BY DEF IInv
<1>. QED BY <1>1, InvariantIInv, PTL

\* For any number of coroutines and of reuses of their memory: who is parked in
\* wait() is on the queue of a live incarnation, or on the list of an ended one
\* whose notification is still to be run.
THEOREM WaitersKept ==
    Spec => []NoLostWaiter
<1>1. IInv => NoLostWaiter
  BY DEF IInv
<1>. QED BY <1>1, InvariantIInv, PTL

\* The iterator proc_exit_notify caches across resume() is never stale.
THEOREM IteratorCorrect ==
    Spec => []CachedNextValid
<1>1. IInv => CachedNextValid
  BY DEF IInv
<1>. QED BY <1>1, InvariantIInv, PTL

\* An ended coroutine with is_end_delete is always on its way to being freed.
THEOREM DeletionQueued ==
    Spec => []EndedQueued
<1>1. IInv => EndedQueued
  BY DEF IInv
<1>. QED BY <1>1, InvariantIInv, PTL

\* No reference the scheduler holds leads to freed memory, for any number of
\* coroutines and of reuses of their addresses.
THEOREM MemorySafe ==
    Spec => []NoUseAfterFree
<1>1. ASSUME IInv
      PROVE  NoUseAfterFree
  <2>. SUFFICES ASSUME NEW c \in Co, state[c] = "FREE"
                PROVE  c \notin Referenced /\ exit_queue[c] = <<>>
    BY DEF NoUseAfterFree
  <2>1. c # curr_co /\ c \notin Elems(run_queue)
    BY <1>1 DEF IInv, StackOK
  <2>2. pc[c] = "run"
    BY <1>1 DEF IInv, ParkOK
  <2>3. target[c] = NoInc
    BY <1>1, <2>2 DEF IInv, WaitOK, Waiting
  <2>4. c \notin timers /\ c \notin ready /\ ~Linked(BackTask(c))
    BY <1>1, <2>2, Zenon DEF IInv, WaitOK, ReadyOK, TaskOK
  <2>5. ASSUME NEW x \in Co
        PROVE  c \notin Elems(exit_queue[x])
    <3>1. gen[x] \in 0..MaxGen
      BY <1>1 DEF IInv, TypeOK
    <3>2. <<x, gen[x]>> \in Inc /\ <<x, gen[x]>> # NoInc
      BY <3>1, IncFacts DEF Inc
    <3>. QED BY <1>1, <2>3, <3>2 DEF IInv, ExitOK
  <2>6. ASSUME NEW n \in Inc
        PROVE  c \notin Elems(notify_queue[n])
    BY <1>1, <2>3, IncFacts DEF IInv, NotifyOK
  <2>7. c \notin Elems(delay_del_list)
    BY <1>1 DEF IInv, DelOK
  <2>8. c \notin {next_it} \ {End}
    <3>. SUFFICES ASSUME c = next_it, next_it # End
                  PROVE  FALSE
      OBVIOUS
    <3>1. note \in Inc
      BY <1>1 DEF IInv, TypeOK
    <3>2. /\ notify_queue[note] \in Seq(Co)
          /\ notify_queue[note] # <<>>
          /\ next_it = Head(notify_queue[note])
      <4>1. notify_queue \in [Inc -> Seq(Co)]
        BY <1>1 DEF IInv, TypeOK
      <4>2. note # NoInc
        BY <3>1, IncFacts
      <4>. QED BY <1>1, <3>1, <4>1, <4>2 DEF IInv, CachedNextValid
    <3>3. next_it \in Elems(notify_queue[note])
      BY <3>2, TailFacts
    <3>. QED BY <2>6, <3>1, <3>3
  <2>9. exit_queue[c] = <<>>
    BY <1>1, ElemsEmpty DEF IInv, ExitOK, TypeOK
  <2>10. c \notin Referenced
    <3>1. c \notin InExitQueues /\ c \notin InNotifyQueues
      <4>1. c \notin InExitQueues
        BY <2>5 DEF InExitQueues
      <4>2. c \notin InNotifyQueues
        BY <2>6 DEF InNotifyQueues
      <4>. QED BY <4>1, <4>2
    <3>2. c \notin InTasks
      BY <2>4, <2>7 DEF InTasks
    <3>. QED BY <2>1, <2>4, <2>8, <3>1, <3>2 DEF Referenced
  <2>. QED BY <2>9, <2>10
<1>. QED BY <1>1, InvariantIInv, PTL

\* A jump to x ends at most the wait of x.
LEMMA JumpEndsWait ==
    ASSUME IInv, NEW x \in Co, NEW v, JumpTo(x, v), NEW w \in Co, w # x, Waiting(w)
    PROVE  Waiting(w)'
<1>1. pc' = [pc EXCEPT ![x] = "run"] /\ pc \in [Co -> {"run", "yield", "poll", "back", "wait", "twait"}]
  BY DEF JumpTo, LeaveWait, IInv, TypeOK
<1>. QED BY <1>1 DEF Waiting

\* A coroutine that gives control up does not end anybody's wait: it was not
\* waiting itself.
LEMMA ParkEndsNoWait ==
    ASSUME IInv, NEW why, Park(why), NEW w \in Co, Waiting(w)
    PROVE  Waiting(w)'
<1>1. /\ pc' = [pc EXCEPT ![curr_co] = why]
      /\ pc \in [Co -> {"run", "yield", "poll", "back", "wait", "twait"}]
      /\ curr_co \in Co
  BY DEF Park, IInv, TypeOK
<1>2. state[curr_co] = "RUNNING"
  BY <1>1 DEF IInv, StackOK
<1>3. pc[curr_co] = "run"
  BY <1>1, <1>2 DEF IInv, ParkOK
<1>. QED BY <1>1, <1>3 DEF Waiting

\* A step that ends the wait of w delivers what wait() promises.
LEMMA WaitReturnsStep ==
    ASSUME IInv, [Next]_vars, NEW w \in Co, Waiting(w), ~Waiting(w)'
    PROVE  \/ Ended(target[w]) /\ value' = target[w][2]
           \/ pc[w] = "twait" /\ value' = -1
<1>0. pc' # pc
  BY DEF Waiting
<1>1. ASSUME NEW x \in Co, NEW v, JumpTo(x, v)
      PROVE  w = x
  BY <1>1, JumpEndsWait
<1>2. ASSUME NEW why, Park(why)
      PROVE  FALSE
  BY <1>2, ParkEndsNoWait
<1>3. Next
  BY <1>0 DEF vars
<1>4. ASSUME NEW x \in User, Resume(x)
      PROVE  FALSE
  <2>1. w = x /\ x \in Co
    BY <1>1, <1>4 DEF Resume, Co
  <2>. QED BY <1>4, <2>1, Zenon DEF Resume, IInv, ParkOK, Waiting
<1>5. ASSUME NEW x \in User, TimerFires(x)
      PROVE  pc[w] = "twait" /\ value' = -1
  <2>1. w = x /\ value' = -1 /\ x \in timers
    BY <1>1, <1>5, Zenon DEF TimerFires, JumpTo, Co
  <2>. QED BY <2>1 DEF IInv, WaitOK
<1>6. ASSUME NEW x \in Co, NetResume(x)
      PROVE  FALSE
  BY <1>1, <1>6 DEF NetResume, IInv, ReadyOK, Waiting
<1>7. ~ResumeBack
  <2>. SUFFICES ASSUME ResumeBack
                PROVE  FALSE
    OBVIOUS
  <2>1. /\ delay_list \in Seq(Task) /\ delay_list # <<>>
        /\ Head(delay_list).kind = "back"
        /\ JumpTo(Head(delay_list).co, 0)
    BY Zenon DEF ResumeBack, AtTask, IInv, TypeOK
  <2>2. Head(delay_list) \in Task /\ Head(delay_list) \in Elems(delay_list)
    BY <2>1, TailFacts
  <2>3. PICK b \in Co : Head(delay_list) = BackTask(b) /\ Head(delay_list).co = b
    BY <2>1, <2>2, TaskFacts, Zenon
  <2>4. pc[b] = "back"
    BY <2>2, <2>3 DEF Linked, IInv, TaskOK
  <2>. QED BY <1>1, <2>1, <2>3, <2>4 DEF Waiting
<1>8. ASSUME NotifyOne
      PROVE  Ended(target[w]) /\ value' = target[w][2]
  <2>1. note \in Inc /\ next_it # End /\ next_it \in Co
    BY <1>8 DEF NotifyOne, IInv, TypeOK
  <2>2. JumpTo(next_it, note[2])
    BY <1>0, <1>8, Zenon DEF NotifyOne
  <2>3. w = next_it /\ value' = note[2]
    BY <1>1, <2>1, <2>2, Zenon DEF JumpTo
  <2>4. /\ notify_queue[note] \in Seq(Co)
        /\ notify_queue[note] # <<>>
        /\ next_it = Head(notify_queue[note])
    BY <2>1, IncFacts DEF IInv, TypeOK, CachedNextValid
  <2>5. w \in Elems(notify_queue[note])
    BY <2>3, <2>4, TailFacts, Zenon
  <2>6. target[w] = note
    BY <2>1, <2>5, Zenon DEF IInv, NotifyOK
  <2>7. Ended(note)
    BY <2>1, Zenon DEF IInv, NotifyOK, NotifyPending
  <2>. QED BY <2>3, <2>6, <2>7, Zenon
<1>9. ~StartWheel
  <2>. SUFFICES ASSUME StartWheel
                PROVE  FALSE
    OBVIOUS
  <2>1. w = Tw
    BY <1>1 DEF StartWheel, Co
  <2>. QED BY <2>1, Zenon DEF IInv, ParkOK, Waiting
<1>10. /\ ~Yield /\ ~Poll /\ ~DelayBack
       /\ ~\E x \in User, timed \in BOOLEAN : Wait(x, timed)
  BY <1>2, Zenon DEF Yield, Poll, DelayBack, Wait
<1>11. /\ ~\E x \in User, ad \in BOOLEAN : Alloc(x, ad)
       /\ ~\E x \in User : WaitEnded(x)
       /\ ~\E x \in User : Free(x)
       /\ ~Exit /\ ~BeginDispatch
  BY <1>0, Zenon DEF Alloc, WaitEnded, Free, Exit, BeginDispatch
<1>12. ~TakeDelayTasks /\ ~BeginNotify /\ ~EndNotify /\ ~DeleteEnded /\ ~EndDispatch
  BY <1>0, Zenon DEF TakeDelayTasks, BeginNotify, EndNotify, DeleteEnded, EndDispatch
<1>. QED
  BY <1>3, <1>4, <1>5, <1>6, <1>7, <1>8, <1>9, <1>10, <1>11, <1>12, Zenon
     DEF Next, DispatchStep

\* wait() never returns early or with the value of another incarnation,
\* however often the memory of the awaited coroutine was reused.
THEOREM WaitCorrect ==
    Spec => WaitReturns
<1>1. IInv /\ [Next]_vars =>
        [\A w \in Co : Waiting(w) /\ ~Waiting(w)' =>
            \/ Ended(target[w]) /\ value' = target[w][2]
            \/ pc[w] = "twait" /\ value' = -1]_vars
  BY WaitReturnsStep
<1>. QED BY <1>1, InvariantIInv, PTL DEF Spec, WaitReturns
=============================================================================
