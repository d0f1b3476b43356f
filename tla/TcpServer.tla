------------------------------ MODULE TcpServer ------------------------------
(****************************************************************************)
(* A tcp_server_t of one thread (svrkit/src/tcp_server.cpp): the accept     *)
(* loop, on a listening socket or on descriptors another thread sends, the  *)
(* pooled coroutines that run the connections, and the stop of the server.  *)
(*                                                                          *)
(* stack is the chain of resumed coroutines: the last one runs, and the     *)
(* dispatch loop runs when it is empty.  Both pools are stacks whose top is *)
(* the last element.                                                        *)
(****************************************************************************)
EXTENDS Integers, Sequences, FiniteSets, List

CONSTANTS Worker,       \* coroutines of conn_proc_co that can exist at a time
          Info,         \* conn_info_t objects that can exist at a time
          NoInfo,
          Main,         \* main_co
          MaxConn,      \* conf.max_conn_num
          Accept,       \* accept_num
          WaitMs        \* exit_wait_ms

ASSUME ServerAssumption ==
    /\ MaxConn \in Nat \ {0} /\ Accept \in Nat \ {0} /\ WaitMs \in Nat
    /\ NoInfo \notin Info /\ Main \notin Worker
    /\ IsFiniteSet(Worker)

VARIABLES
    to_stop, state,
    fd_queue,       \* accept_fd_queue is set: descriptors come from another thread
    cur_conn_num,
    co_pool,
    conn_info_pool,
    conn_info,      \* the object the accept loop keeps ready
    info,           \* the object each worker has
    wpc,            \* where each worker is
    mpc,            \* where main_co is
    fds,            \* descriptors accepted and not yet given to a worker
    waited,         \* the rounds of clean_up
    stack

vars == <<to_stop, state, fd_queue, cur_conn_num, co_pool, conn_info_pool, conn_info,
          info, wpc, mpc, fds, waited, stack>>

pool_vars == <<co_pool, conn_info_pool, conn_info>>
work_vars == <<cur_conn_num, info, wpc>>

Runs(c) == stack # <<>> /\ Last(stack) = c
MainGoes(at) == Runs(Main) /\ mpc' = at /\ stack' = stack
MainSleeps(at) == Runs(Main) /\ mpc' = at /\ stack' = Front(stack)
MainResumed(at) == stack = <<>> /\ mpc' = at /\ stack' = <<Main>>

Held == {w \in Worker : info[w] # NoInfo}

\* conn_info_pool.alloc: the last object released, or a new one.
AllocInfo ==
    IF conn_info_pool # <<>>
    THEN /\ conn_info' = Last(conn_info_pool)
         /\ conn_info_pool' = Front(conn_info_pool)
    ELSE /\ conn_info' \in Info \ ({conn_info} \cup {info[w] : w \in Held})
         /\ conn_info_pool' = conn_info_pool

-----------------------------------------------------------------------------
\* main_proc_help, main_proc and main_proc_with_fd_queue

MainStart ==
    /\ mpc = "start"
    /\ state' = "RUNNING"
    /\ MainGoes("top")
    /\ AllocInfo
    /\ UNCHANGED <<to_stop, fd_queue, work_vars, co_pool, fds, waited>>

\* The listening socket cannot be created.
ListenFailed ==
    /\ mpc = "start" /\ ~fd_queue
    /\ state' = "STOPED"
    /\ MainSleeps("ended")
    /\ UNCHANGED <<to_stop, fd_queue, work_vars, pool_vars, fds, waited>>

\* set_none_block or enable_reuseport_cbpf fails: the state stays as it is.
SetupFailed ==
    /\ mpc = "start" /\ ~fd_queue
    /\ state' = "RUNNING"
    /\ MainSleeps("failed")
    /\ UNCHANGED <<to_stop, fd_queue, work_vars, pool_vars, fds, waited>>

\* Mutant: the number of connections is not looked at.
AcceptPollAlways ==
    /\ mpc = "top" /\ ~to_stop
    /\ MainSleeps("poll")
    /\ UNCHANGED <<to_stop, state, fd_queue, work_vars, pool_vars, fds, waited>>

\* The loop waits for a free place, or polls.
AcceptPoll ==
    /\ mpc = "top" /\ ~to_stop
    /\ MainSleeps(IF cur_conn_num >= MaxConn THEN "full" ELSE "poll")
    /\ UNCHANGED <<to_stop, state, fd_queue, work_vars, pool_vars, fds, waited>>

\* usleep returns: there is a place, or the server is stopped, and the loop polls in
\* either case.
AcceptWoken ==
    /\ stack = <<>> /\ mpc = "full"
    /\ to_stop \/ cur_conn_num < MaxConn
    /\ mpc' = "poll"
    /\ UNCHANGED <<to_stop, state, fd_queue, work_vars, pool_vars, fds, waited, stack>>

\* co_poll times out or fails, or n connections are accepted.
AcceptPolled(n) ==
    /\ mpc = "poll"
    /\ MainResumed(IF n = 0 THEN "top" ELSE "serve")
    /\ fds' = n
    /\ UNCHANGED <<to_stop, state, fd_queue, work_vars, pool_vars, waited>>

\* main_proc_with_fd_queue ends when its poll fails, and never cleans up.
QueueFailed ==
    /\ fd_queue /\ stack = <<>> /\ mpc = "poll"
    /\ mpc' = "ended"
    /\ conn_info' = NoInfo
    /\ state' = "STOPED"
    /\ UNCHANGED <<to_stop, fd_queue, work_vars, co_pool, conn_info_pool, fds, waited, stack>>

\* A worker is resumed with the object.  It was parked, and leaves its loop when the
\* server is stopped, or it is new.
Given(w, at) ==
    /\ cur_conn_num' = cur_conn_num + 1
    /\ info' = [info EXCEPT ![w] = conn_info]
    /\ wpc' = [wpc EXCEPT ![w] = at]
    /\ conn_info' = NoInfo
    /\ mpc' = "given"
    /\ stack' = Append(stack, w)

ServeParked ==
    /\ Runs(Main) /\ mpc = "serve" /\ fds > 0
    /\ co_pool # <<>>
    /\ Given(Last(co_pool), IF to_stop THEN "late" ELSE "proc")
    /\ co_pool' = Front(co_pool)
    /\ UNCHANGED <<to_stop, state, fd_queue, conn_info_pool, fds, waited>>

ServeNew(w) ==
    /\ Runs(Main) /\ mpc = "serve" /\ fds > 0
    /\ co_pool = <<>> /\ wpc[w] = "none"
    /\ Given(w, "proc")
    /\ UNCHANGED <<to_stop, state, fd_queue, co_pool, conn_info_pool, fds, waited>>

\* The worker has blocked or come to its end.
ServeNext ==
    /\ mpc = "given"
    /\ MainGoes("serve")
    /\ AllocInfo
    /\ fds' = fds - 1
    /\ UNCHANGED <<to_stop, state, fd_queue, work_vars, co_pool, waited>>

Served ==
    /\ mpc = "serve" /\ fds = 0
    /\ MainGoes("top")
    /\ UNCHANGED <<to_stop, state, fd_queue, work_vars, pool_vars, fds, waited>>

\* The end of main_proc, and clean_up up to its first look at the connections.
CleanUp ==
    /\ mpc = "top" /\ to_stop /\ ~fd_queue
    /\ MainGoes("clean")
    /\ conn_info_pool' = Append(conn_info_pool, conn_info)
    /\ conn_info' = NoInfo
    /\ UNCHANGED <<to_stop, state, fd_queue, work_vars, co_pool, fds, waited>>

\* Mutant: clean_up waits as long as there are connections.
CleanWaitForever ==
    /\ mpc = "clean"
    /\ cur_conn_num > 0
    /\ MainSleeps("usleep")
    /\ waited' = waited
    /\ UNCHANGED <<to_stop, state, fd_queue, work_vars, pool_vars, fds>>

CleanWait ==
    /\ mpc = "clean"
    /\ cur_conn_num > 0 /\ waited < WaitMs
    /\ MainSleeps("usleep")
    /\ waited' = waited + 1
    /\ UNCHANGED <<to_stop, state, fd_queue, work_vars, pool_vars, fds>>

CleanWoken ==
    /\ mpc = "usleep"
    /\ MainResumed("clean")
    /\ UNCHANGED <<to_stop, state, fd_queue, work_vars, pool_vars, fds, waited>>

\* No connection is left, or the wait is over.
CleanDone ==
    /\ mpc = "clean"
    /\ cur_conn_num = 0 \/ waited = WaitMs
    /\ state' = "STOPED"
    /\ MainSleeps("ended")
    /\ UNCHANGED <<to_stop, fd_queue, work_vars, pool_vars, fds, waited>>

\* The end of main_proc_with_fd_queue.
QueueDone ==
    /\ mpc = "top" /\ to_stop /\ fd_queue
    /\ state' = "STOPED"
    /\ MainSleeps("ended")
    /\ conn_info' = NoInfo
    /\ UNCHANGED <<to_stop, fd_queue, work_vars, co_pool, conn_info_pool, fds, waited>>

-----------------------------------------------------------------------------
\* conn_proc_co

\* conn_proc blocks, and is resumed by the dispatch loop.
ConnBlock(w) ==
    /\ Runs(w) /\ wpc[w] = "proc"
    /\ wpc' = [wpc EXCEPT ![w] = "blocked"]
    /\ stack' = Front(stack)
    /\ UNCHANGED <<to_stop, state, fd_queue, cur_conn_num, info, pool_vars, mpc, fds, waited>>

ConnResume(w) ==
    /\ stack = <<>> /\ wpc[w] = "blocked"
    /\ wpc' = [wpc EXCEPT ![w] = "proc"]
    /\ stack' = <<w>>
    /\ UNCHANGED <<to_stop, state, fd_queue, cur_conn_num, info, pool_vars, mpc, fds, waited>>

\* Mutant: a coroutine that ends leaves the object to nobody and the count as it is.
ConnClosedKept(w) ==
    /\ cur_conn_num' = cur_conn_num
    /\ conn_info_pool' = conn_info_pool
    /\ info' = [info EXCEPT ![w] = NoInfo]

\* The descriptor is closed, the connection no longer counted, the object released.
ConnClosed(w) ==
    /\ cur_conn_num' = cur_conn_num - 1
    /\ conn_info_pool' = Append(conn_info_pool, info[w])
    /\ info' = [info EXCEPT ![w] = NoInfo]

\* conn_proc returns 0 and the coroutine parks.
ConnPark(w) ==
    /\ Runs(w) /\ wpc[w] = "proc" /\ ~to_stop
    /\ ConnClosed(w)
    /\ co_pool' = Append(co_pool, w)
    /\ wpc' = [wpc EXCEPT ![w] = "parked"]
    /\ stack' = Front(stack)
    /\ UNCHANGED <<to_stop, state, fd_queue, conn_info, mpc, fds, waited>>

\* conn_proc fails, or the server is stopped: the coroutine ends and is deleted.
ConnEnd(w) ==
    /\ Runs(w) /\ wpc[w] \in {"proc", "late"}
    /\ ConnClosed(w)
    /\ wpc' = [wpc EXCEPT ![w] = "none"]
    /\ stack' = Front(stack)
    /\ UNCHANGED <<to_stop, state, fd_queue, co_pool, conn_info, mpc, fds, waited>>

-----------------------------------------------------------------------------
\* stop, called by another coroutine or from inside a connection.
Stop ==
    /\ ~to_stop
    /\ stack = <<>> \/ \E w \in Worker : Runs(w) /\ wpc[w] = "proc"
    /\ to_stop' = TRUE
    /\ state' = IF state = "STOPED" THEN state ELSE "STOPING"
    /\ UNCHANGED <<fd_queue, work_vars, pool_vars, mpc, fds, waited, stack>>

Init ==
    /\ to_stop = FALSE /\ state = "NOSTART"
    /\ fd_queue \in BOOLEAN
    /\ cur_conn_num = 0
    /\ co_pool = <<>> /\ conn_info_pool = <<>> /\ conn_info = NoInfo
    /\ info = [w \in Worker |-> NoInfo]
    /\ wpc = [w \in Worker |-> "none"]
    /\ mpc = "start" /\ fds = 0 /\ waited = 0
    /\ stack = <<Main>>

\* The chain of resumed coroutines goes on.
Running ==
    \/ MainStart \/ ListenFailed \/ SetupFailed
    \/ AcceptPoll \/ ServeParked \/ ServeNext \/ Served
    \/ CleanUp \/ CleanWait \/ CleanDone \/ QueueDone
    \/ \E w \in Worker : ServeNew(w) \/ ConnBlock(w) \/ ConnPark(w) \/ ConnEnd(w)

Next ==
    \/ Running
    \/ AcceptWoken \/ QueueFailed \/ CleanWoken \/ Stop
    \/ \E n \in 0..Accept : AcceptPolled(n)
    \/ \E w \in Worker : ConnResume(w)

\* A coroutine that runs goes on until it blocks, and main_co is resumed by its poll of
\* a second or its sleeps.  A connection may block forever.
Fairness ==
    /\ WF_vars(Running)
    /\ SF_vars(AcceptWoken \/ CleanWoken \/ \E n \in 0..Accept : AcceptPolled(n))

Spec == Init /\ [][Next]_vars /\ Fairness

-----------------------------------------------------------------------------
\* Every conn_info_t has one owner (the accept loop, the pool or one worker), every
\* worker in the pool is parked with no connection, and cur_conn_num counts the workers
\* that have one: it never falls below 0, where it would wrap (tcp_server.cpp:92, 110).
OneOwner ==
    /\ NoDup(conn_info_pool) /\ NoDup(co_pool)
    /\ \A w \in Held :
        /\ info[w] # conn_info /\ info[w] \notin Elems(conn_info_pool)
        /\ \A v \in Held : info[v] = info[w] => v = w
    /\ conn_info \notin Elems(conn_info_pool)
    /\ Elems(co_pool) = {w \in Worker : wpc[w] = "parked"}
    /\ Elems(co_pool) \cap Held = {}
    /\ cur_conn_num = Cardinality(Held)

\* max_conn_num is looked at once for every poll, and not at all for the one poll after
\* a stop: the connections exceed it by less than the accept_num of one batch, and of
\* two once the server is stopped (tcp_server.cpp:346).
ConnBound ==
    cur_conn_num < MaxConn + Accept + (IF to_stop THEN Accept ELSE 0)

\* A stopped server gets to STOPED, whatever its connections do, unless its main
\* coroutine gave up with an error before it accepted.
Stops == to_stop ~> (state = "STOPED" \/ mpc = "failed")
=============================================================================
