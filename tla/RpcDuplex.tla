------------------------------ MODULE RpcDuplex ------------------------------
(****************************************************************************)
(* RpcPbClientDuplex of svrkit/src/rpc_pb_client_duplex.cpp with one host:  *)
(* calls of several coroutines share one connection.  A call queues its     *)
(* request and sleeps until read_proc finds its response or its timer       *)
(* expires; send_proc writes all that is queued at once; mgr_proc connects, *)
(* starts the two and connects again when both have ended.                  *)
(*                                                                          *)
(* stack is the chain of resumed coroutines: the last one runs, and the     *)
(* dispatch loop runs when it is empty.  A request context is named by its  *)
(* coroutine, on whose stack it is, and a request by its sequence number.   *)
(****************************************************************************)
EXTENDS Integers, Sequences, FiniteSets, List

CONSTANTS Caller,       \* the coroutines that call
          Mgr, Sender, Reader,  \* mgr_proc, send_proc, read_proc
          Stopper,      \* the coroutine that stops the client
          Batch,        \* 100 in is_send_data: queued requests sent without delay
          MaxSeq        \* bound: calls

ASSUME DuplexAssumption ==
    /\ Batch \in Nat \ {0} /\ MaxSeq \in Nat
    /\ Cardinality({Mgr, Sender, Reader, Stopper}) = 4
    /\ Caller \cap {Mgr, Sender, Reader, Stopper} = {}

VARIABLES
    m_req_queue,    \* the contexts linked by m_link
    m_in_queue,     \* the keys of the map
    m_req_num,
    m_seq_id,
    armed,          \* the 0 ms timer of m_req_wait is set
    m_stop_flag, m_read_stop, m_send_stop,
    pc, stack,
    seq,            \* m_seq_id of the context of each caller, 0 without a call
    batch,          \* send_datas
    sent,           \* requests the peer has on this connection and not answered
    written,        \* how often each request was written
    answered        \* the calls that returned 0

vars == <<m_req_queue, m_in_queue, m_req_num, m_seq_id, armed, m_stop_flag,
          m_read_stop, m_send_stop, pc, stack, seq, batch, sent, written, answered>>

call_vars == <<m_req_queue, m_in_queue, m_req_num, m_seq_id, seq, answered>>
stop_vars == <<m_stop_flag, m_read_stop, m_send_stop>>
net_vars == <<batch, sent, written>>

Thread == Caller \cup {Mgr, Sender, Reader, Stopper}
Ids(s) == [i \in 1..Len(s) |-> seq[s[i]]]

Runs(c) == stack # <<>> /\ Last(stack) = c
Goes(c, at) == Runs(c) /\ pc' = [pc EXCEPT ![c] = at] /\ stack' = stack
Sleeps(c, at) == Runs(c) /\ pc' = [pc EXCEPT ![c] = at] /\ stack' = Front(stack)
Starts(c, at, x) ==
    /\ Runs(c)
    /\ pc' = [pc EXCEPT ![c] = at, ![x] = "top"]
    /\ stack' = Append(stack, x)
Resumed(c, at) ==
    /\ stack = <<>>
    /\ pc' = [pc EXCEPT ![c] = at]
    /\ stack' = <<c>>

\* CondWaitQueue::wakeup_all called by c, which goes on at `at': at once when num
\* requests are enough, which cancels the 0 ms timer, or else when the timer fires.
Wakes(c, at, base, num) ==
    IF num >= Batch
    THEN /\ armed' = FALSE
         /\ pc' = [x \in Thread |->
                     IF x = c THEN at
                     ELSE IF x = Sender /\ pc[x] = "wait" THEN "top" ELSE pc[x]]
         /\ stack' = IF pc[Sender] = "wait" THEN Append(base, Sender) ELSE base
    ELSE /\ armed' = TRUE
         /\ pc' = [pc EXCEPT ![c] = at]
         /\ stack' = base

\* The timer of m_req_wait fires.
TimerWakes ==
    /\ stack = <<>> /\ armed
    /\ armed' = FALSE
    /\ IF pc[Sender] = "wait" THEN Resumed(Sender, "top") ELSE UNCHANGED <<pc, stack>>
    /\ UNCHANGED <<call_vars, stop_vars, net_vars>>

-----------------------------------------------------------------------------
\* mgr_proc

\* connect_to starts, or the loop ends.
MgrConnect ==
    /\ pc[Mgr] = "top"
    /\ Sleeps(Mgr, IF m_stop_flag THEN "ended" ELSE "connect")
    /\ UNCHANGED <<call_vars, armed, stop_vars, net_vars>>

ConnectFailed ==
    /\ stack = <<>> /\ pc[Mgr] = "connect"
    /\ pc' = [pc EXCEPT ![Mgr] = "usleep"]
    /\ UNCHANGED <<call_vars, armed, stop_vars, net_vars, stack>>

MgrWoken ==
    /\ pc[Mgr] = "usleep"
    /\ Resumed(Mgr, "top")
    /\ UNCHANGED <<call_vars, armed, stop_vars, net_vars>>

\* Mutant: the flags of the last connection stay.
ConnectedKeepsFlags ==
    /\ stack = <<>> /\ pc[Mgr] = "connect"
    /\ pc' = [pc EXCEPT ![Mgr] = "start", ![Sender] = "top"]
    /\ stack' = <<Mgr, Sender>>
    /\ UNCHANGED <<call_vars, armed, stop_vars, net_vars>>

\* connect_to succeeds, and send_proc is resumed.
Connected ==
    /\ stack = <<>> /\ pc[Mgr] = "connect"
    /\ m_read_stop' = FALSE
    /\ m_send_stop' = FALSE
    /\ pc' = [pc EXCEPT ![Mgr] = "start", ![Sender] = "top"]
    /\ stack' = <<Mgr, Sender>>
    /\ UNCHANGED <<call_vars, armed, m_stop_flag, net_vars>>

StartRead ==
    /\ pc[Mgr] = "start"
    /\ Starts(Mgr, "join_s", Reader)
    /\ UNCHANGED <<call_vars, armed, stop_vars, net_vars>>

\* wait(m_send_co)
JoinSend ==
    /\ pc[Mgr] = "join_s"
    /\ IF pc[Sender] = "ended" THEN Goes(Mgr, "join_r") ELSE Sleeps(Mgr, "wait_s")
    /\ UNCHANGED <<call_vars, armed, stop_vars, net_vars>>

\* wait(m_read_co), and the connection is closed.
JoinRead ==
    /\ pc[Mgr] = "join_r"
    /\ IF pc[Reader] = "ended"
       THEN Goes(Mgr, "top") /\ sent' = {}
       ELSE Sleeps(Mgr, "wait_r") /\ sent' = sent
    /\ UNCHANGED <<call_vars, armed, stop_vars, batch, written>>

\* proc_exit_notify resumes the coroutine that waits for an ended one.
ExitNotify ==
    /\ \/ pc[Mgr] = "wait_s" /\ pc[Sender] = "ended" /\ Resumed(Mgr, "join_s")
       \/ pc[Mgr] = "wait_r" /\ pc[Reader] = "ended" /\ Resumed(Mgr, "join_r")
       \/ pc[Stopper] = "wait" /\ pc[Mgr] = "ended" /\ Resumed(Stopper, "join")
    /\ UNCHANGED <<call_vars, armed, stop_vars, net_vars>>

-----------------------------------------------------------------------------
\* send_proc

SendStop ==
    /\ pc[Sender] = "top" /\ (m_stop_flag \/ m_read_stop)
    /\ m_send_stop' = TRUE
    /\ Sleeps(Sender, "ended")
    /\ UNCHANGED <<call_vars, armed, m_stop_flag, m_read_stop, net_vars>>

SendWait ==
    /\ pc[Sender] = "top" /\ ~m_stop_flag /\ ~m_read_stop
    /\ m_req_queue = <<>>
    /\ Sleeps(Sender, "wait")
    /\ UNCHANGED <<call_vars, armed, stop_vars, net_vars>>

\* Mutant: the queue is read and not taken.
SendTakeCopies ==
    /\ pc[Sender] = "top" /\ ~m_stop_flag /\ ~m_read_stop
    /\ m_req_queue # <<>>
    /\ batch' = Ids(m_req_queue)
    /\ m_req_queue' = m_req_queue
    /\ m_req_num' = 0
    /\ Goes(Sender, "write")
    /\ UNCHANGED <<m_in_queue, m_seq_id, seq, answered, armed, stop_vars, sent, written>>

\* The queue is taken, every request unlinked and serialized.
SendTake ==
    /\ pc[Sender] = "top" /\ ~m_stop_flag /\ ~m_read_stop
    /\ m_req_queue # <<>>
    /\ batch' = Ids(m_req_queue)
    /\ m_req_queue' = <<>>
    /\ m_req_num' = 0
    /\ Goes(Sender, "write")
    /\ UNCHANGED <<m_in_queue, m_seq_id, seq, answered, armed, stop_vars, sent, written>>

\* writev finds the socket full.
WriteBlock ==
    /\ pc[Sender] = "write"
    /\ Sleeps(Sender, "blocked")
    /\ UNCHANGED <<call_vars, armed, stop_vars, net_vars>>

WriteResume ==
    /\ pc[Sender] = "blocked"
    /\ Resumed(Sender, "ready")
    /\ UNCHANGED <<call_vars, armed, stop_vars, net_vars>>

\* write_all has put n requests on the connection.  It may return 0 with only some of
\* them readable for the peer: after a failed writev it steps back one byte.
WriteAll(n, ok) ==
    /\ pc[Sender] \in {"write", "ready"}
    /\ n = 0 => ~ok
    /\ sent' = sent \cup Elems(SubSeq(batch, 1, n))
    /\ written' = [q \in 1..MaxSeq |->
                    written[q] + Cardinality({i \in 1..n : batch[i] = q})]
    /\ batch' = <<>>
    /\ m_read_stop' = (m_read_stop \/ ~ok)
    /\ Goes(Sender, "top")
    /\ UNCHANGED <<call_vars, armed, m_stop_flag, m_send_stop>>

-----------------------------------------------------------------------------
\* rpc_call_base

\* A coroutine of the program is resumed, or blocks elsewhere.
CallerRuns(k) ==
    /\ pc[k] = "idle" /\ m_seq_id < MaxSeq
    /\ Resumed(k, "run")
    /\ UNCHANGED <<call_vars, armed, stop_vars, net_vars>>

CallerBlocks(k) ==
    /\ pc[k] = "run"
    /\ Sleeps(k, "idle")
    /\ UNCHANGED <<call_vars, armed, stop_vars, net_vars>>

\* The call up to its yield.  Nobody calls once stop has returned.
Call(k) ==
    /\ Runs(k) /\ pc[k] = "run" /\ pc[Stopper] # "stopped"
    /\ m_seq_id < MaxSeq
    /\ m_seq_id' = m_seq_id + 1
    /\ seq' = [seq EXCEPT ![k] = m_seq_id']
    /\ m_in_queue' = m_in_queue \cup {m_seq_id'}
    /\ m_req_queue' = Append(m_req_queue, k)
    /\ m_req_num' = m_req_num + 1
    /\ Wakes(k, "called", stack, m_req_num')
    /\ UNCHANGED <<answered, stop_vars, net_vars>>

CallYield(k) ==
    /\ pc[k] = "called"
    /\ Sleeps(k, "yield")
    /\ UNCHANGED <<call_vars, armed, stop_vars, net_vars>>

\* Mutant: the context is not unlinked from the queue.
ReturnedLinked(k) ==
    /\ m_req_queue' = m_req_queue
    /\ m_in_queue' = m_in_queue \ {seq[k]}
    /\ seq' = [seq EXCEPT ![k] = 0]

\* The rest of the call.
Returned(k) ==
    /\ m_req_queue' = Unlink(m_req_queue, k)
    /\ m_in_queue' = m_in_queue \ {seq[k]}
    /\ seq' = [seq EXCEPT ![k] = 0]

\* proc_req_timeout: the call returns -1.  m_req_num stays.
CallTimeout(k) ==
    /\ pc[k] = "yield"
    /\ Resumed(k, "run")
    /\ Returned(k)
    /\ UNCHANGED <<m_req_num, m_seq_id, answered, armed, stop_vars, net_vars>>

-----------------------------------------------------------------------------
\* read_proc

ReadPoll ==
    /\ pc[Reader] = "top"
    /\ IF m_stop_flag \/ m_send_stop THEN Goes(Reader, "end") ELSE Sleeps(Reader, "poll")
    /\ UNCHANGED <<call_vars, armed, stop_vars, net_vars>>

\* co_poll times out, is interrupted or finds the end of the stream, which read_rsp
\* takes for nothing to read; it fails, or reports an error; or a response is there.
ReadPolled ==
    /\ pc[Reader] = "poll"
    /\ \E at \in {"top", "end"} \cup IF sent = {} THEN {} ELSE {"read"} :
         Resumed(Reader, at)
    /\ UNCHANGED <<call_vars, armed, stop_vars, net_vars>>

\* The response to request q is handed to its call, which returns 0 inside read_rsp.
ReadRsp(q) ==
    /\ Runs(Reader) /\ pc[Reader] = "read"
    /\ q \in sent /\ q \in m_in_queue
    /\ sent' = sent \ {q}
    /\ \E k \in Caller :
        /\ seq[k] = q
        /\ pc' = [pc EXCEPT ![Reader] = "next", ![k] = "run"]
        /\ stack' = Append(stack, k)
        /\ Returned(k)
    /\ answered' = answered \cup {q}
    /\ UNCHANGED <<m_req_num, m_seq_id, armed, stop_vars, batch, written>>

\* The response comes after its call has timed out: read_rsp fails with -7.
ReadLate(q) ==
    /\ pc[Reader] = "read"
    /\ q \in sent /\ q \notin m_in_queue
    /\ sent' = sent \ {q}
    /\ Goes(Reader, "end")
    /\ UNCHANGED <<call_vars, armed, stop_vars, batch, written>>

\* next_packet: the buffer holds another response, or not.
ReadNext ==
    /\ pc[Reader] = "next"
    /\ \E at \in {"top"} \cup IF sent = {} THEN {} ELSE {"read"} : Goes(Reader, at)
    /\ UNCHANGED <<call_vars, armed, stop_vars, net_vars>>

\* The sender, if it sleeps, is not woken.
ReadEnd ==
    /\ pc[Reader] = "end"
    /\ m_read_stop' = TRUE
    /\ Sleeps(Reader, "ended")
    /\ UNCHANGED <<call_vars, armed, m_stop_flag, m_send_stop, net_vars>>

-----------------------------------------------------------------------------
\* Mutant: the sender is not woken.
StopSilent ==
    /\ stack = <<>> /\ pc[Stopper] = "idle"
    /\ m_stop_flag' = TRUE
    /\ Resumed(Stopper, "join")
    /\ UNCHANGED <<call_vars, armed, m_read_stop, m_send_stop, net_vars>>

\* stop, of the client and of its channel.
Stop ==
    /\ stack = <<>> /\ pc[Stopper] = "idle"
    /\ m_stop_flag' = TRUE
    /\ Wakes(Stopper, "join", <<Stopper>>, m_req_num)
    /\ UNCHANGED <<call_vars, m_read_stop, m_send_stop, net_vars>>

\* wait(m_mgr_co)
StopJoin ==
    /\ pc[Stopper] = "join"
    /\ Sleeps(Stopper, IF pc[Mgr] = "ended" THEN "stopped" ELSE "wait")
    /\ UNCHANGED <<call_vars, armed, stop_vars, net_vars>>

-----------------------------------------------------------------------------
\* After the constructor and init, which resumes mgr_proc.
Init ==
    /\ m_req_queue = <<>> /\ m_in_queue = {} /\ m_req_num = 0 /\ m_seq_id = 0
    /\ armed = FALSE
    /\ m_stop_flag = FALSE /\ m_read_stop = FALSE /\ m_send_stop = FALSE
    /\ pc = [c \in Thread |-> IF c = Mgr THEN "top"
                              ELSE IF c \in {Sender, Reader} THEN "none" ELSE "idle"]
    /\ stack = <<Mgr>>
    /\ seq = [k \in Caller |-> 0]
    /\ batch = <<>> /\ sent = {}
    /\ written = [q \in 1..MaxSeq |-> 0]
    /\ answered = {}

\* The chain of resumed coroutines goes on.
Running ==
    \/ MgrConnect \/ StartRead \/ JoinSend \/ JoinRead
    \/ SendStop \/ SendWait \/ SendTake \/ WriteBlock
    \/ \E n \in 0..Len(batch), ok \in BOOLEAN : WriteAll(n, ok)
    \/ ReadPoll \/ ReadNext \/ ReadEnd
    \/ \E q \in sent : ReadRsp(q) \/ ReadLate(q)
    \/ \E k \in Caller : CallerBlocks(k) \/ Call(k) \/ CallYield(k)
    \/ StopJoin

\* The events mgr_proc and its parts wait for: each stays until the loop comes to it,
\* and there is never more than one.
Progress == MgrWoken \/ ConnectFailed \/ Connected \/ ExitNotify \/ WriteResume

Next ==
    \/ Running
    \/ Progress
    \/ TimerWakes \/ ReadPolled
    \/ \E k \in Caller : CallerRuns(k) \/ CallTimeout(k)
    \/ Stop

\* A coroutine that runs goes on until it blocks, and the dispatch loop comes to every
\* timer, poll and notification again.  The host can be connected to now and then.
\* No timer of a call need fire, and no response need come.
Fairness ==
    /\ WF_vars(Running)
    /\ SF_vars(TimerWakes) /\ SF_vars(ReadPolled)
    /\ SF_vars(Progress) /\ SF_vars(Connected)

Spec == Init /\ [][Next]_vars /\ Fairness

-----------------------------------------------------------------------------
Outstanding == {k \in Caller : pc[k] \in {"called", "yield"}}

\* The queue and the map hold contexts of calls that have not returned, each once: no
\* list and no key is left to a stack frame that is gone, in whatever order responses,
\* timers and writes that block come (rpc_pb_client_duplex.cpp:426).
ContextsLive ==
    /\ Elems(m_req_queue) \subseteq Outstanding
    /\ NoDup(m_req_queue)
    /\ m_in_queue = {seq[k] : k \in Outstanding}
    /\ \A k, l \in Outstanding : seq[k] = seq[l] => k = l

\* No request is written twice, not even on a new connection after a failed write, and
\* a call returns 0 only when its own request was written.
WrittenOnce ==
    /\ \A q \in 1..MaxSeq : written[q] <= 1
    /\ \A q \in answered : written[q] = 1

\* A queued request is taken by send_proc, through as many connections as it needs,
\* with no help of its timer: the wake-up of the sender is never lost, whether it sleeps,
\* writes, has ended, or sleeps on a connection the reader has given up.
Drained == (m_req_queue # <<>>) ~> (m_req_queue = <<>> \/ m_stop_flag)

\* stop returns, with the three coroutines of the channel ended.
StopReturns == m_stop_flag ~> (pc[Stopper] = "stopped" /\ pc[Mgr] = "ended")
=============================================================================
