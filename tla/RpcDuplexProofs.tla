-------------------------- MODULE RpcDuplexProofs --------------------------
(****************************************************************************)
(* The contexts of the calls of RpcPbClientDuplex, its requests and the end *)
(* of its connections, for every number of callers, of calls and every      *)
(* batch size.                                                              *)
(****************************************************************************)
EXTENDS RpcDuplex, ListProofs, FiniteSetTheorems, TLAPS

Own == {Mgr, Sender, Reader, Stopper}

Places == {"none", "idle", "run", "called", "yield", "top", "connect", "usleep", "start",
           "join_s", "join_r", "wait_s", "wait_r", "ended", "wait", "write", "blocked",
           "ready", "poll", "read", "end", "next", "join", "stopped"}

Types ==
    /\ pc \in [Thread -> Places]
    /\ seq \in [Caller -> Nat]
    /\ m_seq_id \in Nat
    /\ m_req_queue \in Seq(Caller)

\* A caller has a number for as long as its call is not over.
Numbered ==
    \A k \in Caller : IF k \in Outstanding THEN seq[k] > 0 /\ seq[k] <= m_seq_id
                                           ELSE seq[k] = 0

LiveInv == Types /\ Numbered /\ ContextsLive

-----------------------------------------------------------------------------
\* The callers are not the coroutines of the client.
LEMMA Apart == Caller \cap Own = {} /\ Own \subseteq Thread /\ Caller \subseteq Thread
BY DuplexAssumption DEF Own, Thread

\* A coroutine of the client moves: the callers stay where they are.
LEMMA OwnMoves ==
    ASSUME Types, NEW c \in Own, NEW at \in Places,
           Goes(c, at) \/ Sleeps(c, at) \/ Resumed(c, at)
    PROVE  /\ pc' \in [Thread -> Places]
           /\ \A k \in Caller : pc'[k] = pc[k]
BY Apart DEF Types, Goes, Sleeps, Resumed

\* A caller moves: the other callers stay where they are.
LEMMA CallerMoves ==
    ASSUME Types, NEW c \in Caller, NEW at \in Places,
           Goes(c, at) \/ Sleeps(c, at) \/ Resumed(c, at)
    PROVE  /\ pc' \in [Thread -> Places]
           /\ pc'[c] = at
           /\ \A k \in Caller \ {c} : pc'[k] = pc[k]
BY Apart DEF Types, Goes, Sleeps, Resumed

\* A wake-up moves no caller but the one that does it.
LEMMA WakesMoves ==
    ASSUME Types, NEW c \in Thread, NEW at \in Places, NEW base, NEW num, Wakes(c, at, base, num)
    PROVE  /\ pc' \in [Thread -> Places]
           /\ pc'[c] = at
           /\ \A k \in Caller \ {c} : pc'[k] = pc[k]
<1>1. Sender \notin Caller /\ Caller \subseteq Thread
  BY Apart DEF Own
<1>2. \/ pc' = [x \in Thread |->
                  IF x = c THEN at
                  ELSE IF x = Sender /\ pc[x] = "wait" THEN "top" ELSE pc[x]]
      \/ pc' = [pc EXCEPT ![c] = at]
  BY DEF Wakes
<1>3. "top" \in Places
  BY DEF Places
<1> QED  BY <1>1, <1>2, <1>3 DEF Types

\* A step that leaves the calls alone.
LEMMA SameCalls ==
    ASSUME LiveInv, UNCHANGED <<m_req_queue, m_in_queue, m_seq_id, seq>>,
           pc' \in [Thread -> Places],
           \A k \in Caller : pc'[k] \in {"called", "yield"} <=> pc[k] \in {"called", "yield"}
    PROVE  LiveInv' /\ Outstanding' = Outstanding
<1>1. Outstanding' = Outstanding
  BY DEF Outstanding
<1>2. Types'
  BY DEF LiveInv, Types
<1>3. Numbered'
  BY <1>1 DEF LiveInv, Numbered
<1>4. ContextsLive'
  BY <1>1 DEF LiveInv, ContextsLive
<1> QED  BY <1>1, <1>2, <1>3, <1>4 DEF LiveInv

\* A call is added to the queue and to the map.
LEMMA CallLive == ASSUME LiveInv, NEW k \in Caller, Call(k) PROVE LiveInv'
<1> USE DEF LiveInv
<1>0. "called" \in Places /\ k \in Thread
  BY Apart DEF Places
<1>1. /\ pc' \in [Thread -> Places] /\ pc'[k] = "called"
      /\ \A l \in Caller \ {k} : pc'[l] = pc[l]
  BY <1>0, WakesMoves DEF Call
<1>2. k \notin Outstanding /\ Outstanding' = Outstanding \cup {k} /\ Outstanding \subseteq Caller
  BY <1>1 DEF Call, Outstanding
<1>3. /\ m_seq_id' = m_seq_id + 1 /\ seq' \in [Caller -> Nat] /\ seq'[k] = m_seq_id + 1
      /\ \A l \in Caller \ {k} : seq'[l] = seq[l]
      /\ m_in_queue' = m_in_queue \cup {m_seq_id + 1}
      /\ m_req_queue' = Append(m_req_queue, k)
  BY DEF Call, Types
<1>4. /\ m_req_queue' \in Seq(Caller)
      /\ Elems(m_req_queue') = Elems(m_req_queue) \cup {k} /\ NoDup(m_req_queue')
  BY <1>2, <1>3, AppendFacts DEF ContextsLive, Types
<1>5. Types'
  BY <1>1, <1>3, <1>4 DEF Types
<1>6. \A l \in Outstanding : l \in Caller \ {k} /\ seq[l] \in Nat /\ seq[l] > 0 /\ seq[l] <= m_seq_id
  BY <1>2 DEF Numbered, Types
<1>7. Numbered'
  <2> SUFFICES ASSUME NEW l \in Caller
               PROVE  IF l \in Outstanding' THEN seq'[l] > 0 /\ seq'[l] <= m_seq_id'
                                            ELSE seq'[l] = 0
    BY DEF Numbered
  <2>1. CASE l = k
    BY <1>2, <1>3, <2>1 DEF Types
  <2>2. CASE l # k
    BY <1>2, <1>3, <1>6, <2>2 DEF Numbered, Types
  <2> QED  BY <2>1, <2>2
<1>8. m_in_queue' = {seq'[l] : l \in Outstanding'}
  BY <1>2, <1>3, <1>6 DEF ContextsLive
<1>9. \A l, j \in Outstanding' : seq'[l] = seq'[j] => l = j
  BY <1>2, <1>3, <1>6 DEF ContextsLive, Types
<1>10. ContextsLive'
  BY <1>2, <1>4, <1>8, <1>9 DEF ContextsLive
<1> QED  BY <1>5, <1>7, <1>10

\* A call that is over leaves the queue and the map, whatever it waited for.
LEMMA ReturnedLive ==
    ASSUME LiveInv, NEW k \in Outstanding, Returned(k), m_seq_id' = m_seq_id,
           pc' \in [Thread -> Places], pc'[k] = "run",
           \A l \in Caller \ {k} : pc'[l] = pc[l]
    PROVE  LiveInv'
<1> USE DEF LiveInv
<1>1. k \in Caller /\ Outstanding' = Outstanding \ {k}
  BY DEF Outstanding
<1>2. /\ seq' \in [Caller -> Nat] /\ seq'[k] = 0 /\ \A l \in Caller \ {k} : seq'[l] = seq[l]
  BY <1>1 DEF Returned, Types
<1>3. /\ m_req_queue' \in Seq(Caller) /\ NoDup(m_req_queue')
      /\ Elems(m_req_queue') = Elems(m_req_queue) \ {k}
  BY UnlinkFacts DEF Returned, Types, ContextsLive
<1>4. Types'
  BY <1>2, <1>3 DEF Types
<1>5. Numbered'
  BY <1>1, <1>2 DEF Numbered
<1>6. Outstanding \subseteq Caller
  BY DEF Outstanding
<1>7. m_in_queue' = {seq'[l] : l \in Outstanding'}
  BY <1>1, <1>2, <1>6 DEF ContextsLive, Returned
<1>8. \A l, j \in Outstanding' : seq'[l] = seq'[j] => l = j
  BY <1>1, <1>2, <1>6 DEF ContextsLive
<1>9. ContextsLive'
  BY <1>1, <1>3, <1>7, <1>8 DEF ContextsLive
<1> QED  BY <1>4, <1>5, <1>9

\* send_proc takes the whole queue.
LEMMA TakeLive == ASSUME LiveInv, SendTake PROVE LiveInv' /\ Outstanding' = Outstanding
<1>1. pc' \in [Thread -> Places] /\ \A k \in Caller : pc'[k] = pc[k]
  BY OwnMoves DEF SendTake, LiveInv, Own, Places
<1>2. Outstanding' = Outstanding
  BY <1>1 DEF Outstanding
<1>3. /\ m_req_queue' = <<>> /\ m_req_queue' \in Seq(Caller)
      /\ UNCHANGED <<m_in_queue, m_seq_id, seq>>
  BY DEF SendTake
<1>4. Elems(m_req_queue') = {} /\ NoDup(m_req_queue')
  BY <1>3 DEF Elems, NoDup
<1>5. Types'
  BY <1>1, <1>3 DEF LiveInv, Types
<1>6. Numbered'
  BY <1>2, <1>3 DEF LiveInv, Numbered
<1>7. ContextsLive'
  BY <1>2, <1>3, <1>4 DEF LiveInv, ContextsLive
<1> QED  BY <1>2, <1>5, <1>6, <1>7 DEF LiveInv

-----------------------------------------------------------------------------
\* A call ends, with its response or its timer.
CallEnds(k) == k \in Outstanding /\ Returned(k) /\ m_seq_id' = m_seq_id

\* What the steps other than Call, SendTake and the ends of calls have in common.
Quiet == UNCHANGED <<m_req_queue, m_in_queue, m_seq_id, seq>>

\* mgr_proc, its notifications and the stop leave the calls alone.
LEMMA MgrQuiet ==
    ASSUME LiveInv,
           \/ MgrConnect \/ StartRead \/ JoinSend \/ JoinRead \/ StopJoin
           \/ MgrWoken \/ ConnectFailed \/ Connected \/ ExitNotify \/ Stop \/ TimerWakes
    PROVE  Quiet /\ LiveInv'
<1>1. Quiet
  BY DEF Quiet, call_vars, MgrConnect, StartRead, JoinSend, JoinRead, StopJoin, MgrWoken,
     ConnectFailed, Connected, ExitNotify, Stop, TimerWakes
<1>2. pc' \in [Thread -> Places] /\ \A k \in Caller : pc'[k] = pc[k]
  <2> USE DEF LiveInv
  <2>1. CASE MgrConnect \/ JoinSend \/ JoinRead \/ StopJoin \/ MgrWoken \/ ExitNotify
    BY <2>1, OwnMoves DEF MgrConnect, JoinSend, JoinRead, StopJoin, MgrWoken, ExitNotify,
       Own, Places
  <2>2. CASE StartRead \/ ConnectFailed \/ Connected
    BY <2>2, Apart DEF StartRead, Starts, ConnectFailed, Connected, Own, Places, Types
  <2>3. CASE Stop
    <3>1. Stopper \in Thread /\ Stopper \notin Caller /\ "join" \in Places
      BY Apart DEF Own, Places
    <3> QED  BY <2>3, <3>1, WakesMoves DEF Stop
  <2>4. CASE TimerWakes
    BY <2>4, OwnMoves DEF TimerWakes, Own, Places, Types
  <2> QED  BY <2>1, <2>2, <2>3, <2>4
<1> QED  BY <1>1, <1>2, SameCalls DEF Quiet

\* So do the waits and writes of send_proc, and read_proc but for a response.
LEMMA IoQuiet ==
    ASSUME LiveInv,
           \/ SendStop \/ SendWait \/ WriteBlock \/ WriteResume
           \/ \E n \in 0..Len(batch), ok \in BOOLEAN : WriteAll(n, ok)
           \/ ReadPoll \/ ReadNext \/ ReadEnd \/ ReadPolled
           \/ \E q \in sent : ReadLate(q)
    PROVE  Quiet /\ LiveInv'
<1>1. Quiet
  BY DEF Quiet, call_vars, SendStop, SendWait, WriteBlock, WriteResume, WriteAll, ReadPoll,
     ReadNext, ReadEnd, ReadPolled, ReadLate
<1>2. pc' \in [Thread -> Places] /\ \A k \in Caller : pc'[k] = pc[k]
  <2> USE DEF LiveInv
  <2>1. CASE SendStop \/ SendWait \/ WriteBlock \/ WriteResume
    BY <2>1, OwnMoves DEF SendStop, SendWait, WriteBlock, WriteResume, Own, Places
  <2>2. CASE \E n \in 0..Len(batch), ok \in BOOLEAN : WriteAll(n, ok)
    BY <2>2, OwnMoves DEF WriteAll, Own, Places
  <2>3. CASE ReadPoll \/ ReadEnd \/ \E q \in sent : ReadLate(q)
    BY <2>3, OwnMoves DEF ReadPoll, ReadEnd, ReadLate, Own, Places
  <2>4. CASE ReadNext
    <3>1. PICK at \in {"top", "read"} : Goes(Reader, at)
      BY <2>4 DEF ReadNext
    <3> QED  BY <3>1, OwnMoves DEF Own, Places
  <2>5. CASE ReadPolled
    <3>1. PICK at \in {"top", "end", "read"} : Resumed(Reader, at)
      BY <2>5 DEF ReadPolled
    <3> QED  BY <3>1, OwnMoves DEF Own, Places
  <2> QED  BY <2>1, <2>2, <2>3, <2>4, <2>5
<1> QED  BY <1>1, <1>2, SameCalls DEF Quiet

\* So does a caller outside its call, and when it goes to sleep in it.
LEMMA CallerQuiet ==
    ASSUME LiveInv, NEW k \in Caller, CallerRuns(k) \/ CallerBlocks(k) \/ CallYield(k)
    PROVE  Quiet /\ LiveInv'
<1>1. Quiet
  BY DEF Quiet, call_vars, CallerRuns, CallerBlocks, CallYield
<1>2. PICK at \in {"run", "idle", "yield"} :
        /\ Sleeps(k, at) \/ Resumed(k, at)
        /\ at = "yield" <=> pc[k] \in {"called", "yield"}
  BY DEF CallerRuns, CallerBlocks, CallYield
<1>3. /\ pc' \in [Thread -> Places] /\ pc'[k] = at
      /\ \A l \in Caller \ {k} : pc'[l] = pc[l]
  BY <1>2, CallerMoves DEF LiveInv, Places
<1> QED  BY <1>1, <1>2, <1>3, SameCalls DEF Quiet

\* The timer of a call.
LEMMA TimeoutLive ==
    ASSUME LiveInv, NEW k \in Caller, CallTimeout(k)
    PROVE  CallEnds(k) /\ LiveInv'
<1>1. CallEnds(k)
  BY DEF CallTimeout, CallEnds, Outstanding
<1>2. /\ pc' \in [Thread -> Places] /\ pc'[k] = "run"
      /\ \A l \in Caller \ {k} : pc'[l] = pc[l]
  BY CallerMoves DEF CallTimeout, LiveInv, Places
<1> QED  BY <1>1, <1>2, ReturnedLive DEF CallEnds

\* A response finds the call that has its number, and only one.
LEMMA RspLive ==
    ASSUME LiveInv, NEW q \in sent, ReadRsp(q)
    PROVE  (\E k \in Caller : CallEnds(k)) /\ LiveInv'
<1>1. PICK k \in Caller :
        /\ seq[k] = q
        /\ pc' = [pc EXCEPT ![Reader] = "next", ![k] = "run"]
        /\ Returned(k)
  BY DEF ReadRsp
<1>2. PICK l \in Outstanding : seq[l] = q
  BY DEF ReadRsp, LiveInv, ContextsLive
<1>3. k \in Outstanding
  <2>1. q > 0 /\ q # 0
    BY <1>2 DEF LiveInv, Numbered, Types, Outstanding
  <2> QED  BY <1>1, <2>1 DEF LiveInv, Numbered
<1>4. m_seq_id' = m_seq_id
  BY DEF ReadRsp
<1>5. /\ pc' \in [Thread -> Places] /\ pc'[k] = "run"
      /\ \A j \in Caller \ {k} : pc'[j] = pc[j]
  BY <1>1, Apart DEF Own, LiveInv, Types, Places
<1> QED  BY <1>1, <1>3, <1>4, <1>5, ReturnedLive DEF CallEnds

\* Every step is of one of four kinds, and each keeps the contexts.
LEMMA StepLive ==
    ASSUME LiveInv, Next
    PROVE  /\ LiveInv'
           /\ Quiet \/ SendTake \/ \E k \in Caller : Call(k) \/ CallEnds(k)
<1>1. CASE \/ MgrConnect \/ StartRead \/ JoinSend \/ JoinRead \/ StopJoin
           \/ MgrWoken \/ ConnectFailed \/ Connected \/ ExitNotify \/ Stop \/ TimerWakes
  BY <1>1, MgrQuiet
<1>2. CASE \/ SendStop \/ SendWait \/ WriteBlock \/ WriteResume
           \/ \E n \in 0..Len(batch), ok \in BOOLEAN : WriteAll(n, ok)
           \/ ReadPoll \/ ReadNext \/ ReadEnd \/ ReadPolled
           \/ \E q \in sent : ReadLate(q)
  BY <1>2, IoQuiet
<1>3. CASE \E k \in Caller : CallerRuns(k) \/ CallerBlocks(k) \/ CallYield(k)
  BY <1>3, CallerQuiet
<1>4. CASE \E k \in Caller : CallTimeout(k)
  BY <1>4, TimeoutLive
<1>5. CASE \E q \in sent : ReadRsp(q)
  BY <1>5, RspLive
<1>6. CASE \E k \in Caller : Call(k)
  BY <1>6, CallLive
<1>7. CASE SendTake
  BY <1>7, TakeLive
<1> QED
  BY <1>1, <1>2, <1>3, <1>4, <1>5, <1>6, <1>7 DEF Next, Running, Progress

\* Nobody calls at first.
LEMMA InitLive == Init => LiveInv
<1> SUFFICES ASSUME Init PROVE LiveInv
  OBVIOUS
<1>1. Outstanding = {}
  BY Apart DEF Init, Outstanding, Own, Thread
<1>2. Types
  BY DEF Init, Types, Places
<1>3. Numbered
  BY <1>1 DEF Init, Numbered
<1>4. ContextsLive
  BY <1>1 DEF Init, ContextsLive, Elems, NoDup
<1> QED  BY <1>2, <1>3, <1>4 DEF LiveInv

\* The invariant of the contexts holds in every state.
LEMMA LiveHolds == Spec => []LiveInv
<1>1. LiveInv /\ [Next]_vars => LiveInv'
  <2> SUFFICES ASSUME LiveInv, [Next]_vars PROVE LiveInv'
    OBVIOUS
  <2>1. CASE UNCHANGED vars
    <3>1. /\ UNCHANGED <<m_req_queue, m_in_queue, m_seq_id, seq, pc>>
          /\ pc' \in [Thread -> Places]
      BY <2>1 DEF vars, LiveInv, Types
    <3> QED  BY <3>1, SameCalls
  <2>2. CASE Next
    BY <2>2, StepLive
  <2> QED  BY <2>1, <2>2
<1> QED  BY <1>1, InitLive, PTL DEF Spec

\* However responses, timeouts and writes interleave, neither the queue nor the map keeps
\* a context whose call has returned (rpc_pb_client_duplex.cpp:426).
THEOREM ContextsAreLive == Spec => []ContextsLive
BY LiveHolds, PTL DEF LiveInv

-----------------------------------------------------------------------------
Requests ==
    /\ written \in [1..MaxSeq -> Nat]
    /\ batch \in Seq(1..MaxSeq)
    /\ sent \subseteq 1..MaxSeq /\ answered \subseteq 1..MaxSeq
    /\ m_seq_id <= MaxSeq

\* A request is queued, or in the batch, or written, and never goes back.
Forward ==
    /\ NoDup(batch)
    /\ \A q \in Elems(batch) :
        q <= m_seq_id /\ written[q] = 0 /\ \A k \in Elems(m_req_queue) : seq[k] # q
    /\ \A k \in Elems(m_req_queue) : written[seq[k]] = 0
    /\ \A q \in 1..MaxSeq : q > m_seq_id => written[q] = 0
    /\ \A q \in 1..MaxSeq : written[q] <= 1
    /\ \A q \in sent \cup answered : written[q] = 1

OnceInv == LiveInv /\ Requests /\ Forward

\* The elements of a list are of its type.
LEMMA ElemsIn == ASSUME NEW S, NEW s \in Seq(S) PROVE Elems(s) \subseteq S
BY DEF Elems

\* The queue holds numbers of calls that have begun.
LEMMA QueuedNumbers ==
    ASSUME OnceInv, NEW k \in Elems(m_req_queue)
    PROVE  k \in Caller /\ k \in Outstanding /\ seq[k] \in 1..MaxSeq /\ seq[k] <= m_seq_id
<1>1. k \in Outstanding /\ k \in Caller
  BY DEF OnceInv, LiveInv, ContextsLive, Outstanding
<1>2. seq[k] \in Nat /\ seq[k] > 0 /\ seq[k] <= m_seq_id /\ m_seq_id <= MaxSeq /\ m_seq_id \in Nat
  BY <1>1 DEF OnceInv, LiveInv, Numbered, Requests, Types
<1> QED  BY <1>1, <1>2, DuplexAssumption

\* The calls, the batch and the connection stay: nothing is written.
LEMMA SameRequests ==
    ASSUME OnceInv, Quiet, UNCHANGED <<batch, written, answered>>, sent' \subseteq sent
    PROVE  Requests' /\ Forward'
<1>1. Requests'
  BY DEF OnceInv, Requests, Quiet
<1>2. Forward'
  BY DEF OnceInv, Forward, Quiet
<1> QED  BY <1>1, <1>2

\* A new call has a number nothing was written for.
LEMMA CallOnce == ASSUME OnceInv, NEW k \in Caller, Call(k) PROVE Requests' /\ Forward'
<1>1. /\ m_seq_id' = m_seq_id + 1 /\ m_seq_id < MaxSeq /\ m_seq_id \in Nat
      /\ seq'[k] = m_seq_id + 1 /\ \A l \in Caller \ {k} : seq'[l] = seq[l]
      /\ m_req_queue' = Append(m_req_queue, k)
      /\ UNCHANGED <<batch, written, sent, answered>>
  BY DEF Call, OnceInv, LiveInv, Types, net_vars
<1>2. Requests'
  BY <1>1, DuplexAssumption DEF OnceInv, Requests
<1>3. Elems(m_req_queue') = Elems(m_req_queue) \cup {k} /\ k \notin Elems(m_req_queue)
  <2>1. k \notin Outstanding
    BY DEF Call, Outstanding
  <2> QED  BY <1>1, <2>1, AppendFacts DEF OnceInv, LiveInv, Types, ContextsLive
<1>4. \A l \in Elems(m_req_queue) : l \in Caller \ {k} /\ seq'[l] = seq[l]
  BY <1>1, <1>3, QueuedNumbers
<1>5. Elems(batch) \subseteq 1..MaxSeq
  BY ElemsIn DEF OnceInv, Requests
<1>6. m_seq_id + 1 \in 1..MaxSeq /\ written[m_seq_id + 1] = 0
  BY <1>1, DuplexAssumption DEF OnceInv, Forward
<1>7. \A q \in Elems(batch) : q <= m_seq_id' /\ q # m_seq_id + 1
  BY <1>1, <1>5, DuplexAssumption DEF OnceInv, Forward
<1>8. \A q \in Elems(batch) : \A l \in Elems(m_req_queue') : seq'[l] # q
  BY <1>1, <1>3, <1>4, <1>7 DEF OnceInv, Forward
<1>9. \A l \in Elems(m_req_queue') : written[seq'[l]] = 0
  BY <1>1, <1>3, <1>4, <1>6 DEF OnceInv, Forward
<1>10. \A q \in 1..MaxSeq : q > m_seq_id' => written[q] = 0
  BY <1>1, DuplexAssumption DEF OnceInv, Forward
<1>11. Forward'
  BY <1>1, <1>7, <1>8, <1>9, <1>10 DEF OnceInv, Forward
<1> QED  BY <1>2, <1>11

\* A call that is over only takes its request out of the queue.
LEMMA EndsOnce ==
    ASSUME OnceInv, NEW k \in Caller, CallEnds(k), UNCHANGED <<batch, written>>,
           sent' \subseteq sent, answered' \subseteq answered \cup sent
    PROVE  Requests' /\ Forward'
<1>1. /\ m_seq_id' = m_seq_id /\ m_req_queue' = Unlink(m_req_queue, k)
      /\ \A l \in Caller \ {k} : seq'[l] = seq[l]
  BY DEF CallEnds, Returned, OnceInv, LiveInv, Types
<1>2. Requests'
  BY <1>1 DEF OnceInv, Requests
<1>3. Elems(m_req_queue') = Elems(m_req_queue) \ {k}
  BY <1>1, UnlinkFacts DEF OnceInv, LiveInv, Types, ContextsLive
<1>4. \A l \in Elems(m_req_queue') : l \in Elems(m_req_queue) /\ seq'[l] = seq[l]
  BY <1>1, <1>3, QueuedNumbers
<1>5. Forward'
  BY <1>1, <1>4 DEF OnceInv, Forward
<1> QED  BY <1>2, <1>5

\* send_proc takes every request of the queue once.
LEMMA TakeOnce == ASSUME OnceInv, SendTake PROVE Requests' /\ Forward'
<1>1. /\ batch' = Ids(m_req_queue) /\ m_req_queue' = <<>>
      /\ UNCHANGED <<m_seq_id, seq, answered, sent, written>>
      /\ m_req_queue \in Seq(Caller)
  BY DEF SendTake, OnceInv, LiveInv, Types
<1>2. \A i \in 1..Len(m_req_queue) : m_req_queue[i] \in Elems(m_req_queue)
  BY DEF Elems
<1>3. /\ batch' \in Seq(1..MaxSeq) /\ Len(batch') = Len(m_req_queue)
      /\ \A i \in 1..Len(m_req_queue) : batch'[i] = seq[m_req_queue[i]]
  <2>1. Len(m_req_queue) \in Nat
    BY <1>1
  <2>2. \A i \in 1..Len(m_req_queue) : seq[m_req_queue[i]] \in 1..MaxSeq
    BY <1>2, QueuedNumbers
  <2>3. Ids(m_req_queue) \in Seq(1..MaxSeq)
    BY <2>1, <2>2 DEF Ids
  <2>4. Len(Ids(m_req_queue)) = Len(m_req_queue)
    BY <2>1 DEF Ids
  <2>5. \A i \in 1..Len(m_req_queue) : Ids(m_req_queue)[i] = seq[m_req_queue[i]]
    BY DEF Ids
  <2> QED  BY <1>1, <2>3, <2>4, <2>5
<1>4. Requests'
  BY <1>1, <1>3 DEF OnceInv, Requests
<1>5. NoDup(batch')
  <2> SUFFICES ASSUME NEW i \in 1..Len(m_req_queue), NEW j \in 1..Len(m_req_queue),
                      batch'[i] = batch'[j]
               PROVE  i = j
    BY <1>3 DEF NoDup
  <2>1. m_req_queue[i] = m_req_queue[j]
    BY <1>2, <1>3, QueuedNumbers DEF OnceInv, LiveInv, ContextsLive
  <2> QED  BY <2>1 DEF OnceInv, LiveInv, ContextsLive, NoDup
<1>6. \A q \in Elems(batch') : \E k \in Elems(m_req_queue) : q = seq[k]
  BY <1>2, <1>3 DEF Elems
<1>7. \A q \in Elems(batch') : q <= m_seq_id /\ written[q] = 0
  BY <1>6, QueuedNumbers DEF OnceInv, Forward
<1>8. Elems(m_req_queue') = {}
  BY <1>1 DEF Elems
<1>9. Forward'
  BY <1>1, <1>5, <1>7, <1>8 DEF OnceInv, Forward
<1> QED  BY <1>4, <1>9

\* The places of q among the first n of s.
At(s, n, q) == {i \in 1..n : s[i] = q}

\* In a list without duplicates, a value is at no place or at one.
LEMMA OccursOnce ==
    ASSUME NEW S, NEW s \in Seq(S), NoDup(s), NEW n \in 0..Len(s), NEW q
    PROVE  /\ q \in Elems(SubSeq(s, 1, n)) => Cardinality(At(s, n, q)) = 1 /\ q \in Elems(s)
           /\ q \notin Elems(SubSeq(s, 1, n)) => Cardinality(At(s, n, q)) = 0
<1> DEFINE P == At(s, n, q)
<1>0. Len(s) \in Nat /\ n \in Nat /\ n <= Len(s)
  OBVIOUS
<1>1. Len(SubSeq(s, 1, n)) = n /\ \A i \in 1..n : SubSeq(s, 1, n)[i] = s[i]
  BY <1>0
<1>2. q \in Elems(SubSeq(s, 1, n)) <=> \E i \in 1..n : s[i] = q
  BY <1>1 DEF Elems
<1>3. ASSUME NEW k \in 1..n, s[k] = q PROVE Cardinality(P) = 1 /\ q \in Elems(s)
  <2>1. P = {k}
    BY <1>0, <1>3 DEF NoDup, At
  <2>2. q \in Elems(s)
    BY <1>0, <1>3 DEF Elems
  <2> QED  BY <2>1, <2>2, FS_Singleton
<1>4. ASSUME q \notin Elems(SubSeq(s, 1, n)) PROVE Cardinality(P) = 0
  <2>1. P = {}
    BY <1>2, <1>4 DEF At
  <2> QED  BY <2>1, FS_EmptySet
<1> QED  BY <1>2, <1>3, <1>4

\* What is written was in the batch, once, and had not been written.
LEMMA WriteOnce ==
    ASSUME OnceInv, NEW n \in 0..Len(batch), NEW ok \in BOOLEAN, WriteAll(n, ok), Quiet
    PROVE  Requests' /\ Forward'
<1> DEFINE Now == Elems(SubSeq(batch, 1, n))
           P(q) == At(batch, n, q)
<1>1. /\ sent' = sent \cup Now /\ batch' = <<>> /\ answered' = answered
      /\ written' = [q \in 1..MaxSeq |-> written[q] + Cardinality(P(q))]
      /\ batch \in Seq(1..MaxSeq) /\ NoDup(batch)
  BY DEF WriteAll, call_vars, OnceInv, Requests, Forward, At
<1>2. \A q : /\ q \in Now => Cardinality(P(q)) = 1 /\ q \in Elems(batch)
             /\ q \notin Now => Cardinality(P(q)) = 0
  BY <1>1, OccursOnce
<1>3. Elems(batch) \subseteq 1..MaxSeq
  BY <1>1, ElemsIn
<1> HIDE DEF Now, P
<1>4. \A q \in 1..MaxSeq : written[q] \in Nat
  BY DEF OnceInv, Requests
<1>5. \A q \in 1..MaxSeq : /\ q \in Now => written'[q] = 1 /\ written[q] = 0 /\ q \in Elems(batch)
                           /\ q \notin Now => written'[q] = written[q]
  BY <1>1, <1>2, <1>4 DEF OnceInv, Forward
<1>6. Requests'
  <2>1. written' \in [1..MaxSeq -> Nat]
    BY <1>1, <1>2, <1>4
  <2>2. sent' \subseteq 1..MaxSeq
    BY <1>1, <1>2, <1>3 DEF OnceInv, Requests
  <2> QED  BY <1>1, <2>1, <2>2 DEF OnceInv, Requests, Quiet
<1>7. Elems(batch') = {} /\ NoDup(batch')
  BY <1>1 DEF Elems, NoDup
<1>8. \A k \in Elems(m_req_queue) : written'[seq[k]] = 0
  <2>1. \A k \in Elems(m_req_queue) : seq[k] \in 1..MaxSeq /\ seq[k] \notin Elems(batch)
    BY QueuedNumbers DEF OnceInv, Forward
  <2> QED  BY <1>5, <2>1 DEF OnceInv, Forward
<1>9. \A q \in 1..MaxSeq : q > m_seq_id => written'[q] = 0
  <2>1. \A q \in Elems(batch) : ~(q > m_seq_id)
    BY <1>3 DEF OnceInv, LiveInv, Types, Forward
  <2> QED  BY <1>5, <2>1 DEF OnceInv, Forward
<1>10. \A q \in 1..MaxSeq : written'[q] <= 1
  BY <1>5 DEF OnceInv, Forward
<1>11. \A q \in sent' \cup answered' : written'[q] = 1
  <2>1. \A q \in sent \cup answered : q \in 1..MaxSeq /\ written[q] = 1
    BY DEF OnceInv, Forward, Requests
  <2>2. Now \subseteq 1..MaxSeq
    BY <1>2, <1>3
  <2> QED  BY <1>1, <1>5, <2>1, <2>2
<1>12. Forward'
  BY <1>7, <1>8, <1>9, <1>10, <1>11 DEF Forward, Quiet
<1> QED  BY <1>6, <1>12

\* Every step keeps it.
LEMMA StepOnce == ASSUME OnceInv, Next PROVE OnceInv'
<1>0. LiveInv
  BY DEF OnceInv
<1>1. LiveInv'
  BY <1>0, StepLive
<1>2. CASE \/ MgrConnect \/ StartRead \/ JoinSend \/ JoinRead \/ StopJoin
           \/ MgrWoken \/ ConnectFailed \/ Connected \/ ExitNotify \/ Stop \/ TimerWakes
  <2>1. Quiet
    BY <1>0, <1>2, MgrQuiet
  <2>2. UNCHANGED <<batch, written, answered>> /\ sent' \subseteq sent
    BY <1>2 DEF MgrConnect, StartRead, JoinSend, JoinRead, StopJoin, MgrWoken,
       ConnectFailed, Connected, ExitNotify, Stop, TimerWakes, call_vars, net_vars
  <2> QED  BY <1>1, <2>1, <2>2, SameRequests DEF OnceInv
<1>3. CASE \/ SendStop \/ SendWait \/ WriteBlock \/ WriteResume
           \/ ReadPoll \/ ReadNext \/ ReadEnd \/ ReadPolled
           \/ \E q \in sent : ReadLate(q)
  <2>1. Quiet
    BY <1>0, <1>3, IoQuiet
  <2>2. UNCHANGED <<batch, written, answered>> /\ sent' \subseteq sent
    BY <1>3 DEF SendStop, SendWait, WriteBlock, WriteResume, ReadPoll, ReadNext, ReadEnd,
       ReadPolled, ReadLate, call_vars, net_vars
  <2> QED  BY <1>1, <2>1, <2>2, SameRequests DEF OnceInv
<1>4. ASSUME NEW n \in 0..Len(batch), NEW ok \in BOOLEAN, WriteAll(n, ok) PROVE OnceInv'
  <2>1. Quiet
    BY <1>0, <1>4, IoQuiet
  <2> QED  BY <1>1, <1>4, <2>1, WriteOnce DEF OnceInv
<1>5. ASSUME NEW k \in Caller, CallerRuns(k) \/ CallerBlocks(k) \/ CallYield(k) PROVE OnceInv'
  <2>1. Quiet
    BY <1>0, <1>5, CallerQuiet
  <2>2. UNCHANGED <<batch, written, answered, sent>>
    BY <1>5 DEF CallerRuns, CallerBlocks, CallYield, call_vars, net_vars
  <2> QED  BY <1>1, <2>1, <2>2, SameRequests DEF OnceInv
<1>6. ASSUME NEW k \in Caller, CallTimeout(k) PROVE OnceInv'
  <2>1. CallEnds(k)
    BY <1>0, <1>6, TimeoutLive
  <2>2. UNCHANGED <<batch, written, answered, sent>>
    BY <1>6 DEF CallTimeout, net_vars
  <2> QED  BY <1>1, <2>1, <2>2, EndsOnce DEF OnceInv
<1>7. ASSUME NEW q \in sent, ReadRsp(q) PROVE OnceInv'
  <2>1. PICK k \in Caller : CallEnds(k)
    BY <1>0, <1>7, RspLive
  <2>2. UNCHANGED <<batch, written>> /\ sent' \subseteq sent /\ answered' \subseteq answered \cup sent
    BY <1>7 DEF ReadRsp
  <2> QED  BY <1>1, <2>1, <2>2, EndsOnce DEF OnceInv
<1>8. CASE \E k \in Caller : Call(k)
  BY <1>1, <1>8, CallOnce DEF OnceInv
<1>9. CASE SendTake
  BY <1>1, <1>9, TakeOnce DEF OnceInv
<1> QED
  BY <1>2, <1>3, <1>4, <1>5, <1>6, <1>7, <1>8, <1>9 DEF Next, Running, Progress

\* Nothing is written at first.
LEMMA InitOnce == Init => OnceInv
<1> SUFFICES ASSUME Init PROVE OnceInv
  OBVIOUS
<1>1. Requests
  BY DuplexAssumption DEF Init, Requests
<1>2. Forward
  BY DEF Init, Forward, Elems, NoDup
<1> QED  BY <1>1, <1>2, InitLive DEF OnceInv

\* No request goes to a host twice, over however many connections, and a call returns 0
\* only when its request was written (rpc_pb_client_duplex.cpp:157).
THEOREM RequestsWrittenOnce == Spec => []WrittenOnce
<1>1. OnceInv /\ [Next]_vars => OnceInv'
  <2> SUFFICES ASSUME OnceInv, [Next]_vars PROVE OnceInv'
    OBVIOUS
  <2>1. CASE UNCHANGED vars
    <3>1. Quiet /\ UNCHANGED <<pc, batch, written, answered, sent>>
      BY <2>1 DEF vars, Quiet
    <3>2. LiveInv'
      BY <3>1, SameCalls DEF OnceInv, LiveInv, Types, Quiet
    <3>3. Requests' /\ Forward'
      BY <3>1, SameRequests
    <3> QED  BY <3>2, <3>3 DEF OnceInv
  <2>2. CASE Next
    BY <2>2, StepOnce
  <2> QED  BY <2>1, <2>2
<1>2. OnceInv => WrittenOnce
  BY DEF OnceInv, Forward, WrittenOnce
<1> QED  BY <1>1, <1>2, InitOnce, PTL DEF Spec

-----------------------------------------------------------------------------
Gone == {"none", "ended"}

\* Between two connections mgr_proc is alone: the descriptor is closed, and the two
\* coroutines are allocated again, only when both of the last connection have ended.
AloneBetween ==
    pc[Mgr] \in {"top", "connect", "usleep", "ended"} =>
        pc[Sender] \in Gone /\ pc[Reader] \in Gone

\* When stop has returned no coroutine of the channel is left to use it.
StoppedAlone ==
    pc[Stopper] = "stopped" =>
        pc[Mgr] = "ended" /\ pc[Sender] \in Gone /\ pc[Reader] \in Gone

\* What mgr_proc knows of the two at each of its places.
Joined ==
    /\ pc[Mgr] \in {"top", "connect", "usleep", "start", "join_s", "wait_s", "join_r", "wait_r",
                    "ended"}
    /\ AloneBetween
    /\ pc[Mgr] = "start" => pc[Reader] \in Gone
    /\ pc[Mgr] \in {"join_r", "wait_r"} => pc[Sender] = "ended"
    /\ pc[Stopper] = "stopped" => pc[Mgr] = "ended"

JoinedInv == LiveInv /\ Joined

\* The four coroutines of the client are different.
LEMMA FourApart ==
    /\ Mgr # Sender /\ Mgr # Reader /\ Mgr # Stopper
    /\ Sender # Reader /\ Sender # Stopper /\ Reader # Stopper
<1>1. ASSUME NEW x, NEW y, NEW z
      PROVE  Cardinality({x, y, z}) <= 3
  <2>1. IsFiniteSet({x}) /\ Cardinality({x}) = 1
    BY FS_Singleton
  <2>2. IsFiniteSet({x} \cup {y}) /\ Cardinality({x} \cup {y}) \in {1, 2}
    <3>1. Cardinality({x} \cup {y}) = IF y \in {x} THEN Cardinality({x}) ELSE Cardinality({x}) + 1
      BY <2>1, FS_AddElement
    <3>2. IsFiniteSet({x} \cup {y})
      BY <2>1, FS_AddElement
    <3> QED  BY <2>1, <3>1, <3>2
  <2> DEFINE S == {x} \cup {y}
  <2>3. S \cup {z} = {x, y, z}
    OBVIOUS
  <2>4. IsFiniteSet(S) /\ Cardinality(S) \in {1, 2}
    BY <2>2
  <2> HIDE DEF S
  <2>5. Cardinality(S \cup {z}) = IF z \in S THEN Cardinality(S) ELSE Cardinality(S) + 1
    BY <2>4, FS_AddElement
  <2>6. Cardinality(S \cup {z}) <= 3
    BY <2>4, <2>5
  <2> QED  BY <2>3, <2>6
<1>2. Cardinality({Mgr, Sender, Reader, Stopper}) = 4
  BY DuplexAssumption
<1>3. ASSUME NEW x, NEW y, NEW z, {Mgr, Sender, Reader, Stopper} = {x, y, z} PROVE FALSE
  <2>1. Cardinality({x, y, z}) = 4
    BY <1>2, <1>3
  <2>2. Cardinality({x, y, z}) <= 3
    BY <1>1
  <2> QED  BY <2>1, <2>2
<1>4. Mgr # Sender
  <2> SUFFICES ASSUME Mgr = Sender PROVE {Mgr, Sender, Reader, Stopper} = {Sender, Reader, Stopper}
    BY <1>3
  <2> QED  OBVIOUS
<1>5. Mgr # Reader
  <2> SUFFICES ASSUME Mgr = Reader PROVE {Mgr, Sender, Reader, Stopper} = {Sender, Reader, Stopper}
    BY <1>3
  <2> QED  OBVIOUS
<1>6. Mgr # Stopper
  <2> SUFFICES ASSUME Mgr = Stopper PROVE {Mgr, Sender, Reader, Stopper} = {Sender, Reader, Stopper}
    BY <1>3
  <2> QED  OBVIOUS
<1>7. Sender # Reader
  <2> SUFFICES ASSUME Sender = Reader PROVE {Mgr, Sender, Reader, Stopper} = {Mgr, Reader, Stopper}
    BY <1>3
  <2> QED  OBVIOUS
<1>8. Sender # Stopper
  <2> SUFFICES ASSUME Sender = Stopper PROVE {Mgr, Sender, Reader, Stopper} = {Mgr, Reader, Stopper}
    BY <1>3
  <2> QED  OBVIOUS
<1>9. Reader # Stopper
  <2> SUFFICES ASSUME Reader = Stopper PROVE {Mgr, Sender, Reader, Stopper} = {Mgr, Sender, Stopper}
    BY <1>3
  <2> QED  OBVIOUS
<1> QED  BY <1>4, <1>5, <1>6, <1>7, <1>8, <1>9

\* A step of the others: mgr_proc stays, and what has ended stays so.
LEMMA JoinedIf ==
    ASSUME Joined, pc'[Mgr] = pc[Mgr],
           pc'[Stopper] = "stopped" => pc[Stopper] = "stopped" \/ pc[Mgr] = "ended",
           pc'[Sender] = pc[Sender] \/ pc[Sender] \notin Gone,
           pc'[Reader] = pc[Reader] \/ pc[Reader] \notin Gone
    PROVE  Joined'
BY DEF Joined, AloneBetween, Gone

\* send_proc and read_proc.
LEMMA IoJoined ==
    ASSUME JoinedInv,
           \/ SendStop \/ SendWait \/ SendTake \/ WriteBlock \/ WriteResume \/ TimerWakes
           \/ \E n \in 0..Len(batch), ok \in BOOLEAN : WriteAll(n, ok)
           \/ ReadPoll \/ ReadNext \/ ReadEnd \/ ReadPolled
           \/ \E q \in sent : ReadRsp(q) \/ ReadLate(q)
    PROVE  Joined'
<1> USE FourApart, Apart DEF JoinedInv, LiveInv
<1>0. Mgr \in Thread /\ Sender \in Thread /\ Reader \in Thread /\ Stopper \in Thread
  BY DEF Own
<1>1. CASE \/ SendStop \/ SendWait \/ SendTake \/ WriteBlock \/ WriteResume \/ TimerWakes
           \/ \E n \in 0..Len(batch), ok \in BOOLEAN : WriteAll(n, ok)
  <2>1. \/ pc' = pc
        \/ /\ pc[Sender] \notin Gone
           /\ \E at : pc' = [pc EXCEPT ![Sender] = at]
    BY <1>1 DEF SendStop, SendWait, SendTake, WriteBlock, WriteResume, TimerWakes, WriteAll,
       Goes, Sleeps, Resumed, Gone
  <2>2. pc'[Mgr] = pc[Mgr] /\ pc'[Reader] = pc[Reader] /\ pc'[Stopper] = pc[Stopper]
    BY <1>0, <2>1 DEF Types
  <2> QED  BY <2>1, <2>2, JoinedIf
<1>2. CASE \/ ReadPoll \/ ReadNext \/ ReadEnd \/ ReadPolled \/ \E q \in sent : ReadLate(q)
  <2>1. /\ pc[Reader] \notin Gone
        /\ \E at : pc' = [pc EXCEPT ![Reader] = at]
    BY <1>2 DEF ReadPoll, ReadNext, ReadEnd, ReadPolled, ReadLate, Goes, Sleeps, Resumed, Gone
  <2>2. pc'[Mgr] = pc[Mgr] /\ pc'[Sender] = pc[Sender] /\ pc'[Stopper] = pc[Stopper]
    BY <1>0, <2>1 DEF Types
  <2> QED  BY <2>1, <2>2, JoinedIf
<1>3. CASE \E q \in sent : ReadRsp(q)
  <2>1. pc[Reader] \notin Gone
    BY <1>3 DEF ReadRsp, Gone
  <2>2. PICK k \in Caller : pc' = [pc EXCEPT ![Reader] = "next", ![k] = "run"]
    BY <1>3 DEF ReadRsp
  <2>3. k # Mgr /\ k # Sender /\ k # Stopper
    BY DEF Own
  <2>4. pc'[Mgr] = pc[Mgr] /\ pc'[Sender] = pc[Sender] /\ pc'[Stopper] = pc[Stopper]
    BY <1>0, <2>2, <2>3 DEF Types
  <2> QED  BY <2>1, <2>4, JoinedIf
<1> QED  BY <1>1, <1>2, <1>3

\* The callers, and the coroutine that stops.
LEMMA CallJoined ==
    ASSUME JoinedInv,
           \/ \E k \in Caller : \/ CallerRuns(k) \/ CallerBlocks(k) \/ Call(k) \/ CallYield(k)
                               \/ CallTimeout(k)
           \/ Stop \/ StopJoin
    PROVE  Joined'
<1> USE FourApart, Apart DEF JoinedInv, LiveInv
<1>0. Mgr \in Thread /\ Sender \in Thread /\ Reader \in Thread /\ Stopper \in Thread
  BY DEF Own
<1>1. CASE \E k \in Caller : \/ CallerRuns(k) \/ CallerBlocks(k) \/ CallYield(k)
                            \/ CallTimeout(k)
  <2>1. PICK k \in Caller : \E at : pc' = [pc EXCEPT ![k] = at]
    BY <1>1 DEF CallerRuns, CallerBlocks, CallYield, CallTimeout, Sleeps, Resumed
  <2>2. k \notin Own
    OBVIOUS
  <2>3. /\ pc'[Mgr] = pc[Mgr] /\ pc'[Sender] = pc[Sender]
        /\ pc'[Reader] = pc[Reader] /\ pc'[Stopper] = pc[Stopper]
    BY <2>1, <2>2 DEF Own
  <2> QED  BY <2>3, JoinedIf
<1>2. ASSUME NEW c \in Caller \cup {Stopper}, NEW at \in {"called", "join"}, NEW base, NEW num,
             Wakes(c, at, base, num)
      PROVE  Joined'
  <2>1. c # Mgr /\ c # Sender /\ c # Reader
    BY DEF Own
  <2>2. \/ pc' = [x \in Thread |->
                    IF x = c THEN at
                    ELSE IF x = Sender /\ pc[x] = "wait" THEN "top" ELSE pc[x]]
        \/ pc' = [pc EXCEPT ![c] = at]
    BY <1>2 DEF Wakes
  <2>3. /\ pc'[Mgr] = pc[Mgr] /\ pc'[Reader] = pc[Reader]
        /\ pc'[Sender] = pc[Sender] \/ pc[Sender] = "wait"
        /\ pc'[Stopper] \in {pc[Stopper], "called", "join"}
    BY <1>0, <2>1, <2>2 DEF Types
  <2> QED  BY <2>3, JoinedIf DEF Gone
<1>3. CASE Stop \/ \E k \in Caller : Call(k)
  BY <1>2, <1>3 DEF Stop, Call
<1>4. CASE StopJoin
  <2>1. /\ pc'[Mgr] = pc[Mgr] /\ pc'[Sender] = pc[Sender] /\ pc'[Reader] = pc[Reader]
        /\ pc'[Stopper] = IF pc[Mgr] = "ended" THEN "stopped" ELSE "wait"
    BY <1>0, <1>4 DEF StopJoin, Sleeps, Types
  <2> QED  BY <2>1, JoinedIf
<1> QED  BY <1>1, <1>3, <1>4

\* mgr_proc, which has not ended: so stop has not returned.
LEMMA MgrJoined ==
    ASSUME JoinedInv,
           \/ MgrConnect \/ StartRead \/ JoinSend \/ JoinRead
           \/ MgrWoken \/ ConnectFailed \/ Connected \/ ExitNotify
    PROVE  Joined'
<1> USE FourApart, Apart DEF JoinedInv, LiveInv
<1>0. Mgr \in Thread /\ Sender \in Thread /\ Reader \in Thread /\ Stopper \in Thread
  BY DEF Own
<1>1. CASE MgrConnect \/ MgrWoken \/ ConnectFailed
  <2>1. /\ pc[Mgr] \in {"top", "usleep", "connect"} /\ pc'[Mgr] \in {"top", "usleep", "connect", "ended"}
        /\ pc'[Sender] = pc[Sender] /\ pc'[Reader] = pc[Reader] /\ pc'[Stopper] = pc[Stopper]
    BY <1>0, <1>1 DEF MgrConnect, MgrWoken, ConnectFailed, Sleeps, Resumed, Types
  <2> QED  BY <2>1 DEF Joined, AloneBetween
<1>2. CASE Connected
  <2>1. /\ pc[Mgr] = "connect" /\ pc'[Mgr] = "start"
        /\ pc'[Reader] = pc[Reader] /\ pc'[Stopper] = pc[Stopper]
    BY <1>0, <1>2 DEF Connected, Types
  <2> QED  BY <2>1 DEF Joined, AloneBetween
<1>3. CASE StartRead
  <2>1. pc[Mgr] = "start" /\ pc'[Mgr] = "join_s" /\ pc'[Stopper] = pc[Stopper]
    BY <1>0, <1>3 DEF StartRead, Starts, Types
  <2> QED  BY <2>1 DEF Joined, AloneBetween
<1>4. CASE JoinSend
  <2>1. /\ pc[Mgr] = "join_s" /\ pc'[Mgr] = IF pc[Sender] = "ended" THEN "join_r" ELSE "wait_s"
        /\ pc'[Sender] = pc[Sender] /\ pc'[Stopper] = pc[Stopper]
    BY <1>0, <1>4 DEF JoinSend, Goes, Sleeps, Types
  <2> QED  BY <2>1 DEF Joined, AloneBetween
<1>5. CASE JoinRead
  <2>1. /\ pc[Mgr] = "join_r" /\ pc'[Mgr] = IF pc[Reader] = "ended" THEN "top" ELSE "wait_r"
        /\ pc'[Sender] = pc[Sender] /\ pc'[Reader] = pc[Reader] /\ pc'[Stopper] = pc[Stopper]
    BY <1>0, <1>5 DEF JoinRead, Goes, Sleeps, Types
  <2> QED  BY <2>1 DEF Joined, AloneBetween, Gone
<1>6. CASE ExitNotify
  <2>1. \/ /\ pc[Mgr] = "wait_s" /\ pc'[Mgr] = "join_s" /\ pc'[Stopper] = pc[Stopper]
           /\ pc'[Sender] = pc[Sender]
        \/ /\ pc[Mgr] = "wait_r" /\ pc'[Mgr] = "join_r" /\ pc'[Stopper] = pc[Stopper]
           /\ pc'[Sender] = pc[Sender]
        \/ /\ pc'[Mgr] = pc[Mgr] /\ pc'[Stopper] = "join"
           /\ pc'[Sender] = pc[Sender] /\ pc'[Reader] = pc[Reader]
    BY <1>0, <1>6 DEF ExitNotify, Resumed, Types
  <2> QED  BY <2>1 DEF Joined, AloneBetween
<1> QED  BY <1>1, <1>2, <1>3, <1>4, <1>5, <1>6

\* What mgr_proc knows holds in every state.
LEMMA JoinedHolds == Spec => []Joined
<1>1. Init => Joined
  <2> SUFFICES ASSUME Init PROVE Joined
    OBVIOUS
  <2>1. pc[Mgr] = "top" /\ pc[Sender] = "none" /\ pc[Reader] = "none" /\ pc[Stopper] = "idle"
    BY FourApart, Apart DEF Init, Own
  <2> QED  BY <2>1 DEF Joined, AloneBetween, Gone
<1>2. Joined /\ LiveInv /\ [Next]_vars => Joined'
  <2> SUFFICES ASSUME Joined, LiveInv, [Next]_vars PROVE Joined'
    OBVIOUS
  <2>1. CASE UNCHANGED vars
    BY <2>1 DEF vars, Joined, AloneBetween
  <2>2. CASE Next
    BY <2>2, IoJoined, CallJoined, MgrJoined DEF JoinedInv, Next, Running, Progress
  <2> QED  BY <2>1, <2>2
<1> QED  BY <1>1, <1>2, LiveHolds, PTL DEF Spec

\* A connection is closed, and the next one opened, only when send_proc and read_proc have
\* both ended, whichever fails first and whatever it was blocked in
\* (rpc_pb_client_duplex.cpp:126).
THEOREM OneConnectionAtATime == Spec => []AloneBetween
<1>1. Joined => AloneBetween
  BY DEF Joined
<1> QED  BY <1>1, JoinedHolds, PTL

\* stop returns only when none of the three coroutines is left (rpc_pb_client_duplex.cpp:92).
THEOREM StopLeavesNobody == Spec => []StoppedAlone
<1>1. Joined => StoppedAlone
  BY DEF Joined, AloneBetween, StoppedAlone
<1> QED  BY <1>1, JoinedHolds, PTL
=============================================================================
