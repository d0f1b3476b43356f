--------------------------- MODULE ChannelProofs ---------------------------
(****************************************************************************)
(* The count of pending responses of a channel_t, its sleeping coroutines,  *)
(* the order of what it sends and its end, for every max_pending and every  *)
(* number of commands.                                                      *)
(****************************************************************************)
EXTENDS Channel, ListProofs, TLAPS

Own == {R, W, O}

Places == {"none", "top", "wait", "poll", "cb", "bad", "end", "ret", "ended", "next", "send",
           "sent", "unsent", "fail", "start", "started", "wait_on", "join_r", "wait_r",
           "join_w", "wait_w"}

Joining == {"join_r", "wait_r", "join_w", "wait_w", "ended"}

Types ==
    /\ tx_queue \in Seq(Cmd) /\ out \in Seq(Cmd) /\ sending \in Seq(Cmd)
    /\ pending \in Int
    /\ pc \in [Own -> Places]
    /\ pc[O] \in {"start", "started", "wait_on", "wait", "top"} \cup Joining

\* What the writer has in its hands at each place, and the count.
Hands ==
    /\ pc[W] \in {"none", "top", "wait"} => out = <<>>
    /\ pc[W] \in {"none", "top", "wait", "next"} => sending = <<>>
    /\ pc[W] \in {"send", "sent", "unsent"} => Len(sending) = 1
    /\ PendingExact

\* While start runs, nothing else does: reader and writer get to their first sleep.
Booting ==
    /\ pc[O] = "start" => stack = <<O>> /\ pc[R] = "none" /\ pc[W] = "none"
    /\ pc[O] = "started" =>
        /\ pc[W] = "none"
        /\ \/ stack = <<O>> /\ pc[R] = "poll"
           \/ stack = Append(<<O>>, R) /\ pc[R] = "top"
    /\ pc[O] = "wait_on" =>
        /\ pc[R] = "poll"
        /\ \/ stack = <<O>> /\ pc[W] = "wait"
           \/ stack = Append(<<O>>, W) /\ pc[W] = "top"
    /\ pc[O] \in {"start", "started", "wait_on"} =>
        ~to_stop /\ ~r_stop /\ ~w_stop /\ pending = 0 /\ tx_queue = <<>>

\* NobodyStuck, and what makes the wake-ups come.
Awake ==
    /\ NobodyStuck
    /\ pc[R] = "wait" => pending >= MaxPending
    /\ pc[O] = "wait" => pc[W] \notin {"none", "ret", "ended"}
    /\ pc[O] \in Joining => to_stop

IInv == Types /\ Hands /\ Booting /\ Awake

-----------------------------------------------------------------------------
\* One coroutine of the channel moves.
LEMMA Moves ==
    ASSUME Types, NEW c \in Own, NEW at \in Places,
           Goes(c, at) \/ Sleeps(c, at) \/ Resumed(c, at)
    PROVE  /\ pc' \in [Own -> Places] /\ pc'[c] = at
           /\ \A x \in Own \ {c} : pc'[x] = pc[x]
BY DEF Types, Goes, Sleeps, Resumed

\* One moves, or a worker does, and wakes another.
LEMMA WakesMoves ==
    ASSUME Types, NEW self \in Own \cup Cmd, NEW at \in Places, NEW c \in Own \ {self},
           Wakes(self, at, c)
    PROVE  /\ pc' \in [Own -> Places]
           /\ self \in Own => pc'[self] = at
           /\ pc'[c] = IF pc[c] = "wait" THEN "top" ELSE pc[c]
           /\ \A x \in Own \ {self, c} : pc'[x] = pc[x]
BY DEF Types, Wakes, Own, Places

\* The coroutines are different from each other and from the workers.
LEMMA Apart == R # W /\ R # O /\ W # O /\ Own \cap Cmd = {} /\ {R, W, O} \subseteq Own
BY ChannelAssumption DEF Own, Cmd

\* One of the three wakes another.
LEMMA OwnWakes ==
    ASSUME Types, NEW self \in Own, NEW at \in Places, NEW c \in Own, self # c,
           NEW x \in Own, x # self, x # c, Wakes(self, at, c)
    PROVE  /\ pc' \in [Own -> Places] /\ pc'[self] = at /\ pc'[x] = pc[x]
           /\ pc'[c] = IF pc[c] = "wait" THEN "top" ELSE pc[c]
<1>1. self \in Own \cup Cmd /\ c \in Own \ {self} /\ x \in Own \ {self, c}
  OBVIOUS
<1> QED  BY <1>1, WakesMoves

\* The last of a chain, and the chain below it.
LEMMA ChainFacts ==
    ASSUME NEW S, NEW s \in Seq(S), NEW y \in S
    PROVE  /\ Last(Append(s, y)) = y
           /\ Front(Append(s, y)) = s
           /\ Append(s, y) # <<>> /\ Append(s, y) # s
<1>1. /\ Append(s, y) \in Seq(S)
      /\ Len(Append(s, y)) = Len(s) + 1
      /\ Append(s, y)[Len(s) + 1] = y
      /\ \A i \in 1..Len(s) : Append(s, y)[i] = s[i]
      /\ Len(s) \in Nat
  OBVIOUS
<1>2. Last(Append(s, y)) = y
  BY <1>1 DEF Last
<1>3. Append(s, y) # <<>> /\ Append(s, y) # s
  BY <1>1
<1>4. Front(Append(s, y)) = [i \in 1..Len(s) |-> s[i]]
  BY <1>1 DEF Front
<1>5. [i \in 1..Len(s) |-> s[i]] = s
  OBVIOUS
<1> QED  BY <1>2, <1>3, <1>4, <1>5

\* The chains of start.
LEMMA Chains ==
    ASSUME NEW y \in Own
    PROVE  /\ Last(<<O>>) = O /\ <<O>> # <<>>
           /\ Last(Append(<<O>>, y)) = y /\ Append(<<O>>, y) # <<>>
           /\ Front(Append(<<O>>, y)) = <<O>>
           /\ Append(<<O>>, y) # <<O>>
<1>0. O \in Own
  BY Apart
<1>1. PICK s \in Seq(Own) : s = <<O>>
  <2>1. <<O>> \in Seq(Own)
    BY <1>0
  <2> QED  BY <2>1
<1>2. Last(s) = O /\ s # <<>>
  BY <1>1 DEF Last
<1>3. Last(Append(s, y)) = y /\ Append(s, y) # <<>> /\ Front(Append(s, y)) = s /\ Append(s, y) # s
  BY ChainFacts
<1> QED  BY <1>1, <1>2, <1>3

\* Which coroutine can run while start does, and where.
LEMMA Starting ==
    ASSUME IInv, pc[O] \in {"start", "started", "wait_on"}
    PROVE  /\ stack # <<>>
           /\ \A m \in Cmd : ~Runs(m)
           /\ Runs(R) => pc[O] = "started" /\ pc[R] = "top" /\ stack = Append(<<O>>, R)
           /\ Runs(W) => pc[O] = "wait_on" /\ pc[W] = "top" /\ stack = Append(<<O>>, W)
           /\ Runs(O) => stack = <<O>>
           /\ ~to_stop /\ ~r_stop /\ ~w_stop /\ pending = 0 /\ tx_queue = <<>>
<1>1. stack \in {<<O>>, Append(<<O>>, R), Append(<<O>>, W)}
  BY DEF IInv, Booting
<1>2. CASE stack = <<O>>
  BY <1>2, Apart, Chains DEF IInv, Booting, Runs, Own
<1>3. CASE stack = Append(<<O>>, R)
  <2>1. /\ Last(stack) = R /\ stack # <<>> /\ stack # <<O>>
        /\ Last(Append(<<O>>, W)) = W
    BY <1>3, Chains, Apart
  <2>2. stack # Append(<<O>>, W)
    BY <2>1, Apart
  <2>3. Runs(R) /\ \A x \in Own \cup Cmd : Runs(x) => x = R
    BY <2>1 DEF Runs
  <2> QED  BY <1>3, <2>1, <2>2, <2>3, Apart DEF IInv, Booting
<1>4. CASE stack = Append(<<O>>, W)
  <2>1. /\ Last(stack) = W /\ stack # <<>> /\ stack # <<O>>
        /\ Last(Append(<<O>>, R)) = R
    BY <1>4, Chains, Apart
  <2>2. stack # Append(<<O>>, R)
    BY <2>1, Apart
  <2>3. Runs(W) /\ \A x \in Own \cup Cmd : Runs(x) => x = W
    BY <2>1 DEF Runs
  <2> QED  BY <1>4, <2>1, <2>2, <2>3, Apart DEF IInv, Booting
<1> QED  BY <1>1, <1>2, <1>3, <1>4

\* The reader, or the owner past its start, moves and wakes nobody.
LEMMA ReadKeeps ==
    ASSUME IInv,
           \/ ReadStop \/ ReadWait \/ ReadPoll \/ ReadPolled \/ ReadClose \/ ReadMore
           \/ ReadReturn
    PROVE  IInv'
<1>1. PICK at \in Places :
        /\ at # "none"
        /\ Goes(R, at) \/ Sleeps(R, at) \/ Resumed(R, at)
        /\ UNCHANGED tx_vars /\ r_stop' = r_stop /\ w_stop' = w_stop /\ (to_stop => to_stop')
        /\ at = "wait" => Runs(R) /\ ~to_stop /\ pending >= MaxPending
  BY DEF ReadStop, ReadWait, ReadPoll, ReadPolled, ReadClose, ReadMore, ReadReturn,
     flag_vars, Places
<1>2. /\ pc' \in [Own -> Places] /\ pc'[R] = at /\ pc'[W] = pc[W] /\ pc'[O] = pc[O]
  BY <1>1, Moves, Apart DEF IInv
<1>3. Types'
  BY <1>1, <1>2 DEF IInv, Types, tx_vars
<1>4. Hands'
  BY <1>1, <1>2 DEF IInv, Hands, PendingExact, tx_vars
<1>5. Booting'
  <2>1. CASE pc[O] \notin {"start", "started", "wait_on"}
    BY <1>2, <2>1 DEF Booting
  <2>2. CASE pc[O] \in {"start", "started", "wait_on"}
    <3>1. ReadPoll
      BY <2>2, Starting, ChannelAssumption
         DEF ReadStop, ReadWait, ReadPolled, ReadClose, ReadMore, ReadReturn, Resumed
    <3>2. /\ pc[O] = "started" /\ stack' = <<O>> /\ pc'[R] = "poll"
      <4>1. pc[O] = "started" /\ stack = Append(<<O>>, R) /\ Sleeps(R, "poll")
        BY <2>2, <3>1, Starting DEF ReadPoll
      <4>2. stack' = <<O>>
        BY <4>1, Chains, Apart DEF Sleeps, Below
      <4>3. pc'[R] = "poll"
        BY <4>1 DEF Sleeps, IInv, Types, Own
      <4> QED  BY <4>1, <4>2, <4>3
    <3> QED  BY <1>1, <1>2, <3>1, <3>2 DEF IInv, Booting, ReadPoll, tx_vars, flag_vars
  <2> QED  BY <2>1, <2>2
<1>6. Awake'
  <2>1. at = "wait" => pc[W] # "wait" /\ pc[O] \in {"wait", "top"}
    <3>1. pending >= MaxPending => pc[W] # "wait"
      BY ChannelAssumption DEF IInv, Hands, PendingExact, Awake, NobodyStuck
    <3>2. at = "wait" => pc[O] \notin Joining /\ pc[O] \notin {"start", "started", "wait_on"}
      BY <1>1, Starting, ChannelAssumption DEF IInv, Awake
    <3> QED  BY <1>1, <3>1, <3>2 DEF IInv, Types
  <2> QED  BY <1>1, <1>2, <2>1 DEF IInv, Awake, NobodyStuck, tx_vars
<1> QED  BY <1>3, <1>4, <1>5, <1>6 DEF IInv

\* A command goes to a worker, and workers block, go on and end.
LEMMA WorkerKeeps ==
    ASSUME IInv, NEW m \in Cmd,
           \/ ReadCommand(m) \/ CallBlock(m) \/ CallResume(m) \/ CallDrop(m) \/ CallReturn(m)
    PROVE  IInv'
<1>1. UNCHANGED <<tx_vars, flag_vars, pc>>
  BY DEF ReadCommand, CallBlock, CallResume, CallDrop, CallReturn
<1>2. pc[O] \notin {"start", "started", "wait_on"}
  BY Starting DEF ReadCommand, CallBlock, CallResume, CallDrop, CallReturn
<1> QED
  BY <1>1, <1>2 DEF IInv, Types, Hands, PendingExact, Booting, Awake, NobodyStuck, tx_vars,
     flag_vars

\* A response is queued and the writer woken.
LEMMA QueuedKeeps ==
    ASSUME IInv, NEW m \in Cmd, ReadUnknown(m) \/ CallSend(m)
    PROVE  IInv'
<1>1. /\ tx_queue' = Append(tx_queue, m) /\ pending' = pending + 1
      /\ UNCHANGED <<out, sending, flag_vars>>
  BY DEF ReadUnknown, CallSend, Queued
<1>2. pc[O] \notin {"start", "started", "wait_on"}
  BY Starting DEF ReadUnknown, CallSend
<1>3. /\ pc' \in [Own -> Places]
      /\ pc'[W] = IF pc[W] = "wait" THEN "top" ELSE pc[W]
      /\ pc'[O] = pc[O] /\ pc'[R] \in {pc[R], "bad"}
  <2>1. CASE ReadUnknown(m)
    <3>1. Wakes(R, "bad", W) /\ "bad" \in Places
      BY <2>1 DEF ReadUnknown, Places
    <3> QED  BY <3>1, OwnWakes, Apart DEF IInv
  <2>2. CASE CallSend(m)
    <3>1. m \in Own \cup Cmd /\ m \notin Own /\ "sent" \in Places /\ W \in Own \ {m}
      BY Apart DEF Places
    <3> QED  BY <2>2, <3>1, WakesMoves, Apart DEF CallSend, IInv, Own
  <2> QED  BY <2>1, <2>2
<1>4. tx_queue' \in Seq(Cmd) /\ Len(tx_queue') = Len(tx_queue) + 1 /\ Len(tx_queue) \in Nat
  BY <1>1 DEF IInv, Types
<1>5. Types'
  BY <1>1, <1>3, <1>4 DEF IInv, Types
<1>6. Hands'
  <2>1. Len(out) \in Nat /\ Len(sending) \in Nat
    BY DEF IInv, Types
  <2>2. PendingExact'
    <3>1. /\ Len(out') = Len(out) /\ Len(sending') = Len(sending) /\ pending' = pending + 1
          /\ pending \in Int /\ Len(tx_queue') = Len(tx_queue) + 1 /\ Len(tx_queue) \in Nat
      BY <1>1, <1>4 DEF IInv, Types
    <3>2. pc'[W] \notin {"fail", "end", "ret", "ended"} =>
            pending = Len(tx_queue) + Len(out) + Len(sending)
      BY <1>3 DEF IInv, Hands, PendingExact
    <3>3. pc'[W] \notin {"fail", "end", "ret", "ended"} =>
            pending' = Len(tx_queue') + Len(out') + Len(sending')
      BY <2>1, <3>1, <3>2
    <3> QED  BY <3>3 DEF PendingExact
  <2>3. out' = out /\ sending' = sending
    BY <1>1
  <2> QED  BY <1>3, <2>2, <2>3 DEF IInv, Hands
<1>7. Booting'
  BY <1>2, <1>3 DEF Booting
<1>8. Awake'
  BY <1>1, <1>3, ChannelAssumption DEF IInv, Types, Awake, NobodyStuck, flag_vars
<1> QED  BY <1>5, <1>6, <1>7, <1>8 DEF IInv

\* The reader ends and wakes the writer.
LEMMA ReadEndKeeps == ASSUME IInv, ReadEnd PROVE IInv'
<1>1. UNCHANGED <<tx_vars, to_stop, w_stop>> /\ Wakes(R, "ret", W)
  BY DEF ReadEnd
<1>2. pc[O] \notin {"start", "started", "wait_on"}
  BY Starting DEF ReadEnd
<1>3. /\ pc' \in [Own -> Places] /\ pc'[R] = "ret" /\ pc'[O] = pc[O]
      /\ pc'[W] = IF pc[W] = "wait" THEN "top" ELSE pc[W]
  <2>1. "ret" \in Places /\ "join_r" \in Places
    BY DEF Places
  <2> QED  BY <1>1, <2>1, OwnWakes, Apart DEF IInv
<1> QED
  BY <1>1, <1>2, <1>3 DEF IInv, Types, Hands, PendingExact, Booting, Awake, NobodyStuck,
     tx_vars

-----------------------------------------------------------------------------
\* The writer moves and leaves what it has.
LEMMA WriteKeeps ==
    ASSUME IInv, WriteStop \/ WriteWait \/ WriteTaken \/ WriteReturn
    PROVE  IInv'
<1>1. PICK at \in {"end", "wait", "top", "ended"} :
        /\ Goes(W, at) \/ Sleeps(W, at)
        /\ at = "wait" => pc[W] = "top" /\ tx_queue = <<>> /\ ~r_stop
        /\ at = "top" => pc[W] = "next" /\ out = <<>>
        /\ at = "ended" => pc[W] = "ret"
        /\ UNCHANGED <<tx_vars, flag_vars>>
  BY DEF WriteStop, WriteWait, WriteTaken, WriteReturn
<1>2. /\ pc' \in [Own -> Places] /\ pc'[W] = at /\ pc'[R] = pc[R] /\ pc'[O] = pc[O]
  BY <1>1, Moves, Apart DEF IInv, Places
<1>3. Types'
  BY <1>1, <1>2 DEF IInv, Types, tx_vars
<1>4. Hands'
  BY <1>1, <1>2 DEF IInv, Hands, PendingExact, tx_vars
<1>5. Booting'
  <2>1. CASE pc[O] \notin {"start", "started", "wait_on"}
    BY <1>2, <2>1 DEF Booting
  <2>2. CASE pc[O] \in {"start", "started", "wait_on"}
    <3>1. WriteWait
      BY <2>2, Starting DEF WriteStop, WriteTaken, WriteReturn
    <3>2. pc[O] = "wait_on" /\ stack = Append(<<O>>, W) /\ Sleeps(W, "wait")
      BY <2>2, <3>1, Starting DEF WriteWait
    <3>3. stack' = <<O>>
      BY <3>2, Chains, Apart DEF Sleeps, Below
    <3>4. pc'[W] = "wait"
      BY <3>2, Apart DEF Sleeps, IInv, Types
    <3> QED  BY <1>1, <1>2, <3>2, <3>3, <3>4 DEF IInv, Booting, tx_vars, flag_vars
  <2> QED  BY <2>1, <2>2
<1>6. Awake'
  <2>1. at = "wait" => pc[R] # "wait"
    <3>1. at = "wait" => pending = 0
      BY <1>1 DEF IInv, Hands, PendingExact
    <3> QED  BY <3>1, ChannelAssumption DEF IInv, Awake
  <2> QED  BY <1>1, <1>2, <2>1 DEF IInv, Awake, NobodyStuck, tx_vars, flag_vars
<1> QED  BY <1>3, <1>4, <1>5, <1>6 DEF IInv

\* The writer takes the queue, the next response, or drops the rest.
LEMMA TakeKeeps == ASSUME IInv, WriteTake \/ SendBlock \/ WriteFail PROVE IInv'
<1>1. PICK at \in {"next", "send", "end"} :
        /\ Goes(W, at) \/ Sleeps(W, at)
        /\ UNCHANGED <<pending, flag_vars>>
        /\ pc[W] \in {"top", "next", "fail"}
        /\ tx_queue' \in {tx_queue, <<>>}
  BY DEF WriteTake, SendBlock, WriteFail
<1>2. pc[O] \notin {"start", "started", "wait_on"}
  BY Starting DEF WriteTake, SendBlock, WriteFail
<1>3. /\ pc' \in [Own -> Places] /\ pc'[W] = at /\ pc'[R] = pc[R] /\ pc'[O] = pc[O]
  BY <1>1, Moves, Apart DEF IInv, Places
<1>4. /\ Len(tx_queue) \in Nat /\ Len(out) \in Nat /\ Len(sending) \in Nat
      /\ tx_queue \in Seq(Cmd) /\ out \in Seq(Cmd) /\ sending \in Seq(Cmd)
  BY DEF IInv, Types
<1>5. Types' /\ Hands'
  <2>1. CASE WriteTake
    <3>1. /\ out' = tx_queue /\ tx_queue' = <<>> /\ sending' = sending /\ pc'[W] = "next"
          /\ pc[W] = "top" /\ pending' = pending
      BY <2>1, Moves, Apart DEF WriteTake, IInv, Places
    <3> QED  BY <1>3, <1>4, <3>1 DEF IInv, Types, Hands, PendingExact
  <2>2. CASE SendBlock
    <3>1. /\ sending' = <<Head(out)>> /\ out' = Tail(out) /\ pc'[W] = "send" /\ out # <<>>
          /\ tx_queue' = tx_queue /\ pending' = pending /\ pc[W] = "next"
      BY <2>2, Moves, Apart DEF SendBlock, IInv, Places
    <3>2. /\ sending' \in Seq(Cmd) /\ Len(sending') = 1
          /\ out' \in Seq(Cmd) /\ Len(out') = Len(out) - 1
      BY <1>4, <3>1
    <3> QED  BY <1>3, <1>4, <3>1, <3>2 DEF IInv, Types, Hands, PendingExact
  <2>3. CASE WriteFail
    <3>1. /\ out' = <<>> /\ tx_queue' = tx_queue /\ sending' = sending /\ pc'[W] = "end"
          /\ pending' = pending
      BY <2>3, Moves, Apart DEF WriteFail, IInv, Places
    <3> QED  BY <1>3, <1>4, <3>1 DEF IInv, Types, Hands, PendingExact
  <2> QED  BY <2>1, <2>2, <2>3
<1>6. Booting'
  BY <1>2, <1>3 DEF Booting
<1>7. Awake'
  BY <1>1, <1>3 DEF IInv, Awake, NobodyStuck, flag_vars
<1> QED  BY <1>5, <1>6, <1>7 DEF IInv

\* co_poll of a blocked send comes back.
LEMMA PolledKeeps == ASSUME IInv, SendPolled PROVE IInv'
<1>1. UNCHANGED <<tx_vars, flag_vars>> /\ pc[W] = "send"
  BY DEF SendPolled
<1>2. pc[O] \notin {"start", "started", "wait_on"}
  BY Starting DEF SendPolled
<1>3. /\ pc' \in [Own -> Places] /\ pc'[R] = pc[R] /\ pc'[O] = pc[O]
      /\ pc'[W] \in {"sent", "unsent"}
  BY Apart DEF SendPolled, IInv, Types, Places
<1> QED
  BY <1>1, <1>2, <1>3 DEF IInv, Types, Hands, PendingExact, Booting, Awake, NobodyStuck,
     tx_vars, flag_vars

\* A response has been sent or has failed: it is no longer counted, and the reader woken.
LEMMA SentKeeps == ASSUME IInv, SendNow \/ SendDone PROVE IInv'
<1>1. PICK at \in {"next", "fail"} : Sent(at)
  BY DEF SendNow, SendDone
<1>2. pc[O] \notin {"start", "started", "wait_on"}
  BY Starting DEF SendNow, SendDone
<1>3. /\ pc' \in [Own -> Places] /\ pc'[W] = at /\ pc'[O] = pc[O]
      /\ pc'[R] = IF pc[R] = "wait" THEN "top" ELSE pc[R]
  <2>1. at \in Places /\ Wakes(W, at, R)
    BY <1>1 DEF Places, Sent
  <2> QED  BY <2>1, OwnWakes, Apart DEF IInv
<1>4. /\ tx_queue' = tx_queue /\ UNCHANGED flag_vars /\ sending' = <<>>
      /\ pending' = pending - 1 /\ pc[W] \notin {"wait", "none", "ret", "ended", "fail", "end"}
  BY <1>1 DEF Sent, SendNow, SendDone
<1>5. /\ Len(tx_queue) \in Nat /\ Len(out) \in Nat /\ Len(sending) \in Nat
      /\ tx_queue \in Seq(Cmd) /\ out \in Seq(Cmd)
  BY DEF IInv, Types
<1>6. out' \in Seq(Cmd) /\ Len(out') + 1 = Len(out) + Len(sending)
  <2>1. CASE SendNow
    <3>1. out # <<>> /\ out' = Tail(out) /\ sending = <<>>
      BY <2>1 DEF SendNow, IInv, Hands
    <3> QED  BY <1>5, <3>1
  <2>2. CASE SendDone
    BY <1>5, <2>2 DEF SendDone, IInv, Hands
  <2> QED  BY <2>1, <2>2
<1>7. Types'
  BY <1>3, <1>4, <1>6 DEF IInv, Types
<1>8. Hands'
  <2>1. pending' = Len(tx_queue') + Len(out') + Len(sending')
    <3>1. pending = Len(tx_queue) + Len(out) + Len(sending)
      BY <1>4 DEF IInv, Hands, PendingExact
    <3>2. Len(out') \in Nat /\ Len(sending') = 0
      BY <1>4, <1>6
    <3>3. Len(tx_queue') = Len(tx_queue) /\ pending' = pending - 1
      BY <1>4
    <3>4. /\ Len(tx_queue) \in Nat /\ Len(out) \in Nat /\ Len(sending) \in Nat
          /\ Len(out') + 1 = Len(out) + Len(sending)
      BY <1>5, <1>6
    <3> QED  BY <3>1, <3>2, <3>3, <3>4
  <2> QED  BY <1>3, <1>4, <2>1 DEF Hands, PendingExact
<1>9. Booting'
  BY <1>2, <1>3 DEF Booting
<1>10. Awake'
  BY <1>3, <1>4 DEF IInv, Awake, NobodyStuck, flag_vars
<1> QED  BY <1>7, <1>8, <1>9, <1>10 DEF IInv

\* The writer ends and wakes the owner.
LEMMA WriteEndKeeps == ASSUME IInv, WriteEnd PROVE IInv'
<1>1. UNCHANGED <<tx_vars, to_stop, r_stop>> /\ Wakes(W, "ret", O)
  BY DEF WriteEnd
<1>2. pc[O] \notin {"start", "started", "wait_on"}
  BY Starting DEF WriteEnd
<1>3. /\ pc' \in [Own -> Places] /\ pc'[W] = "ret" /\ pc'[R] = pc[R]
      /\ pc'[O] = IF pc[O] = "wait" THEN "top" ELSE pc[O]
  <2>1. "ret" \in Places /\ "join_r" \in Places
    BY DEF Places
  <2> QED  BY <1>1, <2>1, OwnWakes, Apart DEF IInv
<1> QED
  BY <1>1, <1>2, <1>3 DEF IInv, Types, Hands, PendingExact, Booting, Awake, NobodyStuck,
     Joining, tx_vars

-----------------------------------------------------------------------------
\* start
LEMMA StartKeeps == ASSUME IInv, StartRead \/ StartWrite \/ OwnerWait PROVE IInv'
<1>0. UNCHANGED <<tx_vars, flag_vars>>
  BY DEF StartRead, StartWrite, OwnerWait
<1>1. stack = <<O>>
  BY Starting DEF StartRead, StartWrite, OwnerWait
<1>2. ~to_stop /\ ~r_stop /\ ~w_stop /\ pending = 0 /\ tx_queue = <<>>
  BY Starting DEF StartRead, StartWrite, OwnerWait
<1>3. CASE StartRead
  <2>1. /\ pc[W] = "none" /\ pc' \in [Own -> Places] /\ stack' = Append(<<O>>, R)
        /\ pc'[O] = "started" /\ pc'[R] = "top" /\ pc'[W] = pc[W]
    BY <1>1, <1>3, Apart, Chains DEF StartRead, IInv, Types, Booting, Places
  <2> QED
    BY <1>0, <1>2, <2>1 DEF IInv, Types, Hands, PendingExact, Booting, Awake, NobodyStuck,
       Joining, tx_vars, flag_vars
<1>4. CASE StartWrite
  <2>1. /\ pc[W] = "none" /\ pc[R] = "poll" /\ pc' \in [Own -> Places] /\ stack' = Append(<<O>>, W)
        /\ pc'[O] = "wait_on" /\ pc'[W] = "top" /\ pc'[R] = pc[R]
    <3>1. <<O>> # Append(<<O>>, R)
      BY Chains, Apart
    <3> QED  BY <1>1, <1>4, <3>1, Apart, Chains DEF StartWrite, IInv, Types, Booting, Places
  <2> QED
    BY <1>0, <1>2, <2>1 DEF IInv, Types, Hands, PendingExact, Booting, Awake, NobodyStuck,
       Joining, tx_vars, flag_vars
<1>5. CASE OwnerWait
  <2>1. /\ pc[W] = "wait" /\ pc[R] = "poll" /\ pc' \in [Own -> Places]
        /\ pc'[O] = "wait" /\ pc'[W] = pc[W] /\ pc'[R] = pc[R]
    <3>1. <<O>> # Append(<<O>>, W)
      BY Chains, Apart
    <3>2. pc[W] = "wait" /\ pc[R] = "poll"
      BY <1>1, <1>5, <3>1 DEF OwnerWait, IInv, Booting
    <3> QED  BY <1>5, <3>2, Moves, Apart DEF OwnerWait, IInv, Places
  <2> QED
    BY <1>0, <1>2, <2>1 DEF IInv, Types, Hands, PendingExact, Booting, Awake, NobodyStuck,
       Joining, tx_vars, flag_vars
<1> QED  BY <1>3, <1>4, <1>5

\* stop
LEMMA StopKeeps == ASSUME IInv, OwnerStop PROVE IInv'
<1>1. UNCHANGED <<tx_vars, r_stop, w_stop>> /\ to_stop' = TRUE /\ Wakes(O, "join_r", R)
  BY DEF OwnerStop
<1>2. /\ pc' \in [Own -> Places] /\ pc'[O] = "join_r" /\ pc'[W] = pc[W]
      /\ pc'[R] = IF pc[R] = "wait" THEN "top" ELSE pc[R]
  <2>1. "ret" \in Places /\ "join_r" \in Places
    BY DEF Places
  <2> QED  BY <1>1, <2>1, OwnWakes, Apart DEF IInv
<1> QED
  BY <1>1, <1>2 DEF IInv, Types, Hands, PendingExact, Booting, Awake, NobodyStuck, Joining,
     tx_vars

\* The owner waits for the two coroutines, and the channel goes.
LEMMA JoinKeeps == ASSUME IInv, JoinRead \/ JoinWrite \/ ExitNotify PROVE IInv'
<1>1. /\ UNCHANGED <<out, sending, pending, flag_vars>>
      /\ pc[O] \in Joining
      /\ tx_queue' = tx_queue \/ (tx_queue' = <<>> /\ pc[W] = "ended")
  BY DEF JoinRead, JoinWrite, ExitNotify, tx_vars, Joining
<1>2. /\ pc' \in [Own -> Places] /\ pc'[O] \in Joining /\ pc'[R] = pc[R]
      /\ pc'[W] = IF pc[W] = "wait" /\ pc'[W] # "wait" THEN "top" ELSE pc[W]
  <2>1. CASE JoinRead
    <3>1. CASE Wakes(O, "join_w", W)
      <4>1. "join_w" \in Places /\ "join_w" \in Joining
        BY DEF Places, Joining
      <4> QED  BY <3>1, <4>1, OwnWakes, Apart DEF IInv
    <3>2. CASE Sleeps(O, "wait_r")
      BY <3>2, Moves, Apart DEF IInv, Places, Joining
    <3> QED  BY <2>1, <3>1, <3>2 DEF JoinRead
  <2>2. CASE JoinWrite \/ ExitNotify
    <3>1. PICK at \in Joining : Sleeps(O, at) \/ Resumed(O, at)
      BY <2>2 DEF JoinWrite, ExitNotify, Joining
    <3>2. at \in Places
      BY DEF Joining, Places
    <3> QED  BY <3>1, <3>2, Moves, Apart DEF IInv
  <2> QED  BY <2>1, <2>2
<1>3. Types'
  <2>1. tx_queue' \in Seq(Cmd)
    <3>1. <<>> \in Seq(Cmd)
      OBVIOUS
    <3>2. tx_queue \in Seq(Cmd)
      BY DEF IInv, Types
    <3>3. tx_queue' = tx_queue \/ tx_queue' = <<>>
      BY <1>1
    <3> QED  BY <3>1, <3>2, <3>3
  <2> QED  BY <1>1, <1>2, <2>1 DEF IInv, Types
<1>4. Hands'
  BY <1>1, <1>2 DEF IInv, Hands, PendingExact
<1>5. Booting'
  BY <1>2 DEF Booting, Joining
<1>6. Awake'
  BY <1>1, <1>2 DEF IInv, Awake, NobodyStuck, Joining, flag_vars
<1> QED  BY <1>3, <1>4, <1>5, <1>6 DEF IInv

\* The stop of the server, and the peer.
LEMMA OutsideKeeps == ASSUME IInv, ServerStop \/ HangUp PROVE IInv'
<1>1. CASE ServerStop
  <2>1. pc[O] \notin {"start", "started", "wait_on"}
    BY <1>1, Starting DEF ServerStop
  <2> QED
    BY <1>1, <2>1 DEF ServerStop, IInv, Types, Hands, PendingExact, Booting, Awake,
       NobodyStuck, tx_vars
<1>2. CASE HangUp
  BY <1>2 DEF HangUp, IInv, Types, Hands, PendingExact, Booting, Awake, NobodyStuck, tx_vars,
     flag_vars
<1> QED  BY <1>1, <1>2

\* A new channel has the invariant.
LEMMA InitInv == Init => IInv
<1> SUFFICES ASSUME Init PROVE IInv
  OBVIOUS
<1>1. /\ pc \in [Own -> Places] /\ pc[R] = "none" /\ pc[W] = "none" /\ pc[O] = "start"
  BY Apart DEF Init, Own, Places
<1> QED
  BY <1>1 DEF Init, IInv, Types, Hands, PendingExact, Booting, Awake, NobodyStuck, Joining

\* The invariant holds in every state.
LEMMA InvariantHolds == Spec => []IInv
<1>1. IInv /\ [Next]_vars => IInv'
  <2> SUFFICES ASSUME IInv, [Next]_vars PROVE IInv'
    OBVIOUS
  <2>1. CASE UNCHANGED vars
    BY <2>1 DEF vars, IInv, Types, Hands, PendingExact, Booting, Awake, NobodyStuck
  <2>2. CASE Next
    BY <2>2, ReadKeeps, WorkerKeeps, QueuedKeeps, ReadEndKeeps, WriteKeeps, TakeKeeps,
       PolledKeeps, SentKeeps, WriteEndKeeps, StartKeeps, StopKeeps, JoinKeeps, OutsideKeeps
       DEF Next, Running, ReadStep, WriteStep, OwnerStep, CallStep
  <2> QED  BY <2>1, <2>2
<1> QED  BY <1>1, InitInv, PTL DEF Spec

\* pending_tx_num is the number of responses in the hands of the channel, over every
\* interleaving of workers, a blocked send and a stop, until a send has failed
\* (channel.cpp:206).
THEOREM PendingCounted == Spec => []PendingExact
BY InvariantHolds, PTL DEF IInv, Hands

\* No coroutine of the channel sleeps with nobody left to wake it.
THEOREM NobodyStuckEver == Spec => []NobodyStuck
BY InvariantHolds, PTL DEF IInv, Awake

-----------------------------------------------------------------------------
\* Nothing has been lost: no send has failed and the peer is there.
Intact == ~hup /\ pc[W] \in {"none", "top", "wait", "next", "send"}

\* The responses given to send_msg are those on the wire, followed by those in the hands
\* of the writer and those that are queued, in this order.
InOrder ==
    /\ given \in Seq(Cmd) /\ wire \in Seq(Cmd)
    /\ Len(wire) <= Len(given)
    /\ \A i \in 1..Len(wire) : wire[i] = given[i]
    /\ pc[W] = "sent" => hup
    /\ Intact =>
        /\ Len(given) = Len(wire) + Len(sending) + Len(out) + Len(tx_queue)
        /\ \A i \in 1..Len(sending) : given[Len(wire) + i] = sending[i]
        /\ \A i \in 1..Len(out) : given[Len(wire) + Len(sending) + i] = out[i]
        /\ \A i \in 1..Len(tx_queue) :
            given[Len(wire) + Len(sending) + Len(out) + i] = tx_queue[i]

OrderInv == IInv /\ InOrder

\* No response moves, or nothing is intact any more.
LEMMA SameOrder ==
    ASSUME OrderInv, UNCHANGED <<given, wire>>,
           pc'[W] = "sent" => hup',
           Intact' => Intact /\ UNCHANGED <<tx_queue, out, sending>>
    PROVE  InOrder'
BY DEF OrderInv, InOrder

\* send_msg puts a response at the end of both.
LEMMA QueuedOrder ==
    ASSUME OrderInv, NEW m \in Cmd, Queued(m), UNCHANGED <<out, sending, hup, wire>>,
           pc'[W] = pc[W] \/ (pc[W] = "wait" /\ pc'[W] = "top")
    PROVE  InOrder'
<1> DEFINE n == Len(given)
           k == Len(wire) + Len(sending) + Len(out)
<1>1. /\ given \in Seq(Cmd) /\ wire \in Seq(Cmd) /\ tx_queue \in Seq(Cmd)
      /\ out \in Seq(Cmd) /\ sending \in Seq(Cmd)
  BY DEF OrderInv, IInv, Types, InOrder
<1>2. /\ given' \in Seq(Cmd) /\ Len(given') = n + 1 /\ given'[n + 1] = m
      /\ \A i \in 1..n : given'[i] = given[i]
  BY <1>1 DEF Queued
<1>3. /\ tx_queue' \in Seq(Cmd) /\ Len(tx_queue') = Len(tx_queue) + 1
      /\ tx_queue'[Len(tx_queue) + 1] = m
      /\ \A i \in 1..Len(tx_queue) : tx_queue'[i] = tx_queue[i]
  BY <1>1 DEF Queued
<1>4. /\ n \in Nat /\ Len(wire) \in Nat /\ Len(sending) \in Nat /\ Len(out) \in Nat
      /\ Len(tx_queue) \in Nat /\ Len(wire) <= n
  BY <1>1 DEF OrderInv, InOrder
<1>5. Intact' => Intact
  BY DEF Intact
<1>6. \A i \in 1..Len(wire) : wire[i] = given'[i]
  BY <1>2, <1>4 DEF OrderInv, InOrder
<1>7. ASSUME Intact'
      PROVE  /\ Len(given') = k + Len(tx_queue')
             /\ \A i \in 1..Len(sending) : given'[Len(wire) + i] = sending[i]
             /\ \A i \in 1..Len(out) : given'[Len(wire) + Len(sending) + i] = out[i]
             /\ \A i \in 1..Len(tx_queue') : given'[k + i] = tx_queue'[i]
  <2>1. /\ n = k + Len(tx_queue)
        /\ \A i \in 1..Len(sending) : given[Len(wire) + i] = sending[i]
        /\ \A i \in 1..Len(out) : given[Len(wire) + Len(sending) + i] = out[i]
        /\ \A i \in 1..Len(tx_queue) : given[k + i] = tx_queue[i]
    BY <1>5, <1>7 DEF OrderInv, InOrder
  <2>2. k \in Nat /\ k >= Len(wire) + Len(sending) /\ k >= Len(wire)
    BY <1>4
  <2> HIDE DEF n
  <2>3. ASSUME NEW i \in 1..Len(sending) PROVE given'[Len(wire) + i] = sending[i]
    <3>1. Len(wire) + i \in 1..n
      BY <1>4, <2>1
    <3> QED  BY <1>2, <2>1, <3>1
  <2>4. ASSUME NEW i \in 1..Len(out) PROVE given'[Len(wire) + Len(sending) + i] = out[i]
    <3>1. Len(wire) + Len(sending) + i \in 1..n
      BY <1>4, <2>1
    <3> QED  BY <1>2, <2>1, <3>1
  <2> HIDE DEF k
  <2>5. ASSUME NEW i \in 1..Len(tx_queue') PROVE given'[k + i] = tx_queue'[i]
    <3>1. CASE i = Len(tx_queue) + 1
      BY <1>2, <1>3, <1>4, <2>1, <2>2, <3>1
    <3>2. CASE i # Len(tx_queue) + 1
      <4>1. i \in 1..Len(tx_queue) /\ k + i \in 1..n
        BY <1>3, <1>4, <2>1, <2>2, <3>2
      <4> QED  BY <1>2, <1>3, <2>1, <4>1
    <3> QED  BY <3>1, <3>2
  <2>6. Len(given') = k + Len(tx_queue')
    BY <1>2, <1>3, <1>4, <2>1, <2>2
  <2> QED  BY <2>3, <2>4, <2>5, <2>6
<1>8. pc'[W] = "sent" => hup'
  BY DEF OrderInv, InOrder
<1>9. wire' = wire /\ out' = out /\ sending' = sending
  OBVIOUS
<1>10. Len(wire) <= Len(given')
  BY <1>2, <1>4
<1> QED  BY <1>1, <1>2, <1>6, <1>7, <1>8, <1>9, <1>10 DEF InOrder

\* do_write_co takes the queue as a whole.
LEMMA TakeOrder == ASSUME OrderInv, WriteTake, pc'[W] = "next" PROVE InOrder'
<1>1. /\ out' = tx_queue /\ tx_queue' = <<>> /\ sending' = sending
      /\ UNCHANGED <<given, wire, hup>> /\ pc[W] = "top"
  BY DEF WriteTake, peer_vars
<1>2. out = <<>> /\ sending = <<>>
  BY <1>1 DEF OrderInv, IInv, Hands
<1>3. Intact' => Intact
  BY <1>1 DEF Intact
<1>4. Len(tx_queue) \in Nat /\ Len(wire) \in Nat
  BY DEF OrderInv, IInv, Types, InOrder
<1>5. /\ Len(sending) = 0 /\ Len(out) = 0 /\ Len(tx_queue') = 0 /\ Len(sending') = 0
      /\ Len(out') = Len(tx_queue)
  BY <1>1, <1>2
<1>6. Intact' => /\ Len(given) = Len(wire) + 0 + Len(tx_queue) + 0
                 /\ \A i \in 1..Len(tx_queue) : given[Len(wire) + 0 + i] = tx_queue[i]
  BY <1>3, <1>4, <1>5 DEF OrderInv, InOrder
<1> QED  BY <1>1, <1>4, <1>5, <1>6 DEF OrderInv, InOrder

\* The first of out, and the rest.
LEMMA OutFacts ==
    ASSUME OrderInv, out # <<>>, pc[W] = "next"
    PROVE  /\ sending = <<>> /\ Len(sending) = 0
           /\ Head(out) \in Cmd /\ Tail(out) \in Seq(Cmd)
           /\ Len(out) \in Nat /\ Len(out) > 0 /\ Len(Tail(out)) = Len(out) - 1
           /\ Head(out) = out[1]
           /\ \A i \in 1..Len(Tail(out)) : Tail(out)[i] = out[i + 1]
           /\ Len(wire) \in Nat /\ Len(tx_queue) \in Nat /\ Len(given) \in Nat
           /\ Intact => /\ Len(given) = Len(wire) + Len(out) + Len(tx_queue)
                        /\ \A i \in 1..Len(out) : given[Len(wire) + i] = out[i]
                        /\ \A i \in 1..Len(tx_queue) : given[Len(wire) + Len(out) + i] = tx_queue[i]
<1>1. out \in Seq(Cmd) /\ tx_queue \in Seq(Cmd) /\ given \in Seq(Cmd) /\ wire \in Seq(Cmd)
  BY DEF OrderInv, IInv, Types, InOrder
<1>2. sending = <<>> /\ Len(sending) = 0
  BY DEF OrderInv, IInv, Hands
<1>3. /\ Head(out) \in Cmd /\ Tail(out) \in Seq(Cmd)
      /\ Len(out) \in Nat /\ Len(out) > 0 /\ Len(Tail(out)) = Len(out) - 1
      /\ Head(out) = out[1]
      /\ \A i \in 1..Len(Tail(out)) : Tail(out)[i] = out[i + 1]
  BY <1>1
<1>4. Len(wire) \in Nat /\ Len(tx_queue) \in Nat /\ Len(given) \in Nat
  BY <1>1
<1>5. Intact => /\ Len(given) = Len(wire) + 0 + Len(out) + Len(tx_queue)
                /\ \A i \in 1..Len(out) : given[Len(wire) + 0 + i] = out[i]
                /\ \A i \in 1..Len(tx_queue) : given[Len(wire) + 0 + Len(out) + i] = tx_queue[i]
  BY <1>2 DEF OrderInv, InOrder
<1> QED  BY <1>2, <1>3, <1>4, <1>5

\* The first response is being sent: the order stays.
LEMMA BlockOrder == ASSUME OrderInv, SendBlock, pc'[W] = "send" PROVE InOrder'
<1>1. /\ sending' = <<Head(out)>> /\ out' = Tail(out) /\ tx_queue' = tx_queue
      /\ UNCHANGED <<given, wire, hup>> /\ pc[W] = "next" /\ out # <<>>
  BY DEF SendBlock, peer_vars
<1>2. Intact' => Intact
  BY <1>1 DEF Intact
<1>3. Len(sending') = 1 /\ sending'[1] = out[1]
  BY <1>1, OutFacts
<1>4. /\ Len(out') = Len(out) - 1 /\ \A i \in 1..Len(out') : out'[i] = out[i + 1]
      /\ Len(tx_queue') = Len(tx_queue) /\ \A i \in 1..Len(tx_queue) : tx_queue'[i] = tx_queue[i]
  BY <1>1, OutFacts
<1>5. ASSUME Intact'
      PROVE  /\ Len(given) = Len(wire) + 1 + Len(out') + Len(tx_queue)
             /\ \A i \in 1..1 : given[Len(wire) + i] = sending'[i]
             /\ \A i \in 1..Len(out') : given[Len(wire) + 1 + i] = out'[i]
             /\ \A i \in 1..Len(tx_queue) : given[Len(wire) + 1 + Len(out') + i] = tx_queue[i]
  <2>1. /\ Len(given) = Len(wire) + Len(out) + Len(tx_queue)
        /\ \A i \in 1..Len(out) : given[Len(wire) + i] = out[i]
        /\ \A i \in 1..Len(tx_queue) : given[Len(wire) + Len(out) + i] = tx_queue[i]
        /\ Len(out) \in Nat /\ Len(out) > 0 /\ Len(wire) \in Nat /\ Len(tx_queue) \in Nat
    BY <1>1, <1>2, <1>5, OutFacts
  <2>2. Len(given) = Len(wire) + 1 + Len(out') + Len(tx_queue)
    BY <1>4, <2>1
  <2>3. \A i \in 1..1 : given[Len(wire) + i] = sending'[i]
    BY <1>3, <2>1
  <2>4. ASSUME NEW i \in 1..Len(out') PROVE given[Len(wire) + 1 + i] = out'[i]
    <3>1. i + 1 \in 1..Len(out) /\ Len(wire) + 1 + i = Len(wire) + (i + 1)
      BY <1>4, <2>1
    <3> QED  BY <1>4, <2>1, <3>1
  <2>5. ASSUME NEW i \in 1..Len(tx_queue) PROVE given[Len(wire) + 1 + Len(out') + i] = tx_queue[i]
    <3>1. Len(wire) + 1 + Len(out') + i = Len(wire) + Len(out) + i
      BY <1>4, <2>1
    <3> QED  BY <2>1, <3>1
  <2> QED  BY <2>2, <2>3, <2>4, <2>5
<1> QED  BY <1>1, <1>3, <1>4, <1>5 DEF OrderInv, InOrder

\* A response reaches the wire at once, or is lost with all that follow.
LEMMA NowOrder == ASSUME OrderInv, SendNow PROVE InOrder'
<1>0. /\ out # <<>> /\ pc[W] = "next" /\ out' = Tail(out) /\ UNCHANGED <<tx_queue, hup, given>>
      /\ sending' = <<>>
  BY DEF SendNow, Sent
<1>1. PICK at \in {"next", "fail"} :
        /\ Sent(at)
        /\ at = "next" => ~hup /\ wire' = Append(wire, Head(out))
        /\ at = "fail" => wire' = wire
  BY DEF SendNow
<1>2. pc'[W] = at
  <2>1. at \in Places /\ Wakes(W, at, R)
    BY <1>1 DEF Places, Sent
  <2> QED  BY <2>1, OwnWakes, Apart DEF OrderInv, IInv
<1>3. CASE at = "fail"
  BY <1>0, <1>1, <1>2, <1>3, SameOrder DEF Intact
<1>4. CASE at = "next"
  <2>1. /\ wire \in Seq(Cmd) /\ Head(out) \in Cmd /\ wire' = Append(wire, Head(out))
    BY <1>0, <1>1, <1>4, OutFacts DEF OrderInv, InOrder
  <2>2. /\ wire' \in Seq(Cmd) /\ Len(wire') = Len(wire) + 1
        /\ wire'[Len(wire) + 1] = Head(out)
        /\ \A i \in 1..Len(wire) : wire'[i] = wire[i]
    BY <2>1
  <2>3. /\ Len(given) = Len(wire) + Len(out) + Len(tx_queue)
        /\ \A i \in 1..Len(out) : given[Len(wire) + i] = out[i]
        /\ \A i \in 1..Len(tx_queue) : given[Len(wire) + Len(out) + i] = tx_queue[i]
    BY <1>0, <1>1, <1>4, OutFacts DEF Intact
  <2>4. /\ Len(out) \in Nat /\ Len(out) > 0 /\ Len(wire) \in Nat /\ Len(tx_queue) \in Nat
        /\ Head(out) = out[1] /\ Len(out') = Len(out) - 1
        /\ \A i \in 1..Len(out') : out'[i] = out[i + 1]
    BY <1>0, OutFacts
  <2>5. ASSUME NEW i \in 1..Len(wire') PROVE wire'[i] = given[i]
    <3>1. CASE i = Len(wire) + 1
      BY <2>2, <2>3, <2>4, <3>1
    <3>2. CASE i \in 1..Len(wire)
      BY <2>2, <3>2 DEF OrderInv, InOrder
    <3> QED  BY <2>2, <2>4, <3>1, <3>2
  <2>6. Len(sending') = 0 /\ Len(tx_queue') = Len(tx_queue)
    BY <1>0
  <2>7. ASSUME NEW i \in 1..Len(out') PROVE given[Len(wire') + 0 + i] = out'[i]
    <3>1. i + 1 \in 1..Len(out) /\ Len(wire') + 0 + i = Len(wire) + (i + 1)
      BY <2>2, <2>4
    <3> QED  BY <2>3, <2>4, <3>1
  <2>8. ASSUME NEW i \in 1..Len(tx_queue)
        PROVE  given[Len(wire') + 0 + Len(out') + i] = tx_queue[i]
    <3>1. Len(wire') + 0 + Len(out') + i = Len(wire) + Len(out) + i
      BY <2>2, <2>4
    <3> QED  BY <2>3, <3>1
  <2>9. Len(wire') <= Len(given) /\ Len(given) = Len(wire') + 0 + Len(out') + Len(tx_queue)
    BY <2>2, <2>3, <2>4
  <2>10. given' \in Seq(Cmd) /\ given' = given
    BY <1>0 DEF OrderInv, InOrder
  <2> QED  BY <1>0, <1>2, <1>4, <2>2, <2>5, <2>6, <2>7, <2>8, <2>9, <2>10 DEF InOrder
<1> QED  BY <1>3, <1>4

\* The length of a list followed by another.
LEMMA ConcatLen ==
    ASSUME NEW S, NEW s \in Seq(S), NEW u \in Seq(S)
    PROVE  Len(s) \in Nat /\ Len(s \o u) = Len(s) + Len(u)
OBVIOUS

\* What a list followed by one of a single element is.
LEMMA ConcatOne ==
    ASSUME NEW S, NEW s \in Seq(S), NEW u \in Seq(S), Len(u) = 1
    PROVE  /\ s \o u \in Seq(S) /\ Len(s \o u) = Len(s) + 1
           /\ (s \o u)[Len(s) + 1] = u[1]
           /\ \A i \in 1..Len(s) : (s \o u)[i] = s[i]
<1>0. s \o u \in Seq(S)
  OBVIOUS
<1>1. Len(s) \in Nat /\ Len(s \o u) = Len(s) + Len(u)
  BY ConcatLen
<1>2. \A i \in 1..Len(s) : (s \o u)[i] = s[i]
  OBVIOUS
<1>3. (s \o u)[Len(s) + 1] = u[1]
  <2>1. Len(s) + 1 \in 1..(Len(s) + Len(u)) /\ Len(s) + 1 > Len(s)
    BY <1>1
  <2>2. (s \o u)[Len(s) + 1] = u[(Len(s) + 1) - Len(s)]
    BY <1>1, <2>1
  <2> QED  BY <1>1, <2>2
<1> QED  BY <1>0, <1>1, <1>2, <1>3

\* The second send of a blocked response may have reached the wire.
LEMMA PolledOrder == ASSUME OrderInv, SendPolled PROVE InOrder'
<1>1. /\ pc[W] = "send" /\ UNCHANGED <<tx_vars, hup, given>>
      /\ wire' = wire \/ (~hup /\ wire' = wire \o sending)
  BY DEF SendPolled
<1>2. pc'[W] = "unsent" \/ (pc'[W] = "sent" /\ hup)
  BY Apart DEF SendPolled, OrderInv, IInv, Types
<1>3. CASE wire' = wire
  BY <1>1, <1>2, <1>3, SameOrder DEF Intact
<1>4. CASE ~hup /\ wire' = wire \o sending
  <2>1. wire \in Seq(Cmd) /\ sending \in Seq(Cmd) /\ Len(sending) = 1 /\ given \in Seq(Cmd)
    BY <1>1 DEF OrderInv, IInv, Types, Hands, InOrder
  <2>2. /\ wire' \in Seq(Cmd) /\ Len(wire') = Len(wire) + 1
        /\ wire'[Len(wire) + 1] = sending[1]
        /\ \A i \in 1..Len(wire) : wire'[i] = wire[i]
    BY <1>4, <2>1, ConcatOne
  <2>3. /\ Len(given) = Len(wire) + Len(sending) + Len(out) + Len(tx_queue)
        /\ \A i \in 1..Len(sending) : given[Len(wire) + i] = sending[i]
    BY <1>1, <1>4 DEF Intact, OrderInv, InOrder
  <2>4. Len(wire) \in Nat /\ Len(out) \in Nat /\ Len(tx_queue) \in Nat
    BY DEF OrderInv, IInv, Types, InOrder
  <2>5. given[Len(wire) + 1] = sending[1]
    BY <2>1, <2>3
  <2>6. ASSUME NEW i \in 1..Len(wire') PROVE wire'[i] = given[i]
    <3>1. CASE i = Len(wire) + 1
      BY <2>2, <2>5, <3>1
    <3>2. CASE i \in 1..Len(wire)
      BY <2>2, <3>2 DEF OrderInv, InOrder
    <3> QED  BY <2>2, <2>4, <3>1, <3>2
  <2>7. Len(wire') <= Len(given)
    <3>1. Len(sending) = 1
      BY <2>1
    <3> QED  BY <2>2, <2>3, <2>4, <3>1
  <2> QED  BY <1>1, <1>2, <1>4, <2>1, <2>2, <2>6, <2>7 DEF InOrder, Intact
<1> QED  BY <1>1, <1>3, <1>4

\* The steps that move no response.
LEMMA StillOrder ==
    ASSUME OrderInv, IInv',
           \/ ReadStop \/ ReadWait \/ ReadPoll \/ ReadPolled \/ ReadClose \/ ReadMore
           \/ ReadReturn \/ ReadEnd
           \/ \E m \in Cmd : \/ ReadCommand(m) \/ CallBlock(m) \/ CallResume(m)
                             \/ CallDrop(m) \/ CallReturn(m)
           \/ WriteStop \/ WriteWait \/ WriteTaken \/ WriteReturn \/ WriteEnd
           \/ StartRead \/ StartWrite \/ OwnerWait \/ OwnerStop \/ JoinRead \/ ExitNotify
           \/ ServerStop \/ HangUp
    PROVE  InOrder'
<1>1. UNCHANGED <<tx_vars, given, wire>> /\ (hup => hup')
  <2>1. CASE \/ ReadStop \/ ReadWait \/ ReadPoll \/ ReadPolled \/ ReadClose \/ ReadMore
             \/ ReadReturn \/ ReadEnd
    <3>1. CASE ReadStop \/ ReadWait \/ ReadPoll \/ ReadPolled
      BY <3>1 DEF ReadStop, ReadWait, ReadPoll, ReadPolled, peer_vars
    <3>2. CASE ReadClose \/ ReadMore \/ ReadReturn \/ ReadEnd
      BY <3>2 DEF ReadClose, ReadMore, ReadReturn, ReadEnd, peer_vars
    <3> QED  BY <2>1, <3>1, <3>2
  <2>2. CASE \E m \in Cmd : \/ ReadCommand(m) \/ CallBlock(m) \/ CallResume(m)
                            \/ CallDrop(m) \/ CallReturn(m)
    BY <2>2 DEF ReadCommand, CallBlock, CallResume, CallDrop, CallReturn, peer_vars
  <2>3. CASE WriteStop \/ WriteWait \/ WriteTaken \/ WriteReturn \/ WriteEnd
    <3>1. CASE WriteStop \/ WriteWait
      BY <3>1 DEF WriteStop, WriteWait, peer_vars
    <3>2. CASE WriteTaken \/ WriteReturn \/ WriteEnd
      BY <3>2 DEF WriteTaken, WriteReturn, WriteEnd, peer_vars
    <3> QED  BY <2>3, <3>1, <3>2
  <2>4. CASE \/ StartRead \/ StartWrite \/ OwnerWait \/ OwnerStop \/ JoinRead \/ ExitNotify
             \/ ServerStop \/ HangUp
    <3>1. CASE StartRead \/ StartWrite
      BY <3>1 DEF StartRead, StartWrite, peer_vars
    <3>2. CASE OwnerWait \/ OwnerStop
      BY <3>2 DEF OwnerWait, OwnerStop, peer_vars
    <3>3. CASE JoinRead \/ ExitNotify \/ ServerStop \/ HangUp
      BY <3>3 DEF JoinRead, ExitNotify, ServerStop, HangUp, peer_vars
    <3> QED  BY <2>4, <3>1, <3>2, <3>3
  <2> QED  BY <2>1, <2>2, <2>3, <2>4
<1>2. \/ pc'[W] = pc[W]
      \/ pc[W] = "wait" /\ pc'[W] = "top"
      \/ pc[W] = "none" /\ pc'[W] = "top"
      \/ pc[W] \in {"top", "next"} /\ pc'[W] \in {"wait", "top"}
      \/ pc'[W] \in {"end", "ret", "ended"}
  <2> USE DEF OrderInv, IInv
  <2>1. CASE ReadStop \/ ReadWait \/ ReadPoll \/ ReadPolled \/ ReadClose \/ ReadMore \/ ReadReturn
    <3>1. PICK at \in Places : Goes(R, at) \/ Sleeps(R, at) \/ Resumed(R, at)
      BY <2>1 DEF ReadStop, ReadWait, ReadPoll, ReadPolled, ReadClose, ReadMore, ReadReturn,
         Places
    <3> QED  BY <3>1, Moves, Apart
  <2>2. CASE ReadEnd
    <3>1. Wakes(R, "ret", W) /\ "ret" \in Places
      BY <2>2 DEF ReadEnd, Places
    <3> QED  BY <3>1, OwnWakes, Apart
  <2>3. CASE \/ ServerStop \/ HangUp
             \/ \E m \in Cmd : \/ ReadCommand(m) \/ CallBlock(m) \/ CallResume(m)
                               \/ CallDrop(m) \/ CallReturn(m)
    BY <2>3 DEF ServerStop, HangUp, ReadCommand, CallBlock, CallResume, CallDrop, CallReturn
  <2>4. CASE WriteStop \/ WriteWait \/ WriteTaken \/ WriteReturn
    <3>1. PICK at \in {"end", "wait", "top", "ended"} :
            /\ Goes(W, at) \/ Sleeps(W, at)
            /\ at \in {"wait", "top"} => pc[W] \in {"top", "next"}
      BY <2>4 DEF WriteStop, WriteWait, WriteTaken, WriteReturn
    <3>2. at \in Places
      BY DEF Places
    <3> QED  BY <3>1, <3>2, Moves, Apart
  <2>5. CASE WriteEnd
    <3>1. Wakes(W, "ret", O) /\ "ret" \in Places
      BY <2>5 DEF WriteEnd, Places
    <3> QED  BY <3>1, OwnWakes, Apart
  <2>6. CASE StartRead \/ StartWrite
    BY <2>6, Apart DEF StartRead, StartWrite, Types, Booting
  <2>7. CASE OwnerStop
    <3>1. Wakes(O, "join_r", R) /\ "join_r" \in Places
      BY <2>7 DEF OwnerStop, Places
    <3>2. O \in Own /\ R \in Own /\ W \in Own /\ O # R /\ W # O /\ W # R
      BY Apart
    <3>3. pc'[W] = pc[W]
      BY <3>1, <3>2, OwnWakes
    <3> QED  BY <3>3
  <2>8. CASE OwnerWait \/ JoinRead \/ ExitNotify
    <3>1. CASE Wakes(O, "join_w", W)
      <4>1. "join_w" \in Places
        BY DEF Places
      <4>2. O \in Own /\ R \in Own /\ W \in Own /\ O # W /\ R # O /\ R # W
        BY Apart
      <4>3. pc'[W] = IF pc[W] = "wait" THEN "top" ELSE pc[W]
        BY <3>1, <4>1, <4>2, OwnWakes
      <4> QED  BY <4>3
    <3>2. CASE \E at \in Places : Sleeps(O, at) \/ Resumed(O, at)
      BY <3>2, Moves, Apart
    <3> QED  BY <2>8, <3>1, <3>2 DEF OwnerWait, JoinRead, ExitNotify, Places
  <2> QED  BY <2>1, <2>2, <2>3, <2>4, <2>5, <2>6, <2>7, <2>8
<1>3. pc'[W] = "sent" => hup'
  BY <1>1, <1>2 DEF OrderInv, InOrder
<1>4. Intact' => Intact
  BY <1>1, <1>2 DEF Intact
<1> QED  BY <1>1, <1>3, <1>4, SameOrder DEF tx_vars

\* The steps after which nothing is intact.
LEMMA LostOrder == ASSUME OrderInv, SendDone \/ WriteFail \/ JoinWrite PROVE InOrder'
<1> USE DEF OrderInv, IInv
<1>1. UNCHANGED <<given, wire, hup>>
  BY DEF SendDone, WriteFail, JoinWrite, peer_vars
<1>2. CASE SendDone
  <2>1. PICK at \in {"next", "fail"} : Wakes(W, at, R) /\ (at = "next" => pc[W] = "sent")
    BY <1>2 DEF SendDone, Sent
  <2>2. at \in Places
    BY DEF Places
  <2>3. pc'[W] = at
    BY <2>1, <2>2, OwnWakes, Apart
  <2>4. ~Intact' /\ pc'[W] # "sent"
    BY <1>1, <2>1, <2>3 DEF Intact, InOrder
  <2> QED  BY <1>1, <2>4, SameOrder
<1>3. CASE WriteFail
  <2>1. pc'[W] = "end"
    BY <1>3, Moves, Apart DEF WriteFail, Places
  <2> QED  BY <1>1, <2>1, SameOrder DEF Intact
<1>4. CASE JoinWrite
  <2>1. pc'[W] = pc[W]
    BY <1>4, Moves, Apart DEF JoinWrite, Places
  <2>2. \/ pc[W] = "ended"
        \/ UNCHANGED <<tx_queue, out, sending>>
    BY <1>4 DEF JoinWrite
  <2>3. Intact' => Intact /\ UNCHANGED <<tx_queue, out, sending>>
    BY <1>1, <2>1, <2>2 DEF Intact
  <2>4. pc'[W] = "sent" => hup'
    BY <1>1, <2>1 DEF InOrder
  <2> QED  BY <1>1, <2>3, <2>4, SameOrder
<1> QED  BY <1>2, <1>3, <1>4

\* Every step keeps the order.
LEMMA StepOrder == ASSUME OrderInv, IInv', Next PROVE InOrder'
<1>1. CASE \E m \in Cmd : ReadUnknown(m) \/ CallSend(m)
  <2>1. PICK m \in Cmd : ReadUnknown(m) \/ CallSend(m)
    BY <1>1
  <2>2. Queued(m) /\ UNCHANGED <<out, sending, hup, wire>>
    BY <2>1 DEF ReadUnknown, CallSend
  <2>3. pc'[W] = IF pc[W] = "wait" THEN "top" ELSE pc[W]
    <3>1. CASE ReadUnknown(m)
      <4>1. Wakes(R, "bad", W) /\ "bad" \in Places
        BY <3>1 DEF ReadUnknown, Places
      <4> QED  BY <4>1, OwnWakes, Apart DEF OrderInv, IInv
    <3>2. CASE CallSend(m)
      <4>1. m \in Own \cup Cmd /\ "sent" \in Places /\ W \in Own \ {m}
        BY Apart DEF Places
      <4> QED  BY <3>2, <4>1, WakesMoves DEF CallSend, OrderInv, IInv
    <3> QED  BY <2>1, <3>1, <3>2
  <2> QED  BY <2>2, <2>3, QueuedOrder
<1>2. CASE WriteTake
  <2>1. pc'[W] = "next"
    BY <1>2, Moves, Apart DEF WriteTake, OrderInv, IInv, Places
  <2> QED  BY <1>2, <2>1, TakeOrder
<1>3. CASE SendBlock
  <2>1. pc'[W] = "send"
    BY <1>3, Moves, Apart DEF SendBlock, OrderInv, IInv, Places
  <2> QED  BY <1>3, <2>1, BlockOrder
<1> QED
  BY <1>1, <1>2, <1>3, NowOrder, PolledOrder, LostOrder, StillOrder
     DEF Next, Running, ReadStep, WriteStep, OwnerStep, CallStep

\* What the peer has received is a prefix of what was handed to send_msg, whatever
\* blocks, fails or stops (channel.cpp:190).
THEOREM PrefixAlways == Spec => []PrefixDelivered
<1>1. Init => InOrder
  <2> SUFFICES ASSUME Init PROVE InOrder
    OBVIOUS
  <2>1. pc[W] = "none"
    BY Apart DEF Init, Own
  <2> QED  BY <2>1 DEF Init, InOrder
<1>2. InOrder /\ IInv /\ IInv' /\ [Next]_vars => InOrder'
  <2> SUFFICES ASSUME InOrder, IInv, IInv', [Next]_vars PROVE InOrder'
    OBVIOUS
  <2>1. CASE UNCHANGED vars
    BY <2>1 DEF vars, InOrder, Intact
  <2>2. CASE Next
    BY <2>2, StepOrder DEF OrderInv
  <2> QED  BY <2>1, <2>2
<1>3. InOrder => PrefixDelivered
  <2> SUFFICES ASSUME InOrder PROVE PrefixDelivered
    OBVIOUS
  <2> DEFINE u == SubSeq(given, 1, Len(wire))
  <2>1. /\ wire \in Seq(Cmd) /\ given \in Seq(Cmd) /\ Len(wire) \in Nat /\ Len(given) \in Nat
        /\ Len(wire) <= Len(given)
    BY DEF InOrder
  <2>2. u \in Seq(Cmd) /\ Len(u) = Len(wire) /\ \A i \in 1..Len(wire) : u[i] = given[i]
    BY <2>1
  <2> HIDE DEF u
  <2>3. u = wire
    BY <2>1, <2>2 DEF InOrder
  <2> QED  BY <2>1, <2>3 DEF PrefixDelivered, u
<1> QED  BY <1>1, <1>2, <1>3, InvariantHolds, PTL DEF Spec

-----------------------------------------------------------------------------
\* The channel_t is destroyed only when both of its coroutines and its owner are done
\* with it: the owner, on whose stack it is (rpc_pb_server.cpp:694), has waited for the
\* two in stop, and neither starts again (channel.cpp:259, 267).
FreedLast == ~alive => pc[R] = "ended" /\ pc[W] = "ended" /\ pc[O] = "ended"

\* What the owner knows of the two at each place of stop.
Joined ==
    /\ pc[O] \in {"join_w", "wait_w", "ended"} => pc[R] = "ended"
    /\ pc[O] = "ended" => pc[W] = "ended"
    /\ ~alive => pc[O] = "ended"

JoinedInv == IInv /\ Joined

\* A step that ends no wait of the owner, and starts nothing that has ended.
LEMMA JoinedIf ==
    ASSUME Joined, alive' = alive,
           pc[R] = "ended" => pc'[R] = "ended",
           pc[W] = "ended" => pc'[W] = "ended",
           \/ pc'[O] = pc[O]
           \/ pc[O] # "ended" /\ pc'[O] \notin {"join_w", "wait_w", "ended"}
    PROVE  Joined'
BY DEF Joined

\* The reader and the workers.
LEMMA ReadJoined ==
    ASSUME JoinedInv,
           ReadStep \/ ReadPolled \/ \E m \in Cmd : CallStep(m) \/ CallResume(m)
    PROVE  Joined'
<1> USE DEF JoinedInv, IInv
<1>1. alive' = alive
  BY DEF ReadStep, ReadStop, ReadWait, ReadPoll, ReadClose, ReadMore, ReadEnd, ReadReturn,
     ReadCommand, ReadUnknown, ReadPolled, CallStep, CallBlock, CallSend, CallDrop,
     CallReturn, CallResume
<1>2. CASE ReadStop \/ ReadWait \/ ReadPoll \/ ReadClose \/ ReadMore \/ ReadReturn \/ ReadPolled
  <2>1. PICK at \in {"end", "wait", "poll", "top", "ended", "cb"} :
          Goes(R, at) \/ Sleeps(R, at) \/ Resumed(R, at)
    BY <1>2 DEF ReadStop, ReadWait, ReadPoll, ReadClose, ReadMore, ReadReturn, ReadPolled
  <2>2. at \in Places
    BY DEF Places
  <2>3. pc'[W] = pc[W] /\ pc'[O] = pc[O]
    BY <2>1, <2>2, Moves, Apart
  <2>4. pc[R] # "ended"
    BY <1>2 DEF ReadStop, ReadWait, ReadPoll, ReadClose, ReadMore, ReadReturn, ReadPolled
  <2> QED  BY <1>1, <2>3, <2>4, JoinedIf
<1>3. CASE ReadEnd \/ \E m \in Cmd : ReadUnknown(m)
  <2>1. PICK at \in {"ret", "bad"} : Wakes(R, at, W) /\ pc[R] # "ended"
    BY <1>3 DEF ReadEnd, ReadUnknown
  <2>2. at \in Places
    BY DEF Places
  <2>3. pc'[O] = pc[O] /\ pc'[W] = IF pc[W] = "wait" THEN "top" ELSE pc[W]
    BY <2>1, <2>2, OwnWakes, Apart
  <2> QED  BY <1>1, <2>1, <2>3, JoinedIf
<1>4. CASE \E m \in Cmd : CallSend(m)
  <2>1. PICK m \in Cmd : Wakes(m, "sent", W)
    BY <1>4 DEF CallSend
  <2>2. m \in Own \cup Cmd /\ "sent" \in Places /\ W \in Own \ {m}
        /\ R \in Own \ {m, W} /\ O \in Own \ {m, W}
    BY Apart DEF Places
  <2>3. /\ pc'[O] = pc[O] /\ pc'[R] = pc[R]
        /\ pc'[W] = IF pc[W] = "wait" THEN "top" ELSE pc[W]
    BY <2>1, <2>2, WakesMoves
  <2> QED  BY <1>1, <2>3, JoinedIf
<1>5. CASE \E m \in Cmd : \/ ReadCommand(m) \/ CallBlock(m) \/ CallDrop(m) \/ CallReturn(m)
                          \/ CallResume(m)
  <2>1. pc' = pc
    BY <1>5 DEF ReadCommand, CallBlock, CallDrop, CallReturn, CallResume
  <2> QED  BY <1>1, <2>1, JoinedIf
<1> QED  BY <1>2, <1>3, <1>4, <1>5 DEF ReadStep, CallStep

\* The writer, the stop of the server and the peer.
LEMMA WriteJoined ==
    ASSUME JoinedInv, WriteStep \/ SendPolled \/ ServerStop \/ HangUp
    PROVE  Joined'
<1> USE DEF JoinedInv, IInv
<1>1. alive' = alive
  BY DEF WriteStep, WriteStop, WriteWait, WriteTake, WriteTaken, SendBlock, SendNow, SendDone,
     WriteFail, WriteEnd, WriteReturn, SendPolled, ServerStop, HangUp
<1>2. CASE \/ WriteStop \/ WriteWait \/ WriteTake \/ WriteTaken \/ SendBlock \/ WriteFail
           \/ WriteReturn
  <2>1. PICK at \in {"end", "wait", "next", "top", "send", "ended"} :
          Goes(W, at) \/ Sleeps(W, at)
    BY <1>2 DEF WriteStop, WriteWait, WriteTake, WriteTaken, SendBlock, WriteFail, WriteReturn
  <2>2. at \in Places
    BY DEF Places
  <2>3. pc'[R] = pc[R] /\ pc'[O] = pc[O]
    BY <2>1, <2>2, Moves, Apart
  <2>4. pc[W] # "ended"
    BY <1>2 DEF WriteStop, WriteWait, WriteTake, WriteTaken, SendBlock, WriteFail, WriteReturn
  <2> QED  BY <1>1, <2>3, <2>4, JoinedIf
<1>3. CASE SendNow \/ SendDone
  <2>1. PICK at \in {"next", "fail"} : Wakes(W, at, R) /\ pc[W] # "ended"
    BY <1>3 DEF SendNow, SendDone, Sent
  <2>2. at \in Places
    BY DEF Places
  <2>3. pc'[O] = pc[O] /\ pc'[R] = IF pc[R] = "wait" THEN "top" ELSE pc[R]
    BY <2>1, <2>2, OwnWakes, Apart
  <2> QED  BY <1>1, <2>1, <2>3, JoinedIf
<1>4. CASE WriteEnd
  <2>1. Wakes(W, "ret", O) /\ pc[W] # "ended" /\ "ret" \in Places
    BY <1>4 DEF WriteEnd, Places
  <2>2. pc'[R] = pc[R] /\ pc'[O] = IF pc[O] = "wait" THEN "top" ELSE pc[O]
    BY <2>1, OwnWakes, Apart
  <2> QED  BY <1>1, <2>1, <2>2, JoinedIf
<1>5. CASE SendPolled
  <2>1. pc'[R] = pc[R] /\ pc'[O] = pc[O] /\ pc[W] # "ended"
    BY <1>5, Apart DEF SendPolled
  <2> QED  BY <1>1, <2>1, JoinedIf
<1>6. CASE ServerStop \/ HangUp
  BY <1>1, <1>6, JoinedIf DEF ServerStop, HangUp
<1> QED  BY <1>2, <1>3, <1>4, <1>5, <1>6 DEF WriteStep

\* The owner: it starts the two before anything has ended, and joins them one by one.
LEMMA OwnerJoined ==
    ASSUME JoinedInv, OwnerStep \/ ExitNotify
    PROVE  Joined'
<1> USE DEF JoinedInv, IInv
<1>1. CASE StartRead \/ StartWrite \/ OwnerWait \/ OwnerStop
  <2>1. alive' = alive /\ pc[O] \in {"start", "started", "wait_on", "top"}
    BY <1>1 DEF StartRead, StartWrite, OwnerWait, OwnerStop
  <2>2. /\ pc'[O] \in {"started", "wait_on", "wait", "join_r"}
        /\ pc[R] = "ended" => pc'[R] = "ended"
        /\ pc[W] = "ended" => pc'[W] = "ended"
    <3>1. CASE StartRead \/ StartWrite
      BY <3>1, Apart DEF StartRead, StartWrite, Types, Booting
    <3>2. CASE OwnerWait
      BY <3>2, Apart DEF OwnerWait, Sleeps, Types
    <3>3. CASE OwnerStop
      <4>1. Wakes(O, "join_r", R) /\ "join_r" \in Places
        BY <3>3 DEF OwnerStop, Places
      <4> QED  BY <4>1, OwnWakes, Apart
    <3> QED  BY <1>1, <3>1, <3>2, <3>3
  <2> QED  BY <2>1, <2>2, JoinedIf
<1>2. CASE JoinRead
  <2>1. alive' = alive /\ pc[O] = "join_r"
    BY <1>2 DEF JoinRead
  <2>2. CASE pc[R] = "ended"
    <3>1. Wakes(O, "join_w", W) /\ "join_w" \in Places
      BY <1>2, <2>2 DEF JoinRead, Places
    <3>2. pc'[O] = "join_w" /\ pc'[R] = pc[R]
      BY <3>1, OwnWakes, Apart
    <3> QED  BY <2>1, <2>2, <3>2 DEF Joined
  <2>3. CASE pc[R] # "ended"
    <3>1. pc'[O] = "wait_r" /\ pc'[R] = pc[R] /\ pc'[W] = pc[W]
      BY <1>2, <2>3, Apart DEF JoinRead, Sleeps, Types
    <3> QED  BY <2>1, <3>1, JoinedIf
  <2> QED  BY <2>2, <2>3
<1>3. CASE JoinWrite
  <2>1. pc[O] = "join_w" /\ pc[R] = "ended" /\ alive
    BY <1>3 DEF JoinWrite, Joined
  <2>2. pc'[R] = pc[R] /\ pc'[W] = pc[W]
        /\ IF pc[W] = "ended" THEN pc'[O] = "ended" ELSE pc'[O] = "wait_w" /\ alive' = alive
    BY <1>3, Apart DEF JoinWrite, Sleeps, Types
  <2> QED  BY <2>1, <2>2 DEF Joined
<1>4. CASE ExitNotify
  <2>1. PICK at \in {"join_r", "join_w"} :
          /\ pc[O] = (IF at = "join_r" THEN "wait_r" ELSE "wait_w")
          /\ Resumed(O, at) /\ alive' = alive
    BY <1>4 DEF ExitNotify
  <2>2. pc'[O] = at /\ pc'[R] = pc[R] /\ pc'[W] = pc[W]
    BY <2>1, Apart DEF Resumed, Types
  <2> QED  BY <2>1, <2>2 DEF Joined
<1> QED  BY <1>1, <1>2, <1>3, <1>4 DEF OwnerStep

\* Neither coroutine of a channel, nor its owner, runs on when the channel_t is gone,
\* whoever stopped it and whatever was blocked (channel.cpp:252).
THEOREM ChannelFreedLast == Spec => []FreedLast
<1>1. Init => Joined
  <2> SUFFICES ASSUME Init PROVE Joined
    OBVIOUS
  <2>1. pc[O] = "start" /\ alive
    BY Apart DEF Init, Own
  <2> QED  BY <2>1 DEF Joined
<1>2. Joined /\ IInv /\ [Next]_vars => Joined'
  <2> SUFFICES ASSUME Joined, IInv, [Next]_vars PROVE Joined'
    OBVIOUS
  <2>1. CASE UNCHANGED vars
    BY <2>1 DEF vars, Joined
  <2>2. CASE Next
    BY <2>2, ReadJoined, WriteJoined, OwnerJoined DEF JoinedInv, Next, Running
  <2> QED  BY <2>1, <2>2
<1>3. Joined => FreedLast
  BY DEF Joined, FreedLast
<1> QED  BY <1>1, <1>2, <1>3, InvariantHolds, PTL DEF Spec
=============================================================================
