------------------------------- MODULE Channel -------------------------------
(****************************************************************************)
(* One duplex connection of the RPC server: the channel_t of                *)
(* svrkit/src/channel.cpp with its reader and writer coroutines, the        *)
(* connection coroutine that owns it (proc_tcp_rpc_pb_async), the workers   *)
(* that run the commands (async_proc_worker) and the stop of the server.    *)
(*                                                                          *)
(* Each of the three wait queues of the channel has one coroutine that      *)
(* waits on it, so wakeup_all resumes that coroutine if it waits there; it  *)
(* runs inside the wake-up until it blocks.  stack is the chain of resumed  *)
(* coroutines, the last one runs, and the dispatch loop runs when it is     *)
(* empty.  A command, the worker that runs it and its response have one     *)
(* name.                                                                    *)
(****************************************************************************)
EXTENDS Integers, Sequences, List

CONSTANTS R,            \* do_read_co
          W,            \* do_write_co
          O,            \* the connection coroutine
          MaxPending,   \* max_pending
          MaxCmd        \* bound: the commands that arrive on the connection

ASSUME ChannelAssumption ==
    /\ MaxPending \in Nat \ {0} /\ MaxCmd \in Nat
    /\ R # W /\ R # O /\ W # O /\ {R, W, O} \cap (1..MaxCmd) = {}

Cmd == 1..MaxCmd

VARIABLES
    tx_queue,   \* responses to be written
    out,        \* do_write_co: `queue', taken from tx_queue
    sending,    \* do_write_co: out_data, or <<>>
    pending,    \* pending_tx_num
    to_stop, r_stop, w_stop,
    linked,     \* on the list of channels of the server
    alive,      \* the channel_t, on the stack of the connection coroutine
    pc,         \* where R, W and O are
    worker,     \* where the worker of each command is
    stack,      \* the chain of resumed coroutines
    hup,        \* the peer has closed the connection
    given,      \* the responses handed to send_msg, in order
    wire        \* the responses that reached the socket, in order

vars == <<tx_queue, out, sending, pending, to_stop, r_stop, w_stop, linked,
          alive, pc, worker, stack, hup, given, wire>>

tx_vars == <<tx_queue, out, sending, pending>>
flag_vars == <<to_stop, r_stop, w_stop>>
peer_vars == <<hup, given, wire>>

Runs(c) == stack # <<>> /\ Last(stack) = c
Below == Front(stack)

\* The running coroutine goes on at `at', or inside `c' if c sleeps on the queue
\* that is woken.
Wakes(self, at, c) ==
    /\ pc' = [x \in {R, W, O} |->
                IF x = self THEN at
                ELSE IF x = c /\ pc[c] = "wait" THEN "top" ELSE pc[x]]
    /\ stack' = IF pc[c] = "wait" THEN Append(stack, c) ELSE stack

Goes(self, at) == pc' = [pc EXCEPT ![self] = at] /\ stack' = stack
Sleeps(self, at) == pc' = [pc EXCEPT ![self] = at] /\ stack' = Below
Resumed(self, at) ==
    /\ stack = <<>>
    /\ pc' = [pc EXCEPT ![self] = at]
    /\ stack' = <<self>>

-----------------------------------------------------------------------------
\* send_msg

\* What send_msg does before it wakes the writer.
Queued(m) ==
    /\ tx_queue' = Append(tx_queue, m)
    /\ pending' = pending + 1
    /\ given' = Append(given, m)

-----------------------------------------------------------------------------
\* do_read_co

ReadStop ==
    /\ Runs(R) /\ pc[R] = "top"
    /\ to_stop \/ w_stop
    /\ Goes(R, "end")
    /\ UNCHANGED <<tx_vars, flag_vars, linked, alive, worker, peer_vars>>

ReadWait ==
    /\ Runs(R) /\ pc[R] = "top"
    /\ ~to_stop /\ ~w_stop
    /\ pending >= MaxPending
    /\ Sleeps(R, "wait")
    /\ UNCHANGED <<tx_vars, flag_vars, linked, alive, worker, peer_vars>>

ReadPoll ==
    /\ Runs(R) /\ pc[R] = "top"
    /\ ~to_stop /\ ~w_stop
    /\ pending < MaxPending
    /\ Sleeps(R, "poll")
    /\ UNCHANGED <<tx_vars, flag_vars, linked, alive, worker, peer_vars>>

\* The poll times out or is interrupted; it fails, or recv does; or data is there.
ReadPolled ==
    /\ pc[R] = "poll"
    /\ \E at \in {"top", "end"} \cup IF hup THEN {} ELSE {"cb"} : Resumed(R, at)
    /\ UNCHANGED <<tx_vars, flag_vars, linked, alive, worker, peer_vars>>

\* proc_data: a command is handed to a worker, which is resumed.
ReadCommand(m) ==
    /\ Runs(R) /\ pc[R] = "cb"
    /\ worker[m] = "none" /\ \A k \in 1..(m - 1) : worker[k] # "none"
    /\ worker' = [worker EXCEPT ![m] = "call"]
    /\ stack' = Append(stack, m)
    /\ UNCHANGED <<tx_vars, flag_vars, linked, alive, pc, peer_vars>>

\* proc_data: an unknown command is answered by the reader, and ends the channel.
ReadUnknown(m) ==
    /\ Runs(R) /\ pc[R] = "cb"
    /\ worker[m] = "none" /\ \A k \in 1..(m - 1) : worker[k] # "none"
    /\ worker' = [worker EXCEPT ![m] = "done"]
    /\ Queued(m)
    /\ Wakes(R, "bad", W)
    /\ UNCHANGED <<out, sending, flag_vars, linked, alive, hup, wire>>

\* The callback wants the connection closed, or fails.
ReadClose ==
    /\ Runs(R) /\ pc[R] \in {"cb", "bad"}
    /\ to_stop' = TRUE
    /\ Goes(R, "end")
    /\ UNCHANGED <<tx_vars, r_stop, w_stop, linked, alive, worker, peer_vars>>

\* The callback has taken all the packets.
ReadMore ==
    /\ Runs(R) /\ pc[R] = "cb"
    /\ Goes(R, "top")
    /\ UNCHANGED <<tx_vars, flag_vars, linked, alive, worker, peer_vars>>

\* Mutant: the writer is not woken.
ReadEndSilent ==
    /\ Runs(R) /\ pc[R] = "end"
    /\ r_stop' = TRUE
    /\ Goes(R, "ret")
    /\ UNCHANGED <<tx_vars, to_stop, w_stop, linked, alive, worker, peer_vars>>

ReadEnd ==
    /\ Runs(R) /\ pc[R] = "end"
    /\ r_stop' = TRUE
    /\ Wakes(R, "ret", W)
    /\ UNCHANGED <<tx_vars, to_stop, w_stop, linked, alive, worker, peer_vars>>

ReadReturn ==
    /\ Runs(R) /\ pc[R] = "ret"
    /\ Sleeps(R, "ended")
    /\ UNCHANGED <<tx_vars, flag_vars, linked, alive, worker, peer_vars>>

-----------------------------------------------------------------------------
\* async_proc_worker.  A worker ends with its command, unless the server has been
\* stopped: then it is parked in the pool, and drops the command it is resumed with.

CallBlock(m) ==
    /\ Runs(m) /\ worker[m] = "call"
    /\ worker' = [worker EXCEPT ![m] = "blocked"]
    /\ stack' = Below
    /\ UNCHANGED <<tx_vars, flag_vars, linked, alive, pc, peer_vars>>

CallResume(m) ==
    /\ stack = <<>> /\ worker[m] = "blocked"
    /\ worker' = [worker EXCEPT ![m] = "call"]
    /\ stack' = <<m>>
    /\ UNCHANGED <<tx_vars, flag_vars, linked, alive, pc, peer_vars>>

\* send_rpc_rsp
CallSend(m) ==
    /\ Runs(m) /\ worker[m] = "call" /\ alive
    /\ worker' = [worker EXCEPT ![m] = "sent"]
    /\ Queued(m)
    /\ Wakes(m, "sent", W)
    /\ UNCHANGED <<out, sending, flag_vars, linked, alive, hup, wire>>

\* A parked worker drops the command, or serialize_cmd_base refuses the response, or
\* the channel has gone: the code uses it all the same then, and what becomes of this
\* worker is left out.
CallDrop(m) ==
    /\ Runs(m) /\ worker[m] = "call"
    /\ worker' = [worker EXCEPT ![m] = "done"]
    /\ stack' = Below
    /\ UNCHANGED <<tx_vars, flag_vars, linked, alive, pc, peer_vars>>

CallReturn(m) ==
    /\ Runs(m) /\ worker[m] = "sent"
    /\ worker' = [worker EXCEPT ![m] = "done"]
    /\ stack' = Below
    /\ UNCHANGED <<tx_vars, flag_vars, linked, alive, pc, peer_vars>>

-----------------------------------------------------------------------------
\* do_write_co

WriteStop ==
    /\ Runs(W) /\ pc[W] = "top"
    /\ to_stop \/ r_stop
    /\ Goes(W, "end")
    /\ UNCHANGED <<tx_vars, flag_vars, linked, alive, worker, peer_vars>>

WriteWait ==
    /\ Runs(W) /\ pc[W] = "top"
    /\ ~to_stop /\ ~r_stop
    /\ tx_queue = <<>>
    /\ Sleeps(W, "wait")
    /\ UNCHANGED <<tx_vars, flag_vars, linked, alive, worker, peer_vars>>

WriteTake ==
    /\ Runs(W) /\ pc[W] = "top"
    /\ ~to_stop /\ ~r_stop
    /\ tx_queue # <<>>
    /\ out' = tx_queue
    /\ tx_queue' = <<>>
    /\ Goes(W, "next")
    /\ UNCHANGED <<sending, pending, flag_vars, linked, alive, worker, peer_vars>>

WriteTaken ==
    /\ Runs(W) /\ pc[W] = "next"
    /\ out = <<>>
    /\ Goes(W, "top")
    /\ UNCHANGED <<tx_vars, flag_vars, linked, alive, worker, peer_vars>>

\* send finds the socket full.
SendBlock ==
    /\ Runs(W) /\ pc[W] = "next" /\ out # <<>>
    /\ sending' = <<Head(out)>>
    /\ out' = Tail(out)
    /\ Sleeps(W, "send")
    /\ UNCHANGED <<tx_queue, pending, flag_vars, linked, alive, worker, peer_vars>>

\* Mutant: the counter stays.
SentUncounted(at) ==
    /\ sending' = <<>>
    /\ pending' = pending
    /\ Wakes(W, at, R)

\* The response is freed and the reader woken; then the result is looked at.
Sent(at) ==
    /\ sending' = <<>>
    /\ pending' = pending - 1
    /\ Wakes(W, at, R)

\* send succeeds at once, or fails at once.
SendNow ==
    /\ Runs(W) /\ pc[W] = "next" /\ out # <<>>
    /\ out' = Tail(out)
    /\ \/ ~hup /\ wire' = Append(wire, Head(out)) /\ Sent("next")
       \/ wire' = wire /\ Sent("fail")
    /\ UNCHANGED <<tx_queue, flag_vars, linked, alive, worker, hup, given>>

\* co_poll of the send hook comes back.  The result of its second send is lost, so
\* that it fails even when that one succeeds; a peer that hung up makes it return 0,
\* which send_data turns into the length of the response.
SendPolled ==
    /\ pc[W] = "send" /\ stack = <<>>
    /\ \E ok \in BOOLEAN :
        /\ ok => hup
        /\ pc' = [pc EXCEPT ![W] = IF ok THEN "sent" ELSE "unsent"]
    /\ wire' \in {wire} \cup IF hup THEN {} ELSE {wire \o sending}
    /\ stack' = <<W>>
    /\ UNCHANGED <<tx_vars, flag_vars, linked, alive, worker, hup, given>>

SendDone ==
    /\ Runs(W) /\ pc[W] \in {"sent", "unsent"}
    /\ Sent(IF pc[W] = "sent" THEN "next" ELSE "fail")
    /\ UNCHANGED <<tx_queue, out, flag_vars, linked, alive, worker, peer_vars>>

\* Mutant: the writer goes on after a failed send.
WriteFailGoesOn ==
    /\ Runs(W) /\ pc[W] = "fail"
    /\ out' = out
    /\ Goes(W, "next")
    /\ UNCHANGED <<tx_queue, sending, pending, flag_vars, linked, alive, worker, peer_vars>>

\* The rest of the queue is freed; pending_tx_num stays.
WriteFail ==
    /\ Runs(W) /\ pc[W] = "fail"
    /\ out' = <<>>
    /\ Goes(W, "end")
    /\ UNCHANGED <<tx_queue, sending, pending, flag_vars, linked, alive, worker, peer_vars>>

WriteEnd ==
    /\ Runs(W) /\ pc[W] = "end"
    /\ w_stop' = TRUE
    /\ Wakes(W, "ret", O)
    /\ UNCHANGED <<tx_vars, to_stop, r_stop, linked, alive, worker, peer_vars>>

WriteReturn ==
    /\ Runs(W) /\ pc[W] = "ret"
    /\ Sleeps(W, "ended")
    /\ UNCHANGED <<tx_vars, flag_vars, linked, alive, worker, peer_vars>>

-----------------------------------------------------------------------------
\* The connection coroutine.

\* start: each of the two coroutines runs up to its first wait or poll.
StartRead ==
    /\ Runs(O) /\ pc[O] = "start"
    /\ linked' = TRUE
    /\ pc' = [pc EXCEPT ![O] = "started", ![R] = "top"]
    /\ stack' = Append(stack, R)
    /\ UNCHANGED <<tx_vars, flag_vars, alive, worker, peer_vars>>

StartWrite ==
    /\ Runs(O) /\ pc[O] = "started"
    /\ pc' = [pc EXCEPT ![O] = "wait_on", ![W] = "top"]
    /\ stack' = Append(stack, W)
    /\ UNCHANGED <<tx_vars, flag_vars, linked, alive, worker, peer_vars>>

\* exit_notify.wait_on
OwnerWait ==
    /\ Runs(O) /\ pc[O] = "wait_on"
    /\ Sleeps(O, "wait")
    /\ UNCHANGED <<tx_vars, flag_vars, linked, alive, worker, peer_vars>>

\* Mutant: the reader is not woken.
OwnerStopSilent ==
    /\ Runs(O) /\ pc[O] = "top"
    /\ linked' = FALSE
    /\ to_stop' = TRUE
    /\ Goes(O, "join_r")
    /\ UNCHANGED <<tx_vars, r_stop, w_stop, alive, worker, peer_vars>>

\* stop
OwnerStop ==
    /\ Runs(O) /\ pc[O] = "top"
    /\ linked' = FALSE
    /\ to_stop' = TRUE
    /\ Wakes(O, "join_r", R)
    /\ UNCHANGED <<tx_vars, r_stop, w_stop, alive, worker, peer_vars>>

\* wait(r_co), which comes back at once for a coroutine that has ended.
JoinRead ==
    /\ Runs(O) /\ pc[O] = "join_r"
    /\ IF pc[R] = "ended" THEN Wakes(O, "join_w", W) ELSE Sleeps(O, "wait_r")
    /\ UNCHANGED <<tx_vars, flag_vars, linked, alive, worker, peer_vars>>

\* wait(w_co), close, and the destructors of the queues and of the channel.
JoinWrite ==
    /\ Runs(O) /\ pc[O] = "join_w"
    /\ IF pc[W] = "ended"
       THEN Sleeps(O, "ended") /\ alive' = FALSE /\ tx_queue' = <<>>
       ELSE Sleeps(O, "wait_w") /\ UNCHANGED <<alive, tx_queue>>
    /\ UNCHANGED <<out, sending, pending, flag_vars, linked, worker, peer_vars>>

\* proc_exit_notify resumes the coroutine that waits for an ended one.
ExitNotify ==
    /\ \/ pc[O] = "wait_r" /\ pc[R] = "ended" /\ Resumed(O, "join_r")
       \/ pc[O] = "wait_w" /\ pc[W] = "ended" /\ Resumed(O, "join_w")
    /\ UNCHANGED <<tx_vars, flag_vars, linked, alive, worker, peer_vars>>

-----------------------------------------------------------------------------
\* do_stop of the server.
ServerStop ==
    /\ stack = <<>> /\ linked
    /\ linked' = FALSE
    /\ to_stop' = TRUE
    /\ UNCHANGED <<tx_vars, r_stop, w_stop, alive, pc, worker, stack, peer_vars>>

HangUp ==
    /\ ~hup
    /\ hup' = TRUE
    /\ UNCHANGED <<tx_vars, flag_vars, linked, alive, pc, worker, stack, given, wire>>

Init ==
    /\ tx_queue = <<>> /\ out = <<>> /\ sending = <<>> /\ pending = 0
    /\ to_stop = FALSE /\ r_stop = FALSE /\ w_stop = FALSE
    /\ linked = FALSE /\ alive = TRUE
    /\ pc = [c \in {R, W, O} |-> IF c = O THEN "start" ELSE "none"]
    /\ worker = [m \in Cmd |-> "none"]
    /\ stack = <<O>>
    /\ hup = FALSE /\ given = <<>> /\ wire = <<>>

ReadStep ==
    \/ ReadStop \/ ReadWait \/ ReadPoll \/ ReadClose \/ ReadMore
    \/ ReadEnd \/ ReadReturn
    \/ \E m \in Cmd : ReadCommand(m) \/ ReadUnknown(m)

CallStep(m) == CallBlock(m) \/ CallSend(m) \/ CallDrop(m) \/ CallReturn(m)

WriteStep ==
    \/ WriteStop \/ WriteWait \/ WriteTake \/ WriteTaken \/ SendBlock \/ SendNow
    \/ SendDone \/ WriteFail \/ WriteEnd \/ WriteReturn

OwnerStep == StartRead \/ StartWrite \/ OwnerWait \/ OwnerStop \/ JoinRead \/ JoinWrite

\* The chain of resumed coroutines goes on.
Running == ReadStep \/ WriteStep \/ OwnerStep \/ \E m \in Cmd : CallStep(m)

Next ==
    \/ Running
    \/ ReadPolled \/ SendPolled \/ ExitNotify
    \/ \E m \in Cmd : CallResume(m)
    \/ ServerStop \/ HangUp

\* A coroutine that runs goes on until it blocks.  The dispatch loop comes back to
\* every poll, whose timeouts are of one second, and to every notification of an
\* end, however often it has others to run in between.  Nothing is assumed of the
\* commands that block, of the peer and of the stop of the server.
Fairness ==
    /\ WF_vars(Running)
    /\ SF_vars(ReadPolled) /\ SF_vars(SendPolled) /\ SF_vars(ExitNotify)

Spec == Init /\ [][Next]_vars /\ Fairness

-----------------------------------------------------------------------------
\* What the peer gets is a prefix of the responses in the order in which the workers
\* handed them to send_msg: none twice, and none after one that was lost.
PrefixDelivered ==
    /\ Len(wire) <= Len(given)
    /\ wire = SubSeq(given, 1, Len(wire))

\* Until a send has failed, pending_tx_num counts the responses that wait or are
\* being sent, so that the reader stops reading exactly when max_pending are there.
PendingExact ==
    pc[W] \notin {"fail", "end", "ret", "ended"} =>
        pending = Len(tx_queue) + Len(out) + Len(sending)

\* A coroutine of the channel that sleeps has been left nothing to do, or is woken by
\* one that will still run: the writer sleeps on an empty queue with the reader at
\* work, the reader only before the owner has stopped it, and the owner only as long as
\* the writer has not ended (channel.cpp:112, 176).
NobodyStuck ==
    /\ pc[W] = "wait" => tx_queue = <<>> /\ ~r_stop /\ pc[R] # "wait"
    /\ pc[R] = "wait" => pc[O] \in {"wait", "top"}
    /\ pc[O] = "wait" => pc[W] # "ended"

\* When the reader or the writer has stopped, or the server stops the channel, the
\* connection coroutine gets to its end, with the reader and the writer ended.
Closes == (to_stop \/ r_stop \/ w_stop) ~> (~alive /\ pc[R] = "ended" /\ pc[W] = "ended")
=============================================================================
