-------------------------------- MODULE CoPoll --------------------------------
(****************************************************************************)
(* co_poll() and the event loop of one thread (core/src/network.cpp), with  *)
(* the way in which the socket hooks use it (core/src/network_hook.cpp).    *)
(*                                                                          *)
(* Descriptors are registered with epoll edge-triggered and stay so when    *)
(* the poll is over: wait_events remembers what the kernel was asked for,   *)
(* and an event that nobody polls for takes its part of the registration    *)
(* down again.  One batch of epoll_wait is first turned into a list of      *)
(* pollers (dispatch), which are then resumed one after the other.          *)
(*                                                                          *)
(* Of the kernel the module has the ready list of the epoll instance: a     *)
(* descriptor gets on it when an event it is registered for is raised, or   *)
(* when ADD or MOD finds one, and epoll_wait takes it off.                  *)
(*                                                                          *)
(* A descriptor is polled by at most one coroutine (the code aborts         *)
(* otherwise) and is not closed while it is polled.  Polls ask for at least *)
(* one event.                                                               *)
(****************************************************************************)
EXTENDS Integers, Sequences, FiniteSets, List

CONSTANTS Co,         \* coroutines
          Fd,         \* descriptors
          Ask,        \* the event masks that coroutines poll for
          Dir,        \* the events that hooks wait for: "in", "out"
          EpollSize,  \* m_epoll_size: the largest batch
          Nobody      \* a null poll_ctx

\* Readable, writable, and hung up or failed, which epoll reports unasked.
Ev == {"in", "out", "hup"}
Unasked == {"hup"}

ASSUME PollAssumption ==
    /\ Ask \subseteq (SUBSET Ev) \ {{}}
    /\ Dir \subseteq {"in", "out"}
    /\ EpollSize \in Nat \ {0}
    /\ Nobody \notin Co
    /\ IsFiniteSet(Fd)

VARIABLES
    level,        \* kernel: the events of a descriptor that are on
    interest,     \* kernel: descriptors registered with the epoll instance
    mask,         \* kernel: the events they are registered for
    rdl,          \* kernel: the ready list
    wait_events,  \* wait_item->wait_events
    poll_ctx,     \* wait_item->poll_ctx, as the coroutine whose it is
    asked,        \* fds[i].events of a poller, {} for the descriptors not in fds
    revents,      \* fds[i].revents
    num_raise,    \* poll_ctx->num_raise
    parked,       \* coroutines inside co_poll
    timer,        \* pollers whose timeout_ctl is set
    trying,       \* the coroutine in a hook that has seen EAGAIN, and the hook's poll
    hooked,       \* pollers that were called by such a hook
    evs,          \* the rest of the batch
    dispatch,     \* the list of pollers to resume
    stage         \* "wait" (in epoll_wait or before it), "batch", "dispatch"

kernel_vars == <<level, interest, mask, rdl>>
item_vars == <<wait_events, poll_ctx>>
poll_vars == <<asked, revents, num_raise, parked, timer, hooked>>
loop_vars == <<evs, dispatch, stage>>
vars == <<kernel_vars, item_vars, poll_vars, trying, loop_vars>>

NoTry == [co |-> Nobody, fd |-> Nobody, ev |-> {}]

\* User code runs, and no hook is between its call and its poll.
UserRuns == stage # "batch" /\ trying = NoTry

-----------------------------------------------------------------------------
\* The kernel.

\* The events that epoll reports for f, with the mask m.
Reported(f, m) == level[f] \cap (m \cup Unasked)

\* The sequences with each member of S once.
Orders(S) == {s \in [1..Cardinality(S) -> S] : NoDup(s)}

Push(q, f) == IF f \in Elems(q) THEN q ELSE Append(q, f)

\* Something happens on f: data, room, or the end of the connection.
Raise(f, e) ==
    /\ level' = [level EXCEPT ![f] = @ \cup {e}]
    /\ rdl' = IF f \in interest /\ e \in mask[f] \cup Unasked THEN Push(rdl, f)
              ELSE rdl
    /\ UNCHANGED <<interest, mask, item_vars, poll_vars, trying, loop_vars>>

\* epoll_ctl for the descriptors fs, to the masks m: EPOLL_CTL_ADD for those in
\* add, which fails for a registered one, and EPOLL_CTL_MOD for the others, which
\* fails for one that is not.  Both look at the events, in some order of fs.
CtlSet(fs, add, m) ==
    LET done == {f \in fs : (f \in add) # (f \in interest)}
        new == {f \in done : Reported(f, m[f]) # {}} \ Elems(rdl)
    IN  /\ interest' = interest \cup done
        /\ mask' = [f \in Fd |-> IF f \in done THEN m[f] ELSE mask[f]]
        /\ rdl' \in {rdl \o s : s \in Orders(new)}

\* EPOLL_CTL_DEL
CtlDel(f) ==
    /\ interest' = interest \ {f}
    /\ mask' = [mask EXCEPT ![f] = {}]
    /\ rdl' = Unlink(rdl, f)

-----------------------------------------------------------------------------
\* Coroutines.

\* The descriptors of a poll that asks for a.
Polled(a) == {f \in Fd : a[f] # {}}

\* Mutant: a registered descriptor is not modified.
StartPollAddOnly(c, a, timed) ==
    LET new == [f \in Fd |-> wait_events[f] \cup a[f]] IN
    /\ \A f \in Polled(a) : poll_ctx[f] = Nobody
    /\ poll_ctx' = [f \in Fd |-> IF f \in Polled(a) THEN c ELSE poll_ctx[f]]
    /\ wait_events' = new
    /\ CtlSet({f \in Polled(a) : wait_events[f] = {}},
              {f \in Fd : wait_events[f] = {}}, new)
    /\ level' = level
    /\ asked' = [asked EXCEPT ![c] = a]
    /\ parked' = parked \cup {c}
    /\ timer' = IF timed THEN timer \cup {c} ELSE timer
    /\ UNCHANGED <<revents, num_raise, loop_vars>>

\* co_poll up to its yield: poll_ctx_t::init.  A registration that has all of
\* the events stays as it is.
StartPoll(c, a, timed) ==
    LET new == [f \in Fd |-> wait_events[f] \cup a[f]] IN
    /\ \A f \in Polled(a) : poll_ctx[f] = Nobody
    /\ poll_ctx' = [f \in Fd |-> IF f \in Polled(a) THEN c ELSE poll_ctx[f]]
    /\ wait_events' = new
    /\ CtlSet({f \in Fd : new[f] # wait_events[f]},
              {f \in Fd : wait_events[f] = {}}, new)
    /\ level' = level
    /\ asked' = [asked EXCEPT ![c] = a]
    /\ parked' = parked \cup {c}
    /\ timer' = IF timed THEN timer \cup {c} ELSE timer
    /\ UNCHANGED <<revents, num_raise, loop_vars>>

\* poll(fds, nfds, timeout): it is called whatever the events are.
Poll(c, a, timed) ==
    /\ UserRuns
    /\ c \notin parked
    /\ Polled(a) # {}
    /\ StartPoll(c, a, timed)
    /\ UNCHANGED <<hooked, trying>>

\* A call of recv, send, write and the like that goes through at once, and may
\* use up the event.  Anybody may do that, also on a descriptor that is polled.
Transfer(f, e) ==
    /\ UserRuns
    /\ e \in level[f]
    /\ level' \in {level, [level EXCEPT ![f] = @ \ {e}]}
    /\ UNCHANGED <<interest, mask, rdl, item_vars, poll_vars, trying, loop_vars>>

\* One that gets EAGAIN: it is going to poll.
Try(c, f, e) ==
    /\ UserRuns
    /\ c \notin parked
    /\ poll_ctx[f] = Nobody
    /\ level[f] \cap {e, "hup"} = {}
    /\ trying' = [co |-> c, fd |-> f, ev |-> {e, "hup"}]
    /\ UNCHANGED <<kernel_vars, item_vars, poll_vars, loop_vars>>

\* ... and polls; between the two the kernel may raise the event.
HookPoll(timed) ==
    /\ trying # NoTry
    /\ StartPoll(trying.co,
                 [f \in Fd |-> IF f = trying.fd THEN trying.ev ELSE {}], timed)
    /\ hooked' = hooked \cup {trying.co}
    /\ trying' = NoTry

\* Mutant: only the first wait item is reset, whatever nfds is.
EndPollFirst(c) ==
    /\ parked' = parked \ {c}
    /\ poll_ctx' = [poll_ctx EXCEPT ![CHOOSE f \in Polled(asked[c]) : TRUE] = Nobody]
    /\ asked' = [asked EXCEPT ![c] = [f \in Fd |-> {}]]
    /\ revents' = [revents EXCEPT ![c] = [f \in Fd |-> {}]]
    /\ num_raise' = [num_raise EXCEPT ![c] = 0]
    /\ hooked' = hooked \ {c}
    /\ UNCHANGED <<kernel_vars, wait_events, trying>>

\* The rest of co_poll, with destruct_poll_ctx: c is resumed and returns, with
\* num_raise and revents when it comes from the dispatch list, with 0 when its
\* timer has expired.
EndPoll(c) ==
    /\ parked' = parked \ {c}
    /\ poll_ctx' = [f \in Fd |-> IF f \in Polled(asked[c]) THEN Nobody
                                 ELSE poll_ctx[f]]
    /\ asked' = [asked EXCEPT ![c] = [f \in Fd |-> {}]]
    /\ revents' = [revents EXCEPT ![c] = [f \in Fd |-> {}]]
    /\ num_raise' = [num_raise EXCEPT ![c] = 0]
    /\ hooked' = hooked \ {c}
    /\ UNCHANGED <<kernel_vars, wait_events, trying>>

\* poll_ctx_timeout_proc: the coroutine of the timer wheel is one of the pollers
\* of a batch, and timers of 0 ms expire after the batch.
Timeout(c) ==
    /\ UserRuns
    /\ c \in timer
    /\ timer' = timer \ {c}
    /\ EndPoll(c)
    /\ UNCHANGED loop_vars

\* The hook of close, with close_fd_notify_poll.  The number may be used for a
\* new descriptor at once.
Close(f) ==
    /\ UserRuns
    /\ poll_ctx[f] = Nobody
    /\ wait_events' = [wait_events EXCEPT ![f] = {}]
    /\ CtlDel(f)
    /\ level' = [level EXCEPT ![f] = {}]
    /\ UNCHANGED <<poll_ctx, poll_vars, trying, loop_vars>>

-----------------------------------------------------------------------------
\* proc_netevent.

\* epoll_wait: the first EpollSize descriptors of the ready list, those of them
\* that still have an event.
EpollWait ==
    LET n == IF Len(rdl) < EpollSize THEN Len(rdl) ELSE EpollSize
        event(f) == [fd |-> f, events |-> Reported(f, mask[f])]
        kept == {j \in 1..n : event(rdl[j]).events # {}}
    IN  /\ stage = "wait"
        /\ trying = NoTry
        /\ rdl # <<>>
        /\ \E at \in Orders(kept) :
              /\ \A j, k \in 1..Len(at) : j < k => at[j] < at[k]
              /\ evs' = [j \in 1..Len(at) |-> event(rdl[at[j]])]
        /\ rdl' = SubSeq(rdl, n + 1, Len(rdl))
        /\ stage' = "batch"
        /\ UNCHANGED <<level, interest, mask, item_vars, poll_vars, trying, dispatch>>

\* The events of e that its poller has asked for.
Wanted(e) ==
    IF poll_ctx[e.fd] = Nobody THEN {}
    ELSE asked[poll_ctx[e.fd]][e.fd] \cap e.events

\* Mutant: wait_events is not brought up to date.
ClearInvalidEventForgets(f, es) ==
    LET left == wait_events[f] \ es IN
    /\ wait_events' = wait_events
    /\ IF left # {} THEN CtlSet({f}, {}, [mask EXCEPT ![f] = left]) ELSE CtlDel(f)

\* clear_invalid_event: the registration of f loses the events es.
ClearInvalidEvent(f, es) ==
    LET left == wait_events[f] \ es IN
    /\ wait_events' = [wait_events EXCEPT ![f] = left]
    /\ IF left # {} THEN CtlSet({f}, {}, [mask EXCEPT ![f] = left]) ELSE CtlDel(f)

\* fd_notify_events_to_poll for an event that nobody polls for,
NotifyNobody ==
    /\ stage = "batch"
    /\ evs # <<>>
    /\ Wanted(Head(evs)) = {}
    /\ ClearInvalidEvent(Head(evs).fd, Head(evs).events)
    /\ evs' = Tail(evs)
    /\ UNCHANGED <<level, poll_ctx, poll_vars, trying, dispatch, stage>>

\* Mutant: the timer of the poller is not cancelled.
NotifyPollKeepsTimer ==
    /\ stage = "batch"
    /\ evs # <<>>
    /\ LET e == Head(evs)
           c == poll_ctx[e.fd]
       IN  /\ Wanted(e) # {}
           /\ revents' = [revents EXCEPT ![c][e.fd] = Wanted(e)]
           /\ timer' = timer
           /\ dispatch' = Push(dispatch, c)
           /\ num_raise' = [num_raise EXCEPT ![c] = @ + 1]
    /\ evs' = Tail(evs)
    /\ UNCHANGED <<kernel_vars, item_vars, asked, parked, hooked, trying, stage>>

\* Mutant: num_raise is a flag.
NotifyPollCountsOnce ==
    /\ stage = "batch"
    /\ evs # <<>>
    /\ LET e == Head(evs)
           c == poll_ctx[e.fd]
       IN  /\ Wanted(e) # {}
           /\ revents' = [revents EXCEPT ![c][e.fd] = Wanted(e)]
           /\ timer' = timer \ {c}
           /\ dispatch' = Push(dispatch, c)
           /\ num_raise' = [num_raise EXCEPT ![c] = 1]
    /\ evs' = Tail(evs)
    /\ UNCHANGED <<kernel_vars, item_vars, asked, parked, hooked, trying, stage>>

\* and for one that has a poller.
NotifyPoll ==
    /\ stage = "batch"
    /\ evs # <<>>
    /\ LET e == Head(evs)
           c == poll_ctx[e.fd]
       IN  /\ Wanted(e) # {}
           /\ revents' = [revents EXCEPT ![c][e.fd] = Wanted(e)]
           /\ timer' = timer \ {c}
           /\ dispatch' = Push(dispatch, c)
           /\ num_raise' = [num_raise EXCEPT ![c] = @ + 1]
    /\ evs' = Tail(evs)
    /\ UNCHANGED <<kernel_vars, item_vars, asked, parked, hooked, trying, stage>>

EndBatch ==
    /\ stage = "batch"
    /\ evs = <<>>
    /\ stage' = "dispatch"
    /\ UNCHANGED <<kernel_vars, item_vars, poll_vars, trying, evs, dispatch>>

\* The next poller of the list is resumed.
Dispatch ==
    /\ stage = "dispatch"
    /\ trying = NoTry
    /\ dispatch # <<>>
    /\ dispatch' = Tail(dispatch)
    /\ EndPoll(Head(dispatch))
    /\ UNCHANGED <<timer, evs, stage>>

\* Mutant: the loop is left after the first poller.
EndDispatchEarly ==
    /\ stage = "dispatch"
    /\ trying = NoTry
    /\ stage' = "wait"
    /\ UNCHANGED <<kernel_vars, item_vars, poll_vars, trying, evs, dispatch>>

EndDispatch ==
    /\ stage = "dispatch"
    /\ trying = NoTry
    /\ dispatch = <<>>
    /\ stage' = "wait"
    /\ UNCHANGED <<kernel_vars, item_vars, poll_vars, trying, evs, dispatch>>

-----------------------------------------------------------------------------
Init ==
    /\ level = [f \in Fd |-> {}]
    /\ interest = {}
    /\ mask = [f \in Fd |-> {}]
    /\ rdl = <<>>
    /\ wait_events = [f \in Fd |-> {}]
    /\ poll_ctx = [f \in Fd |-> Nobody]
    /\ asked = [c \in Co |-> [f \in Fd |-> {}]]
    /\ revents = [c \in Co |-> [f \in Fd |-> {}]]
    /\ num_raise = [c \in Co |-> 0]
    /\ parked = {}
    /\ timer = {}
    /\ trying = NoTry
    /\ hooked = {}
    /\ evs = <<>>
    /\ dispatch = <<>>
    /\ stage = "wait"

NetEvent ==
    EpollWait \/ NotifyNobody \/ NotifyPoll \/ EndBatch \/ Dispatch \/ EndDispatch

Next ==
    \/ \E f \in Fd, e \in Ev : Raise(f, e)
    \/ \E c \in Co, a \in [Fd -> Ask \cup {{}}], timed \in BOOLEAN : Poll(c, a, timed)
    \/ \E f \in Fd, e \in {"in", "out"} : Transfer(f, e)
    \/ \E c \in Co, f \in Fd, e \in Dir : Try(c, f, e)
    \/ \E timed \in BOOLEAN : HookPoll(timed)
    \/ \E c \in Co : Timeout(c)
    \/ \E f \in Fd : Close(f)
    \/ NetEvent

Spec == Init /\ [][Next]_vars

(****************************************************************************)
(* The dispatch loop comes back to epoll_wait again and again and goes      *)
(* through the batch; a hook that has seen EAGAIN goes on to its poll.      *)
(****************************************************************************)
Fairness ==
    /\ SF_vars(NetEvent)
    /\ WF_vars(\E timed \in BOOLEAN : HookPoll(timed))

FairSpec == Spec /\ Fairness

-----------------------------------------------------------------------------
\* Properties.

\* Every variable has its type.
TypeOK ==
    /\ level \in [Fd -> SUBSET Ev]
    /\ interest \subseteq Fd
    /\ mask \in [Fd -> SUBSET Ev]
    /\ rdl \in Seq(Fd)
    /\ wait_events \in [Fd -> SUBSET Ev]
    /\ poll_ctx \in [Fd -> Co \cup {Nobody}]
    /\ asked \in [Co -> [Fd -> SUBSET Ev]]
    /\ revents \in [Co -> [Fd -> SUBSET Ev]]
    /\ num_raise \in [Co -> Nat]
    /\ parked \subseteq Co
    /\ timer \subseteq Co
    /\ trying = NoTry \/ trying \in [co : Co, fd : Fd, ev : SUBSET Ev]
    /\ hooked \subseteq Co
    /\ evs \in Seq([fd : Fd, events : (SUBSET Ev) \ {{}}])
    /\ dispatch \in Seq(Co)
    /\ stage \in {"wait", "batch", "dispatch"}
    /\ stage # "batch" => evs = <<>>
    /\ stage = "wait" => dispatch = <<>>

\* wait_events is what the kernel was asked for: no epoll_ctl of co_poll or
\* clear_invalid_event fails or is left out wrongly, whatever polls, timeouts,
\* late events and closes came before.
RegistrationKnown ==
    \A f \in Fd : /\ f \in interest <=> wait_events[f] # {}
                  /\ mask[f] = wait_events[f]

\* A wait item refers to a poll_ctx_t only while the poll that owns it (it is
\* on a coroutine's stack) goes on, and each poll has all of its descriptors
\* (poll_ctx_t::init, destruct_poll_ctx).
ContextsLive ==
    \A f \in Fd, c \in Co : poll_ctx[f] = c <=> c \in parked /\ asked[c][f] # {}

\* Whoever is on the dispatch list is still inside co_poll when its turn comes,
\* once, and its timer is off: no timeout overtakes an event that was taken from
\* the kernel (fd_notify_events_to_poll, proc_netevent).
DispatchLive ==
    /\ NoDup(dispatch)
    /\ \A c \in Elems(dispatch) : c \in parked \ timer

\* What co_poll returns is right: num_raise is the number of descriptors with
\* events, all of them asked for, and is positive just for the pollers on the
\* dispatch list, so that co_poll returns 0 only on timeout.
RaisedCounted ==
    \A c \in Co :
        /\ num_raise[c] = Cardinality(Polled(revents[c]))
        /\ num_raise[c] > 0 <=> c \in Elems(dispatch)
        /\ \A f \in Fd : revents[c][f] \subseteq asked[c][f]

\* An event that is on, of a descriptor on which a hook waits, is not lost: the
\* descriptor is on the ready list, the event in the batch, or the poller on the
\* dispatch list.  Edge-triggered registrations are enough for hooks that try
\* first (recv, send, write, ...).
NoLostEvent ==
    \A c \in parked \cap hooked : \A f \in Fd, e \in Ev :
        e \in asked[c][f] \cap level[f] =>
            \/ f \in Elems(rdl)
            \/ \E i \in 1..Len(evs) : evs[i].fd = f /\ e \in evs[i].events
            \/ c \in Elems(dispatch)

\* A hook does not wait forever for an event that is on.
HookWoken ==
    \A c \in Co : []<>~(/\ c \in parked \cap hooked
                        /\ \E f \in Fd : asked[c][f] \cap level[f] # {})
=============================================================================
