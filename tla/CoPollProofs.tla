---------------------------- MODULE CoPollProofs ----------------------------
(****************************************************************************)
(* co_poll and the loop of epoll, for every set of coroutines, descriptors  *)
(* and masks: no event is lost between the hooks and the edge-triggered     *)
(* registrations, no context outlives its frame, no poller is resumed       *)
(* twice, and co_poll returns what it counted.                              *)
(****************************************************************************)
EXTENDS CoPoll, ListProofs, FiniteSetTheorems, TLAPS

\* The ready list has a descriptor once; only pollers have a timer or are hooked.
ReadyOK == NoDup(rdl) /\ timer \subseteq parked /\ hooked \subseteq parked

\* A batch has a descriptor once, and what it has is not reported yet.
BatchOK ==
    /\ \A j, k \in 1..Len(evs) : evs[j].fd = evs[k].fd => j = k
    /\ \A j \in 1..Len(evs), c \in Co : revents[c][evs[j].fd] = {}

\* The kernel was asked for whatever somebody polls for.
Registered ==
    \A f \in Fd : poll_ctx[f] # Nobody => asked[poll_ctx[f]][f] \subseteq mask[f]

\* Between EAGAIN and the poll no batch begins, and an event of a registration that is
\* there already puts the descriptor on the ready list.
TryOK ==
    trying # NoTry =>
        /\ stage # "batch"
        /\ trying.co \notin parked
        /\ \A e \in trying.ev \cap level[trying.fd] :
             trying.fd \in interest /\ e \in mask[trying.fd] \cup Unasked =>
                 trying.fd \in Elems(rdl)

IInv ==
    /\ TypeOK /\ RegistrationKnown /\ ContextsLive /\ DispatchLive /\ RaisedCounted
    /\ NoLostEvent /\ ReadyOK /\ BatchOK /\ Registered /\ TryOK

-----------------------------------------------------------------------------
\* list_add_tail of something that may be on the list.
LEMMA PushFacts ==
    ASSUME NEW S, NEW q \in Seq(S), NEW x \in S
    PROVE  /\ Push(q, x) \in Seq(S)
           /\ Elems(Push(q, x)) = Elems(q) \cup {x}
           /\ NoDup(q) => NoDup(Push(q, x))
<1>1. CASE x \in Elems(q)
  BY <1>1 DEF Push
<1>2. CASE x \notin Elems(q)
  BY <1>2, AppendFacts DEF Push
<1> QED  BY <1>1, <1>2

\* The length of a sequence given as a function.
LEMMA TabulatedLen ==
    ASSUME NEW k \in Nat, NEW s, s = [j \in 1..k |-> s[j]]
    PROVE  Len(s) = k
  OBVIOUS

\* One list after another.
LEMMA ConcatFacts ==
    ASSUME NEW S, NEW s \in Seq(S), NEW t \in Seq(S)
    PROVE  /\ s \o t \in Seq(S)
           /\ Elems(s \o t) = Elems(s) \cup Elems(t)
           /\ NoDup(s) /\ NoDup(t) /\ Elems(s) \cap Elems(t) = {} => NoDup(s \o t)
<1>1. /\ s \o t \in Seq(S) /\ Len(s \o t) = Len(s) + Len(t)
      /\ Len(s) \in Nat /\ Len(t) \in Nat
  OBVIOUS
<1>2. /\ \A j \in 1..Len(s) : (s \o t)[j] = s[j]
      /\ \A j \in 1..Len(t) : (s \o t)[j + Len(s)] = t[j]
  OBVIOUS
<1>3. \A j \in 1..Len(s \o t) : j \in 1..Len(s) \/ (j - Len(s) \in 1..Len(t) /\ (s \o t)[j] = t[j - Len(s)])
  <2> TAKE j \in 1..Len(s \o t)
  <2>1. CASE j <= Len(s)
    BY <1>1, <2>1
  <2>2. CASE j > Len(s)
    <3>1. j - Len(s) \in 1..Len(t) /\ (j - Len(s)) + Len(s) = j
      BY <1>1, <2>2
    <3> QED  BY <1>2, <3>1
  <2> QED  BY <1>1, <2>1, <2>2
<1>4. Elems(s \o t) \subseteq Elems(s) \cup Elems(t)
  BY <1>1, <1>2, <1>3 DEF Elems
<1>5. Elems(s) \subseteq Elems(s \o t)
  BY <1>1, <1>2 DEF Elems
<1>6. Elems(t) \subseteq Elems(s \o t)
  <2> SUFFICES ASSUME NEW j \in 1..Len(t)
               PROVE  t[j] \in Elems(s \o t)
    BY DEF Elems
  <2>1. j + Len(s) \in 1..Len(s \o t)
    BY <1>1
  <2> QED  BY <1>2, <2>1 DEF Elems
<1>7. ASSUME NoDup(s), NoDup(t), Elems(s) \cap Elems(t) = {}
      PROVE  NoDup(s \o t)
  <2> SUFFICES ASSUME NEW j \in 1..Len(s \o t), NEW k \in 1..Len(s \o t), (s \o t)[j] = (s \o t)[k]
               PROVE  j = k
    BY DEF NoDup
  <2>1. CASE j \in 1..Len(s) /\ k \in 1..Len(s)
    BY <1>2, <1>7, <2>1 DEF NoDup
  <2>2. CASE j \in 1..Len(s) /\ k \notin 1..Len(s)
    <3>1. s[j] = t[k - Len(s)] /\ k - Len(s) \in 1..Len(t)
      BY <1>2, <1>3, <2>2
    <3> QED  BY <1>7, <2>2, <3>1, Zenon DEF Elems
  <2>3. CASE j \notin 1..Len(s) /\ k \in 1..Len(s)
    <3>1. s[k] = t[j - Len(s)] /\ j - Len(s) \in 1..Len(t)
      BY <1>2, <1>3, <2>3
    <3> QED  BY <1>7, <2>3, <3>1 DEF Elems
  <2>4. CASE j \notin 1..Len(s) /\ k \notin 1..Len(s)
    <3>1. /\ j - Len(s) \in 1..Len(t) /\ k - Len(s) \in 1..Len(t)
          /\ t[j - Len(s)] = t[k - Len(s)]
      BY <1>3, <2>4
    <3>2. j - Len(s) = k - Len(s)
      BY <1>7, <3>1 DEF NoDup
    <3> QED  BY <1>1, <3>2
  <2> QED  BY <2>1, <2>2, <2>3, <2>4
<1> QED  BY <1>1, <1>4, <1>5, <1>6, <1>7

\* A list without its first n entries.
LEMMA RestFacts ==
    ASSUME NEW S, NEW s \in Seq(S), NEW n \in 0..Len(s)
    PROVE  /\ SubSeq(s, n + 1, Len(s)) \in Seq(S)
           /\ Elems(s) = {s[j] : j \in 1..n} \cup Elems(SubSeq(s, n + 1, Len(s)))
           /\ NoDup(s) => NoDup(SubSeq(s, n + 1, Len(s)))
<1> DEFINE t == SubSeq(s, n + 1, Len(s))
<1>1. /\ t \in Seq(S) /\ Len(t) = Len(s) - n /\ Len(s) \in Nat /\ n \in Nat
      /\ \A j \in 1..Len(t) : t[j] = s[n + j]
  <2>1. Len(s) \in Nat /\ n \in Nat /\ n <= Len(s)
    OBVIOUS
  <2>2. t \in Seq(S) /\ Len(t) = Len(s) - n
    BY <2>1
  <2>3. \A j \in 1..(Len(s) - n) : t[j] = s[n + j]
    BY <2>1
  <2> QED  BY <2>1, <2>2, <2>3
<1> HIDE DEF t
<1>2. \A j \in 1..Len(t) : n + j \in 1..Len(s)
  BY <1>1
<1>3. Elems(s) \subseteq {s[j] : j \in 1..n} \cup Elems(t)
  <2> SUFFICES ASSUME NEW j \in 1..Len(s), j \notin 1..n
               PROVE  s[j] \in Elems(t)
    BY DEF Elems
  <2>1. j - n \in 1..Len(t) /\ n + (j - n) = j
    BY <1>1
  <2>2. t[j - n] = s[j]
    BY <1>1, <2>1
  <2> QED  BY <2>1, <2>2 DEF Elems
<1>4. {s[j] : j \in 1..n} \cup Elems(t) \subseteq Elems(s)
  <2>1. \A j \in 1..n : j \in 1..Len(s)
    BY <1>1
  <2>2. \A j \in 1..n : s[j] \in Elems(s)
    BY <2>1 DEF Elems
  <2>3. \A j \in 1..Len(t) : t[j] \in Elems(s)
    BY <1>1, <1>2 DEF Elems
  <2> QED  BY <2>2, <2>3 DEF Elems
<1>5. NoDup(s) => NoDup(t)
  <2> SUFFICES ASSUME NoDup(s), NEW j \in 1..Len(t), NEW k \in 1..Len(t), t[j] = t[k]
               PROVE  j = k
    BY DEF NoDup
  <2>1. n + j = n + k
    BY <1>1, <1>2 DEF NoDup
  <2> QED  BY <1>1, <2>1
<1>6. t \in Seq(S) /\ Elems(s) = {s[j] : j \in 1..n} \cup Elems(t)
  BY <1>1, <1>3, <1>4
<1> QED  BY <1>5, <1>6 DEF t

\* An order of a finite set has all of its members, by the pigeonhole principle.
LEMMA OrdersFacts ==
    ASSUME NEW T, NEW S \in SUBSET T, IsFiniteSet(S), NEW s \in Orders(S)
    PROVE  s \in Seq(T) /\ s \in Seq(S) /\ Elems(s) = S /\ NoDup(s)
<1>1. Cardinality(S) \in Nat
  BY FS_CardinalityType
<1>2. s \in [1..Cardinality(S) -> S] /\ NoDup(s)
  BY DEF Orders
<1>3. s \in Seq(S) /\ s \in Seq(T) /\ Len(s) = Cardinality(S)
  BY <1>1, <1>2
<1>4. s \in Injection(1..Cardinality(S), S)
  BY <1>2, <1>3 DEF Injection, IsInjective, NoDup
<1>5. Cardinality(1..Cardinality(S)) = Cardinality(S)
  BY <1>1, FS_Interval
<1>6. s \in Surjection(1..Cardinality(S), S)
  BY <1>4, <1>5, FS_Injection
<1>7. Elems(s) = S
  BY <1>2, <1>3, <1>6 DEF Elems, Surjection
<1> QED  BY <1>2, <1>3, <1>7

-----------------------------------------------------------------------------
\* The entries of a batch.
LEMMA BatchType ==
    ASSUME TypeOK
    PROVE  \A j \in 1..Len(evs) : evs[j].fd \in Fd /\ evs[j].events \in (SUBSET Ev) \ {{}}
<1> DEFINE E == [fd : Fd, events : (SUBSET Ev) \ {{}}]
<1>1. evs \in Seq(E)
  BY DEF TypeOK
<1>2. \A j \in 1..Len(evs) : evs[j] \in E
  <2> HIDE DEF E
  <2> QED  BY <1>1
<1> QED  BY <1>2

\* epoll_ctl with the right operation for each descriptor succeeds for all of them, and
\* puts those that have an event on the ready list.
LEMMA CtlSetFacts ==
    ASSUME TypeOK, NoDup(rdl), NEW fs \in SUBSET Fd, NEW add, NEW m \in [Fd -> SUBSET Ev],
           \A f \in fs : f \in add <=> f \notin interest,
           CtlSet(fs, add, m)
    PROVE  /\ interest' = interest \cup fs
           /\ mask' \in [Fd -> SUBSET Ev]
           /\ \A f \in Fd : mask'[f] = IF f \in fs THEN m[f] ELSE mask[f]
           /\ rdl' \in Seq(Fd) /\ NoDup(rdl') /\ Elems(rdl) \subseteq Elems(rdl')
           /\ \A f \in Fd : f \in Elems(rdl') <=>
                f \in Elems(rdl) \/ (f \in fs /\ Reported(f, m[f]) # {})
<1> DEFINE done == {f \in fs : (f \in add) # (f \in interest)}
           new == {f \in done : Reported(f, m[f]) # {}} \ Elems(rdl)
<1>1. done = fs
  OBVIOUS
<1>2. /\ interest' = interest \cup done
      /\ mask' = [f \in Fd |-> IF f \in done THEN m[f] ELSE mask[f]]
      /\ rdl' \in {rdl \o s : s \in Orders(new)}
  BY Zenon DEF CtlSet
<1>3. new \in SUBSET Fd /\ IsFiniteSet(new) /\ rdl \in Seq(Fd)
  <2>1. new \in SUBSET Fd /\ rdl \in Seq(Fd)
    BY DEF TypeOK
  <2> QED  BY <2>1, PollAssumption, FS_Subset
<1>4. PICK s \in Orders(new) : rdl' = rdl \o s
  BY <1>2, Zenon
<1> HIDE DEF new
<1>5. s \in Seq(Fd) /\ Elems(s) = new /\ NoDup(s)
  BY <1>3, OrdersFacts, Zenon
<1>6. Elems(rdl) \cap Elems(s) = {}
  BY <1>5 DEF new
<1>7. rdl' \in Seq(Fd) /\ NoDup(rdl') /\ Elems(rdl') = Elems(rdl) \cup new
  <2>1. /\ rdl \o s \in Seq(Fd) /\ Elems(rdl \o s) = Elems(rdl) \cup Elems(s)
        /\ NoDup(rdl) /\ NoDup(s) /\ Elems(rdl) \cap Elems(s) = {} => NoDup(rdl \o s)
    <3>1. rdl \in Seq(Fd) /\ s \in Seq(Fd)
      BY <1>3, <1>5
    <3> QED  BY <3>1, ConcatFacts
  <2> QED  BY <1>4, <1>5, <1>6, <2>1
<1>8. mask' \in [Fd -> SUBSET Ev] /\ \A f \in Fd : mask'[f] = IF f \in fs THEN m[f] ELSE mask[f]
  BY <1>1, <1>2 DEF TypeOK
<1> QED  BY <1>1, <1>2, <1>7, <1>8 DEF new

\* Whoever is not on the dispatch list has no events reported.
LEMMA NothingRaised ==
    ASSUME IInv, NEW c \in Co, c \notin Elems(dispatch)
    PROVE  \A f \in Fd : revents[c][f] = {}
<1>1. num_raise[c] = 0 /\ num_raise[c] = Cardinality(Polled(revents[c]))
  BY DEF IInv, RaisedCounted, TypeOK
<1>2. IsFiniteSet(Polled(revents[c]))
  BY PollAssumption, FS_Subset DEF Polled
<1>3. Polled(revents[c]) = {}
  BY <1>1, <1>2, FS_EmptySet
<1> QED  BY <1>3 DEF Polled

\* A step that leaves the registrations, the pollers and the batch alone.
LEMMA SameWaits ==
    ASSUME IInv, UNCHANGED <<interest, mask, wait_events, poll_ctx, asked, parked, timer, dispatch,
                             evs, revents>>
    PROVE  RegistrationKnown' /\ ContextsLive' /\ DispatchLive' /\ BatchOK' /\ Registered'
<1>1. RegistrationKnown'
  BY DEF IInv, RegistrationKnown
<1>2. ContextsLive'
  BY DEF IInv, ContextsLive
<1>3. DispatchLive'
  BY DEF IInv, DispatchLive
<1>4. BatchOK'
  BY DEF IInv, BatchOK
<1>5. Registered'
  BY DEF IInv, Registered
<1> QED  BY <1>1, <1>2, <1>3, <1>4, <1>5

\* A step that reports nothing.
LEMMA SameRaised ==
    ASSUME IInv, UNCHANGED <<num_raise, revents, dispatch, asked>>
    PROVE  RaisedCounted'
BY Zenon DEF IInv, RaisedCounted

\* What it takes that no event is lost, when the hooks and their events are the same.
LEMMA EventsKeptIf ==
    ASSUME UNCHANGED <<parked, hooked, asked, level, dispatch>>,
           \A d \in parked \cap hooked : \A f \in Fd, e \in Ev :
               e \in asked[d][f] \cap level[f] =>
                   \/ f \in Elems(rdl')
                   \/ \E j \in 1..Len(evs') : evs'[j].fd = f /\ e \in evs'[j].events
                   \/ d \in Elems(dispatch)
    PROVE  NoLostEvent'
<1> SUFFICES ASSUME NEW d \in parked' \cap hooked', NEW f \in Fd, NEW e \in Ev,
                    e \in asked'[d][f] \cap level'[f]
             PROVE  \/ f \in Elems(rdl')
                    \/ \E j \in 1..Len(evs') : evs'[j].fd = f /\ e \in evs'[j].events
                    \/ d \in Elems(dispatch')
  BY DEF NoLostEvent
<1>1. d \in parked \cap hooked /\ e \in asked[d][f] \cap level[f]
  OBVIOUS
<1> QED  BY <1>1

\* A step that leaves the events, the lists and the pollers alone.
LEMMA SameEvents ==
    ASSUME IInv, UNCHANGED <<parked, hooked, asked, level, rdl, evs, dispatch>>
    PROVE  NoLostEvent'
<1>1. NoLostEvent
  BY DEF IInv
<1>2. /\ parked' = parked /\ hooked' = hooked /\ asked' = asked /\ level' = level
      /\ rdl' = rdl /\ evs' = evs /\ dispatch' = dispatch
  OBVIOUS
<1> QED  BY <1>1, <1>2, Zenon DEF NoLostEvent

\* What the wait items and the pollers know of each other when a poll has begun.
LEMMA StartFacts ==
    ASSUME IInv, NEW c \in Co, NEW a \in [Fd -> SUBSET Ev], NEW timed \in BOOLEAN,
           c \notin parked, StartPoll(c, a, timed)
    PROVE  /\ wait_events' \in [Fd -> SUBSET Ev] /\ mask' = wait_events'
           /\ \A f \in Fd : wait_events'[f] = wait_events[f] \cup a[f]
           /\ interest' \subseteq Fd
           /\ \A f \in Fd : f \in interest' <=> wait_events'[f] # {}
           /\ rdl' \in Seq(Fd) /\ NoDup(rdl') /\ Elems(rdl) \subseteq Elems(rdl')
           /\ \A f \in Fd : \A e \in a[f] \cap level[f] :
                ~(a[f] \subseteq mask[f]) => f \in Elems(rdl')
           /\ \A f \in Fd : a[f] # {} => poll_ctx[f] = Nobody
           /\ \A f \in Fd : poll_ctx'[f] = IF a[f] # {} THEN c ELSE poll_ctx[f]
           /\ poll_ctx' \in [Fd -> Co \cup {Nobody}]
           /\ asked' \in [Co -> [Fd -> SUBSET Ev]] /\ asked'[c] = a
           /\ \A d \in Co \ {c} : asked'[d] = asked[d]
           /\ c \notin Elems(dispatch) /\ \A f \in Fd : revents[c][f] = {}
<1> DEFINE new == [f \in Fd |-> wait_events[f] \cup a[f]]
           fs == {f \in Fd : new[f] # wait_events[f]}
           add == {f \in Fd : wait_events[f] = {}}
<1>0. TypeOK /\ RegistrationKnown /\ NoDup(rdl)
  BY DEF IInv, ReadyOK
<1>1. /\ \A f \in Polled(a) : poll_ctx[f] = Nobody
      /\ poll_ctx' = [f \in Fd |-> IF f \in Polled(a) THEN c ELSE poll_ctx[f]]
      /\ wait_events' = new
      /\ CtlSet(fs, add, new)
      /\ level' = level
      /\ asked' = [asked EXCEPT ![c] = a]
  BY Zenon DEF StartPoll
<1>2. new \in [Fd -> SUBSET Ev] /\ fs \in SUBSET Fd /\ \A f \in Fd : new[f] = wait_events[f] \cup a[f]
  BY <1>0 DEF TypeOK
<1>3. \A f \in fs : f \in add <=> f \notin interest
  BY <1>0 DEF RegistrationKnown
<1>4. /\ interest' = interest \cup fs
      /\ mask' \in [Fd -> SUBSET Ev]
      /\ \A f \in Fd : mask'[f] = IF f \in fs THEN new[f] ELSE mask[f]
      /\ rdl' \in Seq(Fd) /\ NoDup(rdl') /\ Elems(rdl) \subseteq Elems(rdl')
      /\ \A f \in Fd : f \in Elems(rdl') <=>
           f \in Elems(rdl) \/ (f \in fs /\ Reported(f, new[f]) # {})
  <2>1. TypeOK /\ NoDup(rdl) /\ CtlSet(fs, add, new)
    BY <1>0, <1>1
  <2>2. fs \in SUBSET Fd /\ new \in [Fd -> SUBSET Ev]
    BY <1>2
  <2> HIDE DEF new, fs, add
  <2> QED  BY <1>3, <2>1, <2>2, CtlSetFacts, Zenon
<1>5. mask' = new
  <2>1. \A f \in Fd : mask'[f] = new[f]
    BY <1>0, <1>4 DEF RegistrationKnown
  <2> QED  BY <1>2, <1>4, <2>1
<1>6. interest' \subseteq Fd /\ \A f \in Fd : f \in interest' <=> new[f] # {}
  BY <1>0, <1>2, <1>4 DEF RegistrationKnown, TypeOK
<1>7. ASSUME NEW f \in Fd, NEW e \in a[f] \cap level[f], ~(a[f] \subseteq mask[f])
      PROVE  f \in Elems(rdl')
  <2>1. f \in fs
    BY <1>0, <1>2, <1>7 DEF RegistrationKnown
  <2>2. e \in Reported(f, new[f])
    BY <1>2, <1>7 DEF Reported
  <2> QED  BY <1>4, <2>1, <2>2
<1>8. \A f \in Fd : a[f] # {} <=> f \in Polled(a)
  BY DEF Polled
<1>9. /\ poll_ctx' \in [Fd -> Co \cup {Nobody}]
      /\ asked' \in [Co -> [Fd -> SUBSET Ev]] /\ asked'[c] = a
      /\ \A d \in Co \ {c} : asked'[d] = asked[d]
  BY <1>0, <1>1 DEF TypeOK
<1>10. c \notin Elems(dispatch)
  BY DEF IInv, DispatchLive
<1>11. \A f \in Fd : revents[c][f] = {}
  BY <1>10, NothingRaised
<1>12. \A f \in Fd : poll_ctx'[f] = IF a[f] # {} THEN c ELSE poll_ctx[f]
  BY <1>1, <1>8
<1>13. \A f \in Fd : a[f] # {} => poll_ctx[f] = Nobody
  BY <1>1, <1>8
<1>14. Elems(rdl) \subseteq Elems(rdl')
  BY <1>4
<1>15. wait_events' = new
  BY <1>1
<1> HIDE DEF new
<1> QED  BY <1>2, <1>4, <1>5, <1>6, <1>7, <1>9, <1>10, <1>11, <1>12, <1>13, <1>14, <1>15

\* Beginning a poll keeps all but what is said of hooks.
LEMMA StartKeeps ==
    ASSUME IInv, NEW c \in Co, NEW a \in [Fd -> SUBSET Ev], NEW timed \in BOOLEAN,
           c \notin parked, StartPoll(c, a, timed), trying' = NoTry,
           hooked' \in {hooked, hooked \cup {c}}
    PROVE  /\ TypeOK' /\ RegistrationKnown' /\ ContextsLive' /\ DispatchLive' /\ RaisedCounted'
           /\ ReadyOK' /\ BatchOK' /\ Registered' /\ TryOK'
<1>0. TypeOK /\ RegistrationKnown
  BY DEF IInv
<1>1. /\ level' = level /\ parked' = parked \cup {c} /\ timer' \in {timer, timer \cup {c}}
      /\ UNCHANGED <<revents, num_raise, evs, dispatch, stage>>
  BY Zenon DEF StartPoll, loop_vars
<1>2. /\ wait_events' \in [Fd -> SUBSET Ev] /\ mask' = wait_events'
      /\ \A f \in Fd : wait_events'[f] = wait_events[f] \cup a[f]
      /\ interest' \subseteq Fd
      /\ \A f \in Fd : f \in interest' <=> wait_events'[f] # {}
      /\ rdl' \in Seq(Fd) /\ NoDup(rdl')
      /\ \A f \in Fd : a[f] # {} => poll_ctx[f] = Nobody
      /\ \A f \in Fd : poll_ctx'[f] = IF a[f] # {} THEN c ELSE poll_ctx[f]
      /\ poll_ctx' \in [Fd -> Co \cup {Nobody}]
      /\ asked' \in [Co -> [Fd -> SUBSET Ev]] /\ asked'[c] = a
      /\ \A d \in Co \ {c} : asked'[d] = asked[d]
      /\ c \notin Elems(dispatch) /\ \A f \in Fd : revents[c][f] = {}
  BY StartFacts
<1>3. TypeOK'
  BY <1>0, <1>1, <1>2 DEF TypeOK
<1>4. RegistrationKnown'
  BY <1>2 DEF RegistrationKnown
<1>5. ContextsLive'
  <2> SUFFICES ASSUME NEW f \in Fd, NEW d \in Co
               PROVE  poll_ctx'[f] = d <=> d \in parked' /\ asked'[d][f] # {}
    BY DEF ContextsLive
  <2>0. Nobody \notin Co
    BY PollAssumption
  <2>1. poll_ctx[f] = d <=> d \in parked /\ asked[d][f] # {}
    BY DEF IInv, ContextsLive
  <2>2. CASE d = c
    BY <1>1, <1>2, <2>1, <2>2
  <2>3. CASE d # c
    BY <1>1, <1>2, <2>0, <2>1, <2>3
  <2> QED  BY <2>2, <2>3
<1>6. DispatchLive'
  BY <1>1, <1>2 DEF IInv, DispatchLive
<1>7. RaisedCounted'
  <2> SUFFICES ASSUME NEW d \in Co
               PROVE  /\ num_raise'[d] = Cardinality(Polled(revents'[d]))
                      /\ num_raise'[d] > 0 <=> d \in Elems(dispatch')
                      /\ \A f \in Fd : revents'[d][f] \subseteq asked'[d][f]
    BY DEF RaisedCounted
  <2>1. /\ num_raise[d] = Cardinality(Polled(revents[d]))
        /\ num_raise[d] > 0 <=> d \in Elems(dispatch)
        /\ \A f \in Fd : revents[d][f] \subseteq asked[d][f]
    BY DEF IInv, RaisedCounted
  <2>2. \A f \in Fd : revents'[d][f] \subseteq asked'[d][f]
    BY <1>1, <1>2, <2>1
  <2> QED  BY <1>1, <2>1, <2>2
<1>8. ReadyOK'
  BY <1>1, <1>2 DEF IInv, ReadyOK
<1>9. BatchOK'
  BY <1>1 DEF IInv, BatchOK
<1>10. Registered'
  <2> SUFFICES ASSUME NEW f \in Fd, poll_ctx'[f] # Nobody
               PROVE  asked'[poll_ctx'[f]][f] \subseteq mask'[f]
    BY DEF Registered
  <2>1. CASE a[f] # {}
    BY <1>2, <2>1
  <2>2. CASE a[f] = {}
    <3>1. poll_ctx'[f] = poll_ctx[f] /\ poll_ctx[f] \in Co /\ poll_ctx[f] # c
      BY <1>0, <1>2, <2>2 DEF IInv, ContextsLive, TypeOK
    <3>2. asked[poll_ctx[f]][f] \subseteq mask[f]
      BY <3>1, PollAssumption DEF IInv, Registered
    <3> QED  BY <1>0, <1>2, <3>1, <3>2 DEF RegistrationKnown
  <2> QED  BY <2>1, <2>2
<1>11. TryOK'
  BY DEF TryOK
<1> QED  BY <1>3, <1>4, <1>5, <1>6, <1>7, <1>8, <1>9, <1>10, <1>11

\* poll(), called whatever the events are.
LEMMA PollKeeps ==
    ASSUME IInv, NEW c \in Co, NEW a \in [Fd -> Ask \cup {{}}], NEW timed \in BOOLEAN,
           Poll(c, a, timed)
    PROVE  IInv'
<1>1. /\ c \notin parked /\ StartPoll(c, a, timed)
      /\ trying' = NoTry /\ hooked' = hooked
  BY DEF Poll, UserRuns
<1>2. a \in [Fd -> SUBSET Ev]
  BY PollAssumption
<1>3. /\ level' = level /\ parked' = parked \cup {c}
      /\ UNCHANGED <<evs, dispatch>>
  BY <1>1, Zenon DEF StartPoll, loop_vars
<1>4. /\ Elems(rdl) \subseteq Elems(rdl')
      /\ \A d \in Co \ {c} : asked'[d] = asked[d]
  BY <1>1, <1>2, StartFacts
<1>5. NoLostEvent'
  <2> SUFFICES ASSUME NEW d \in parked' \cap hooked', NEW f \in Fd, NEW e \in Ev,
                      e \in asked'[d][f] \cap level'[f]
               PROVE  \/ f \in Elems(rdl')
                      \/ \E j \in 1..Len(evs') : evs'[j].fd = f /\ e \in evs'[j].events
                      \/ d \in Elems(dispatch')
    BY DEF NoLostEvent
  <2>1. d \in parked \cap hooked /\ d \in Co \ {c}
    BY <1>1, <1>3 DEF IInv, ReadyOK, TypeOK
  <2>2. \/ f \in Elems(rdl)
        \/ \E j \in 1..Len(evs) : evs[j].fd = f /\ e \in evs[j].events
        \/ d \in Elems(dispatch)
    BY <1>3, <1>4, <2>1 DEF IInv, NoLostEvent
  <2> QED  BY <1>3, <1>4, <2>2
<1> QED  BY <1>1, <1>2, <1>5, StartKeeps DEF IInv

\* The poll of a hook after EAGAIN.  If the registration has all of its events, one that
\* came since has put the descriptor on the ready list; otherwise epoll_ctl looks.
LEMMA HookPollKeeps ==
    ASSUME IInv, NEW timed \in BOOLEAN, HookPoll(timed)
    PROVE  IInv'
<1> DEFINE c == trying.co
           a == [f \in Fd |-> IF f = trying.fd THEN trying.ev ELSE {}]
<1>1. /\ trying # NoTry /\ StartPoll(c, a, timed)
      /\ trying' = NoTry /\ hooked' = hooked \cup {c}
  BY DEF HookPoll
<1>2. trying.co \in Co /\ trying.fd \in Fd /\ trying.ev \in SUBSET Ev
  BY <1>1 DEF IInv, TypeOK
<1>3. c \in Co /\ c \notin parked /\ a \in [Fd -> SUBSET Ev]
  BY <1>1, <1>2 DEF IInv, TryOK
<1>4. /\ level' = level /\ parked' = parked \cup {c}
      /\ UNCHANGED <<evs, dispatch>>
  BY <1>1, Zenon DEF StartPoll, loop_vars
<1>5. /\ Elems(rdl) \subseteq Elems(rdl') /\ asked'[c] = a
      /\ \A d \in Co \ {c} : asked'[d] = asked[d]
      /\ \A f \in Fd : \A e \in a[f] \cap level[f] :
           ~(a[f] \subseteq mask[f]) => f \in Elems(rdl')
  <2> HIDE DEF a
  <2> QED  BY <1>1, <1>3, StartFacts
<1>6. NoLostEvent'
  <2> SUFFICES ASSUME NEW d \in parked' \cap hooked', NEW f \in Fd, NEW e \in Ev,
                      e \in asked'[d][f] \cap level'[f]
               PROVE  \/ f \in Elems(rdl')
                      \/ \E j \in 1..Len(evs') : evs'[j].fd = f /\ e \in evs'[j].events
                      \/ d \in Elems(dispatch')
    BY DEF NoLostEvent
  <2>1. CASE d = c
    <3>1. f = trying.fd /\ e \in trying.ev \cap level[trying.fd] /\ a[f] = trying.ev
      BY <1>4, <1>5, <2>1
    <3>2. CASE trying.ev \subseteq mask[f]
      <4>1. e \in mask[f] /\ f \in interest
        BY <3>1, <3>2 DEF IInv, RegistrationKnown
      <4>2. f \in Elems(rdl)
        BY <1>1, <3>1, <4>1 DEF IInv, TryOK
      <4> QED  BY <1>5, <4>2
    <3>3. CASE ~(trying.ev \subseteq mask[f])
      BY <1>5, <3>1, <3>3
    <3> QED  BY <3>2, <3>3
  <2>2. CASE d # c
    <3>1. d \in parked \cap hooked /\ d \in Co \ {c}
      BY <1>1, <1>4, <2>2 DEF IInv, TypeOK
    <3>2. \/ f \in Elems(rdl)
          \/ \E j \in 1..Len(evs) : evs[j].fd = f /\ e \in evs[j].events
          \/ d \in Elems(dispatch)
      BY <1>4, <1>5, <3>1 DEF IInv, NoLostEvent
    <3> QED  BY <1>4, <1>5, <3>2
  <2> QED  BY <2>1, <2>2
<1> HIDE DEF a
<1>7. /\ TypeOK' /\ RegistrationKnown' /\ ContextsLive' /\ DispatchLive' /\ RaisedCounted'
      /\ ReadyOK' /\ BatchOK' /\ Registered' /\ TryOK'
  BY <1>1, <1>3, StartKeeps
<1> QED  BY <1>6, <1>7 DEF IInv

-----------------------------------------------------------------------------
\* The kernel raises an event: of whatever somebody waits for, the descriptor is
\* registered, and gets on the ready list.
LEMMA RaiseKeeps ==
    ASSUME IInv, NEW f \in Fd, NEW e \in Ev, Raise(f, e)
    PROVE  IInv'
<1>0. TypeOK
  BY DEF IInv
<1>1. /\ level' = [level EXCEPT ![f] = @ \cup {e}]
      /\ rdl' = IF f \in interest /\ e \in mask[f] \cup Unasked THEN Push(rdl, f) ELSE rdl
      /\ UNCHANGED <<interest, mask, wait_events, poll_ctx, asked, revents, num_raise, parked,
                     timer, hooked, trying, evs, dispatch, stage>>
  BY DEF Raise, item_vars, poll_vars, loop_vars
<1>2. /\ level' \in [Fd -> SUBSET Ev]
      /\ \A g \in Fd : level'[g] = IF g = f THEN level[f] \cup {e} ELSE level[g]
  BY <1>0, <1>1 DEF TypeOK
<1>3. /\ Push(rdl, f) \in Seq(Fd) /\ Elems(Push(rdl, f)) = Elems(rdl) \cup {f}
      /\ NoDup(Push(rdl, f))
  BY <1>0, PushFacts DEF IInv, ReadyOK, TypeOK
<1>4. /\ rdl' \in Seq(Fd) /\ NoDup(rdl') /\ Elems(rdl) \subseteq Elems(rdl')
      /\ f \in interest /\ e \in mask[f] \cup Unasked => f \in Elems(rdl')
  BY <1>0, <1>1, <1>3 DEF IInv, ReadyOK, TypeOK
<1>5. TypeOK'
  BY <1>0, <1>1, <1>2, <1>4 DEF TypeOK
<1>6. /\ RegistrationKnown' /\ ContextsLive' /\ DispatchLive' /\ BatchOK' /\ Registered'
  BY <1>1, SameWaits
<1>7. RaisedCounted'
  BY <1>1, SameRaised
<1>8. ReadyOK'
  BY <1>1, <1>4 DEF IInv, ReadyOK
<1>9. NoLostEvent'
  <2> SUFFICES ASSUME NEW d \in parked \cap hooked, NEW g \in Fd, NEW x \in Ev,
                      x \in asked[d][g] \cap level'[g]
               PROVE  \/ g \in Elems(rdl')
                      \/ \E j \in 1..Len(evs) : evs[j].fd = g /\ x \in evs[j].events
                      \/ d \in Elems(dispatch)
    BY <1>1 DEF NoLostEvent
  <2>1. CASE x \in level[g]
    BY <1>4, <2>1 DEF IInv, NoLostEvent
  <2>2. CASE x \notin level[g]
    <3>1. g = f /\ x = e
      BY <1>2, <2>2
    <3>2. poll_ctx[f] = d /\ d \in Co /\ d # Nobody
      <4>1. d \in Co /\ d # Nobody
        BY <1>0, PollAssumption DEF TypeOK
      <4>2. d \in parked /\ asked[d][f] # {}
        BY <3>1
      <4> QED  BY <4>1, <4>2, Zenon DEF IInv, ContextsLive
    <3>3. asked[d][f] \subseteq mask[f]
      BY <3>2 DEF IInv, Registered
    <3>4. e \in mask[f] /\ f \in interest
      BY <3>1, <3>3 DEF IInv, RegistrationKnown
    <3> QED  BY <1>4, <3>1, <3>4
  <2> QED  BY <2>1, <2>2
<1>10. TryOK'
  <2> SUFFICES ASSUME trying # NoTry, NEW x \in trying.ev \cap level'[trying.fd],
                      trying.fd \in interest, x \in mask[trying.fd] \cup Unasked
               PROVE  trying.fd \in Elems(rdl')
    BY <1>1 DEF IInv, TryOK
  <2>1. trying.fd \in Fd
    BY <1>0 DEF TypeOK
  <2>2. CASE x \in level[trying.fd]
    BY <1>4, <2>2 DEF IInv, TryOK
  <2>3. CASE x \notin level[trying.fd]
    BY <1>2, <1>4, <2>1, <2>3
  <2> QED  BY <2>2, <2>3
<1> QED  BY <1>5, <1>6, <1>7, <1>8, <1>9, <1>10 DEF IInv

\* A call that goes through at once, and one that gets EAGAIN.
LEMMA TransferKeeps ==
    ASSUME IInv, NEW f \in Fd, NEW e \in {"in", "out"}, Transfer(f, e)
    PROVE  IInv'
<1>0. TypeOK
  BY DEF IInv
<1>1. /\ level' \in {level, [level EXCEPT ![f] = @ \ {e}]} /\ trying = NoTry
      /\ UNCHANGED <<interest, mask, rdl, wait_events, poll_ctx, asked, revents, num_raise, parked,
                     timer, hooked, trying, evs, dispatch, stage>>
  BY DEF Transfer, UserRuns, item_vars, poll_vars, loop_vars
<1>2. level' \in [Fd -> SUBSET Ev] /\ \A g \in Fd : level'[g] \subseteq level[g]
  <2>1. CASE level' = level
    BY <1>0, <2>1 DEF TypeOK
  <2>2. CASE level' = [level EXCEPT ![f] = @ \ {e}]
    <3>1. level \in [Fd -> SUBSET Ev]
      BY <1>0 DEF TypeOK
    <3> QED  BY <2>2, <3>1
  <2> QED  BY <1>1, <2>1, <2>2
<1>3. TypeOK'
  BY <1>0, <1>1, <1>2 DEF TypeOK
<1>4. /\ RegistrationKnown' /\ ContextsLive' /\ DispatchLive' /\ BatchOK' /\ Registered'
  BY <1>1, SameWaits
<1>5. RaisedCounted'
  BY <1>1, SameRaised
<1>6. NoLostEvent'
  BY <1>1, <1>2, Zenon DEF IInv, NoLostEvent
<1>7. ReadyOK'
  BY <1>1 DEF IInv, ReadyOK
<1>8. TryOK'
  BY <1>1 DEF TryOK
<1> QED  BY <1>3, <1>4, <1>5, <1>6, <1>7, <1>8 DEF IInv

\* A hook gets EAGAIN.
LEMMA TryKeeps ==
    ASSUME IInv, NEW c \in Co, NEW f \in Fd, NEW e \in Dir, Try(c, f, e)
    PROVE  IInv'
<1>0. TypeOK
  BY DEF IInv
<1>1. /\ stage # "batch" /\ c \notin parked /\ level[f] \cap {e, "hup"} = {}
      /\ trying' = [co |-> c, fd |-> f, ev |-> {e, "hup"}]
      /\ UNCHANGED <<level, interest, mask, rdl, wait_events, poll_ctx, asked, revents, num_raise,
                     parked, timer, hooked, evs, dispatch, stage>>
  BY DEF Try, UserRuns, kernel_vars, item_vars, poll_vars, loop_vars
<1>2. {e, "hup"} \in SUBSET Ev
  BY PollAssumption DEF Ev
<1>3. TypeOK'
  BY <1>0, <1>1, <1>2 DEF TypeOK
<1>4. /\ RegistrationKnown' /\ ContextsLive' /\ DispatchLive' /\ BatchOK' /\ Registered'
  BY <1>1, SameWaits
<1>5. RaisedCounted'
  BY <1>1, SameRaised
<1>6. TryOK'
  BY <1>1 DEF TryOK
<1>7. ReadyOK'
  BY <1>1 DEF IInv, ReadyOK
<1>8. NoLostEvent'
  BY <1>1, SameEvents
<1> QED  BY <1>3, <1>4, <1>5, <1>6, <1>7, <1>8 DEF IInv

\* The end of a poll, of a coroutine that is not on the dispatch list any more.
LEMMA EndKeeps ==
    ASSUME IInv, NEW c \in parked, EndPoll(c), trying = NoTry,
           timer' \subseteq timer \ {c},
           evs' = evs, stage' = stage, dispatch' \in Seq(Co), NoDup(dispatch'),
           stage = "wait" => dispatch' = <<>>,
           Elems(dispatch') = Elems(dispatch) \ {c}
    PROVE  IInv'
<1>0. TypeOK /\ c \in Co
  BY DEF IInv, TypeOK
<1>1. /\ parked' = parked \ {c}
      /\ poll_ctx' = [f \in Fd |-> IF f \in Polled(asked[c]) THEN Nobody ELSE poll_ctx[f]]
      /\ asked' = [asked EXCEPT ![c] = [f \in Fd |-> {}]]
      /\ revents' = [revents EXCEPT ![c] = [f \in Fd |-> {}]]
      /\ num_raise' = [num_raise EXCEPT ![c] = 0]
      /\ hooked' = hooked \ {c}
      /\ UNCHANGED <<level, interest, mask, rdl, wait_events, trying>>
  BY DEF EndPoll, kernel_vars
<1>2. \A f \in Fd : poll_ctx'[f] = IF asked[c][f] # {} THEN Nobody ELSE poll_ctx[f]
  BY <1>1 DEF Polled
<1>3. /\ asked' \in [Co -> [Fd -> SUBSET Ev]] /\ \A f \in Fd : asked'[c][f] = {}
      /\ \A d \in Co \ {c} : asked'[d] = asked[d]
  BY <1>0, <1>1 DEF TypeOK
<1>4. /\ revents' \in [Co -> [Fd -> SUBSET Ev]] /\ \A f \in Fd : revents'[c][f] = {}
      /\ \A d \in Co \ {c} : revents'[d] = revents[d]
      /\ num_raise' \in [Co -> Nat] /\ num_raise'[c] = 0
      /\ \A d \in Co \ {c} : num_raise'[d] = num_raise[d]
  BY <1>0, <1>1 DEF TypeOK
<1>5. TypeOK'
  <2>1. poll_ctx' \in [Fd -> Co \cup {Nobody}]
    BY <1>0, <1>1 DEF TypeOK
  <2> QED  BY <1>0, <1>1, <1>3, <1>4, <2>1 DEF TypeOK
<1>6. RegistrationKnown'
  BY <1>1 DEF IInv, RegistrationKnown
<1>7. ContextsLive'
  <2> SUFFICES ASSUME NEW f \in Fd, NEW d \in Co
               PROVE  poll_ctx'[f] = d <=> d \in parked' /\ asked'[d][f] # {}
    BY DEF ContextsLive
  <2>1. /\ poll_ctx[f] = d <=> d \in parked /\ asked[d][f] # {}
        /\ poll_ctx[f] = c <=> c \in parked /\ asked[c][f] # {}
    BY <1>0 DEF IInv, ContextsLive
  <2>2. CASE d = c
    BY <1>1, <1>2, <2>1, <2>2, PollAssumption
  <2>3. CASE d # c
    BY <1>1, <1>2, <1>3, <2>1, <2>3, PollAssumption
  <2> QED  BY <2>2, <2>3
<1>8. DispatchLive'
  BY <1>1 DEF IInv, DispatchLive
<1>9. RaisedCounted'
  <2> SUFFICES ASSUME NEW d \in Co
               PROVE  /\ num_raise'[d] = Cardinality(Polled(revents'[d]))
                      /\ num_raise'[d] > 0 <=> d \in Elems(dispatch')
                      /\ \A f \in Fd : revents'[d][f] \subseteq asked'[d][f]
    BY DEF RaisedCounted
  <2>1. CASE d = c
    <3>1. Polled(revents'[c]) = {}
      BY <1>4 DEF Polled
    <3>2. num_raise'[d] = 0 /\ num_raise'[d] = Cardinality(Polled(revents'[d]))
      BY <1>4, <2>1, <3>1, FS_EmptySet
    <3>3. d \notin Elems(dispatch')
      BY <2>1
    <3>4. \A f \in Fd : revents'[d][f] \subseteq asked'[d][f]
      BY <1>4, <2>1
    <3> QED  BY <3>2, <3>3, <3>4
  <2>2. CASE d # c
    <3>1. /\ num_raise[d] = Cardinality(Polled(revents[d]))
          /\ num_raise[d] > 0 <=> d \in Elems(dispatch)
          /\ \A f \in Fd : revents[d][f] \subseteq asked[d][f]
      BY DEF IInv, RaisedCounted
    <3> QED  BY <1>3, <1>4, <2>2, <3>1, Zenon
  <2> QED  BY <2>1, <2>2
<1>10. ReadyOK'
  BY <1>1 DEF IInv, ReadyOK, TypeOK
<1>11. BatchOK'
  <2>1. \A j \in 1..Len(evs) : evs[j].fd \in Fd
    BY <1>0, BatchType
  <2>2. ASSUME NEW j \in 1..Len(evs), NEW d \in Co
        PROVE  revents'[d][evs[j].fd] = {}
    BY <1>4, <2>1 DEF IInv, BatchOK
  <2> QED  BY <2>2, Zenon DEF IInv, BatchOK
<1>12. Registered'
  <2> SUFFICES ASSUME NEW f \in Fd, poll_ctx'[f] # Nobody
               PROVE  asked'[poll_ctx'[f]][f] \subseteq mask[f]
    BY <1>1 DEF Registered
  <2>1. poll_ctx'[f] = poll_ctx[f] /\ asked[c][f] = {} /\ poll_ctx[f] \in Co
    BY <1>0, <1>2 DEF TypeOK
  <2>2. poll_ctx[f] # c
    BY <1>0, <2>1 DEF IInv, ContextsLive
  <2> QED  BY <1>3, <2>1, <2>2, Zenon DEF IInv, Registered
<1>13. NoLostEvent'
  <2> SUFFICES ASSUME NEW d \in parked' \cap hooked', NEW f \in Fd, NEW e \in Ev,
                      e \in asked'[d][f] \cap level[f]
               PROVE  \/ f \in Elems(rdl)
                      \/ \E j \in 1..Len(evs) : evs[j].fd = f /\ e \in evs[j].events
                      \/ d \in Elems(dispatch')
    BY <1>1 DEF NoLostEvent
  <2>1. d \in parked \cap hooked /\ d \in Co \ {c}
    BY <1>0, <1>1 DEF TypeOK
  <2>2. \/ f \in Elems(rdl)
        \/ \E j \in 1..Len(evs) : evs[j].fd = f /\ e \in evs[j].events
        \/ d \in Elems(dispatch)
    BY <1>3, <2>1 DEF IInv, NoLostEvent
  <2> QED  BY <2>1, <2>2
<1>14. TryOK'
  BY <1>1 DEF TryOK
<1> QED  BY <1>5, <1>6, <1>7, <1>8, <1>9, <1>10, <1>11, <1>12, <1>13, <1>14 DEF IInv

\* A timeout: its coroutine is not on the dispatch list, for that would have cancelled
\* the timer.
LEMMA TimeoutKeeps ==
    ASSUME IInv, NEW c \in Co, Timeout(c)
    PROVE  IInv'
<1>1. /\ c \in timer /\ timer' = timer \ {c} /\ EndPoll(c) /\ trying = NoTry
      /\ UNCHANGED <<evs, dispatch, stage>>
  BY DEF Timeout, UserRuns, loop_vars
<1>2. c \in parked /\ c \notin Elems(dispatch)
  BY <1>1 DEF IInv, ReadyOK, DispatchLive
<1>3. /\ dispatch \in Seq(Co) /\ NoDup(dispatch)
      /\ stage = "wait" => dispatch = <<>>
  BY DEF IInv, TypeOK, DispatchLive
<1>4. Elems(dispatch') = Elems(dispatch) \ {c}
  BY <1>1, <1>2
<1> QED  BY <1>1, <1>2, <1>3, <1>4, EndKeeps

\* The next poller of the dispatch list returns.
LEMMA DispatchKeeps ==
    ASSUME IInv, Dispatch
    PROVE  IInv'
<1> DEFINE c == Head(dispatch)
<1>1. /\ stage = "dispatch" /\ trying = NoTry /\ dispatch # <<>> /\ dispatch' = Tail(dispatch)
      /\ EndPoll(c) /\ UNCHANGED <<timer, evs, stage>>
  BY DEF Dispatch
<1>2. dispatch \in Seq(Co) /\ NoDup(dispatch)
  BY DEF IInv, TypeOK, DispatchLive
<1>3. /\ Tail(dispatch) \in Seq(Co) /\ NoDup(Tail(dispatch))
      /\ Elems(dispatch) = {c} \cup Elems(Tail(dispatch)) /\ c \notin Elems(Tail(dispatch))
  BY <1>1, <1>2, TailFacts
<1>4. c \in parked /\ c \notin timer
  BY <1>3 DEF IInv, DispatchLive
<1>5. Elems(dispatch') = Elems(dispatch) \ {c} /\ timer' \subseteq timer \ {c}
  BY <1>1, <1>3, <1>4
<1> HIDE DEF c
<1> QED  BY <1>1, <1>3, <1>4, <1>5, EndKeeps

\* A descriptor that nobody polls is closed.
LEMMA CloseKeeps ==
    ASSUME IInv, NEW f \in Fd, Close(f)
    PROVE  IInv'
<1>0. TypeOK
  BY DEF IInv
<1>1. /\ poll_ctx[f] = Nobody /\ trying = NoTry
      /\ wait_events' = [wait_events EXCEPT ![f] = {}]
      /\ interest' = interest \ {f}
      /\ mask' = [mask EXCEPT ![f] = {}]
      /\ rdl' = Unlink(rdl, f)
      /\ level' = [level EXCEPT ![f] = {}]
      /\ UNCHANGED <<poll_ctx, asked, revents, num_raise, parked, timer, hooked, trying, evs,
                     dispatch, stage>>
  BY DEF Close, CtlDel, UserRuns, poll_vars, loop_vars
<1>2. rdl' \in Seq(Fd) /\ NoDup(rdl') /\ Elems(rdl') = Elems(rdl) \ {f}
  BY <1>0, <1>1, UnlinkFacts DEF IInv, ReadyOK, TypeOK
<1>3. TypeOK'
  BY <1>0, <1>1, <1>2 DEF TypeOK
<1>4. RegistrationKnown'
  BY <1>0, <1>1 DEF IInv, RegistrationKnown, TypeOK
<1>5. /\ ContextsLive' /\ DispatchLive' /\ BatchOK' /\ TryOK' /\ ReadyOK'
  BY <1>1, <1>2 DEF IInv, ContextsLive, DispatchLive, BatchOK, TryOK, ReadyOK
<1>6. RaisedCounted'
  BY <1>1 DEF IInv, RaisedCounted
<1>7. Registered'
  BY <1>0, <1>1 DEF IInv, Registered, TypeOK
<1>8. NoLostEvent'
  BY <1>0, <1>1, <1>2 DEF IInv, NoLostEvent, TypeOK
<1> QED  BY <1>3, <1>4, <1>5, <1>6, <1>7, <1>8 DEF IInv

-----------------------------------------------------------------------------
\* epoll_wait: what leaves the ready list is in the batch, unless its event has gone.
LEMMA EpollWaitKeeps ==
    ASSUME IInv, EpollWait
    PROVE  IInv'
<1> DEFINE n == IF Len(rdl) < EpollSize THEN Len(rdl) ELSE EpollSize
           reported(f) == Reported(f, mask[f])
           kept == {j \in 1..n : reported(rdl[j]) # {}}
           E == [fd : Fd, events : (SUBSET Ev) \ {{}}]
<1>0. TypeOK /\ rdl \in Seq(Fd) /\ NoDup(rdl)
  BY DEF IInv, TypeOK, ReadyOK
<1>1. PICK at \in Orders(kept) :
        evs' = [j \in 1..Len(at) |-> [fd |-> rdl[at[j]], events |-> reported(rdl[at[j]])]]
  BY Zenon DEF EpollWait
<1>2. /\ stage = "wait" /\ trying = NoTry /\ stage' = "batch"
      /\ rdl' = SubSeq(rdl, n + 1, Len(rdl))
      /\ UNCHANGED <<level, interest, mask, wait_events, poll_ctx, asked, revents, num_raise, parked,
                     timer, hooked, trying, dispatch>>
  BY DEF EpollWait, item_vars, poll_vars
<1>3. n \in 0..Len(rdl) /\ n \in Nat /\ Len(rdl) \in Nat
  BY <1>0, PollAssumption
<1>4. at \in Seq(1..n) /\ Elems(at) = kept /\ NoDup(at)
  <2>0. IsFiniteSet(1..n)
    BY <1>3, FS_Interval
  <2>1. kept \in SUBSET (1..n) /\ IsFiniteSet(1..n)
    BY <2>0
  <2>2. IsFiniteSet(kept)
    BY <2>1, FS_Subset, Zenon
  <2> HIDE DEF kept, n
  <2> QED  BY <2>1, <2>2, OrdersFacts, Zenon
<1> HIDE DEF n
<1>5. /\ rdl' \in Seq(Fd) /\ NoDup(rdl')
      /\ Elems(rdl) = {rdl[j] : j \in 1..n} \cup Elems(rdl')
  BY <1>0, <1>2, <1>3, RestFacts, Zenon
<1>6. \A j \in 1..Len(at) : at[j] \in kept /\ at[j] \in 1..Len(rdl) /\ rdl[at[j]] \in Fd
  <2>1. \A j \in 1..Len(at) : at[j] \in kept
    BY <1>4 DEF Elems
  <2>2. \A j \in 1..Len(at) : at[j] \in 1..n
    BY <2>1
  <2>3. \A j \in 1..Len(at) : at[j] \in 1..Len(rdl)
    BY <1>3, <2>2
  <2>4. \A k \in 1..Len(rdl) : rdl[k] \in Fd
    BY <1>0
  <2> HIDE DEF kept
  <2> QED  BY <2>1, <2>3, <2>4
<1>7. /\ Len(at) \in Nat /\ Len(evs') = Len(at)
      /\ \A j \in 1..Len(at) : /\ evs'[j].fd = rdl[at[j]]
                               /\ evs'[j].events = reported(rdl[at[j]])
                               /\ evs'[j] \in E
  <2>1. Len(at) \in Nat
    BY <1>4
  <2>2. Len(evs') = Len(at)
    <3>1. evs' = [j \in 1..Len(at) |-> evs'[j]]
      BY <1>1, Zenon
    <3> QED  BY <2>1, <3>1, TabulatedLen, Zenon
  <2>3. ASSUME NEW j \in 1..Len(at)
        PROVE  /\ evs'[j].fd = rdl[at[j]] /\ evs'[j].events = reported(rdl[at[j]])
               /\ evs'[j] \in E
    <3>1. evs'[j] = [fd |-> rdl[at[j]], events |-> reported(rdl[at[j]])]
      BY <1>1, <2>3
    <3>2. reported(rdl[at[j]]) \in (SUBSET Ev) \ {{}} /\ rdl[at[j]] \in Fd
      <4>1. rdl[at[j]] \in Fd /\ reported(rdl[at[j]]) # {}
        BY <1>6, <2>3, Zenon
      <4>2. \A f \in Fd : reported(f) \in SUBSET Ev
        BY <1>0 DEF Reported, TypeOK
      <4> HIDE DEF reported
      <4> QED  BY <4>1, <4>2
    <3> HIDE DEF reported
    <3>3. evs'[j].fd = rdl[at[j]] /\ evs'[j].events = reported(rdl[at[j]])
      BY <3>1
    <3>4. evs'[j] \in E
      BY <3>1, <3>2
    <3> QED  BY <3>3, <3>4, Zenon
  <2> QED  BY <2>1, <2>2, <2>3
<1>8. evs' \in Seq(E)
  <2>1. evs' = [j \in 1..Len(at) |-> evs'[j]]
    BY <1>1, Zenon
  <2> HIDE DEF E
  <2> QED  BY <1>7, <2>1
<1>9. TypeOK'
  BY <1>0, <1>2, <1>5, <1>8 DEF TypeOK
<1>10. /\ RegistrationKnown' /\ ContextsLive' /\ DispatchLive' /\ Registered' /\ ReadyOK' /\ TryOK'
  BY <1>2, <1>5, Zenon DEF IInv, RegistrationKnown, ContextsLive, DispatchLive, Registered,
     ReadyOK, TryOK
<1>11. RaisedCounted'
  BY <1>2, SameRaised
<1>12. dispatch = <<>> /\ evs = <<>> /\ Elems(dispatch) = {}
  BY <1>0, <1>2, ElemsEmpty, Zenon DEF TypeOK
<1>13. BatchOK'
  <2>1. ASSUME NEW j \in 1..Len(at), NEW k \in 1..Len(at), evs'[j].fd = evs'[k].fd
        PROVE  j = k
    <3>1. rdl[at[j]] = rdl[at[k]]
      BY <1>7, <2>1
    <3>2. at[j] \in 1..Len(rdl) /\ at[k] \in 1..Len(rdl)
      BY <1>6
    <3>3. at[j] = at[k]
      BY <1>0, <3>1, <3>2 DEF NoDup
    <3> QED  BY <1>4, <3>3 DEF NoDup
  <2>2. ASSUME NEW c \in Co, NEW f \in Fd
        PROVE  revents[c][f] = {}
    BY <1>12, NothingRaised
  <2>3. \A j \in 1..Len(at), c \in Co : revents'[c][evs'[j].fd] = {}
    BY <1>2, <1>6, <1>7, <2>2
  <2> QED  BY <1>7, <2>1, <2>3 DEF BatchOK
<1>14. NoLostEvent'
  <2> SUFFICES ASSUME NEW d \in parked \cap hooked, NEW f \in Fd, NEW e \in Ev,
                      e \in asked[d][f] \cap level[f]
               PROVE  \/ f \in Elems(rdl')
                      \/ \E j \in 1..Len(evs') : evs'[j].fd = f /\ e \in evs'[j].events
                      \/ d \in Elems(dispatch)
    BY <1>2, EventsKeptIf, Zenon
  <2>1. f \in Elems(rdl)
    <3>1. 1..Len(evs) = {}
      BY <1>12
    <3> QED  BY <1>12, <3>1, Zenon DEF IInv, NoLostEvent
  <2>2. e \in reported(f)
    <3>1. d \in Co /\ poll_ctx[f] = d /\ d # Nobody
      BY <1>0, PollAssumption DEF IInv, ContextsLive, TypeOK
    <3> QED  BY <3>1 DEF IInv, Registered, Reported
  <2>3. ASSUME NEW k \in 1..n, f = rdl[k]
        PROVE  \E j \in 1..Len(evs') : evs'[j].fd = f /\ e \in evs'[j].events
    <3>1. k \in kept
      BY <2>2, <2>3
    <3>2. PICK j \in 1..Len(at) : at[j] = k
      BY <1>4, <3>1, Zenon DEF Elems
    <3>3. j \in 1..Len(evs')
      BY <1>7, Zenon
    <3>4. evs'[j].fd = f /\ e \in evs'[j].events
      BY <1>7, <2>2, <2>3, <3>2, Zenon
    <3> QED  BY <3>3, <3>4, Zenon
  <2> QED  BY <1>5, <2>1, <2>3
<1> QED  BY <1>9, <1>10, <1>11, <1>13, <1>14 DEF IInv

\* The first entry of a batch, and the others.
LEMMA BatchTail ==
    ASSUME TypeOK, evs # <<>>
    PROVE  /\ Head(evs) = evs[1] /\ 1 \in 1..Len(evs)
           /\ Tail(evs) \in Seq([fd : Fd, events : (SUBSET Ev) \ {{}}])
           /\ \A j \in 1..Len(Tail(evs)) : j + 1 \in 1..Len(evs) /\ Tail(evs)[j] = evs[j + 1]
           /\ \A j \in 1..Len(evs) :
                j = 1 \/ (j - 1 \in 1..Len(Tail(evs)) /\ Tail(evs)[j - 1] = evs[j])
<1> DEFINE E == [fd : Fd, events : (SUBSET Ev) \ {{}}]
<1>1. evs \in Seq(E)
  BY DEF TypeOK
<1> HIDE DEF E
<1>2. /\ Len(evs) \in Nat \ {0} /\ Head(evs) = evs[1] /\ Tail(evs) \in Seq(E)
      /\ Len(Tail(evs)) = Len(evs) - 1
      /\ \A j \in 1..Len(Tail(evs)) : Tail(evs)[j] = evs[j + 1]
  BY <1>1
<1>3. \A j \in 1..Len(Tail(evs)) : j + 1 \in 1..Len(evs)
  BY <1>2
<1>4. \A j \in 1..Len(evs) : j = 1 \/ (j - 1 \in 1..Len(Tail(evs)) /\ (j - 1) + 1 = j)
  BY <1>2
<1>5. 1 \in 1..Len(evs)
  BY <1>2
<1>6. \A j \in 1..Len(evs) :
        j = 1 \/ (j - 1 \in 1..Len(Tail(evs)) /\ Tail(evs)[j - 1] = evs[j])
  BY <1>2, <1>4
<1> QED  BY <1>2, <1>3, <1>5, <1>6 DEF E

\* The rest of a batch is one, whatever is reported for other descriptors.
LEMMA TailBatch ==
    ASSUME IInv, evs # <<>>, evs' = Tail(evs),
           \A c \in Co, g \in Fd \ {Head(evs).fd} : revents'[c][g] = revents[c][g]
    PROVE  BatchOK'
<1>0. TypeOK
  BY DEF IInv
<1>1. /\ Head(evs) = evs[1] /\ 1 \in 1..Len(evs)
      /\ \A j \in 1..Len(Tail(evs)) : j + 1 \in 1..Len(evs) /\ Tail(evs)[j] = evs[j + 1]
  BY <1>0, BatchTail
<1>2. ASSUME NEW j \in 1..Len(evs'), NEW k \in 1..Len(evs'), evs'[j].fd = evs'[k].fd
      PROVE  j = k
  <2>1. j + 1 = k + 1
    BY <1>1, <1>2 DEF IInv, BatchOK
  <2> QED  BY <2>1
<1>3. ASSUME NEW j \in 1..Len(evs'), NEW c \in Co
      PROVE  revents'[c][evs'[j].fd] = {}
  <2>1. j + 1 \in 1..Len(evs) /\ evs'[j].fd = evs[j + 1].fd /\ j + 1 # 1
    BY <1>1, <1>3
  <2>2. evs[j + 1].fd \in Fd /\ evs[j + 1].fd # Head(evs).fd
    <3>1. evs[j + 1].fd \in Fd
      BY <1>0, <2>1, BatchType
    <3>2. Head(evs) = evs[1] /\ 1 \in 1..Len(evs)
      BY <1>1
    <3> QED  BY <2>1, <3>1, <3>2 DEF IInv, BatchOK
  <2>3. \A n \in 1..Len(evs) : revents[c][evs[n].fd] = {}
    BY DEF IInv, BatchOK
  <2>4. revents[c][evs[j + 1].fd] = {}
    BY <2>1, <2>3, Zenon
  <2>5. revents'[c][evs[j + 1].fd] = revents[c][evs[j + 1].fd]
    BY <2>2
  <2>6. revents'[c][evs'[j].fd] = revents'[c][evs[j + 1].fd]
    BY <2>1, Zenon
  <2> QED  BY <2>4, <2>5, <2>6, Zenon
<1> QED  BY <1>2, <1>3 DEF BatchOK

\* An event that nobody polls for: the registration loses it, and keeps what is polled for.
LEMMA ClearFacts ==
    ASSUME IInv, NEW f \in Fd, NEW es \in SUBSET Ev, ClearInvalidEvent(f, es)
    PROVE  /\ wait_events' \in [Fd -> SUBSET Ev] /\ mask' = wait_events'
           /\ wait_events'[f] = wait_events[f] \ es
           /\ \A g \in Fd \ {f} : wait_events'[g] = wait_events[g]
           /\ interest' \subseteq Fd
           /\ \A g \in Fd : g \in interest' <=> wait_events'[g] # {}
           /\ rdl' \in Seq(Fd) /\ NoDup(rdl')
           /\ Elems(rdl) \ {f} \subseteq Elems(rdl')
           /\ wait_events'[f] # {} => Elems(rdl) \subseteq Elems(rdl')
<1> DEFINE left == wait_events[f] \ es
           m == [mask EXCEPT ![f] = left]
<1>0. TypeOK /\ RegistrationKnown /\ NoDup(rdl)
  BY DEF IInv, ReadyOK
<1>1. /\ wait_events' = [wait_events EXCEPT ![f] = left]
      /\ IF left # {} THEN CtlSet({f}, {}, m) ELSE CtlDel(f)
  BY Zenon DEF ClearInvalidEvent
<1>2. /\ wait_events' \in [Fd -> SUBSET Ev] /\ wait_events'[f] = left
      /\ \A g \in Fd \ {f} : wait_events'[g] = wait_events[g]
      /\ m \in [Fd -> SUBSET Ev] /\ m[f] = left
  BY <1>0, <1>1 DEF TypeOK
<1>3. CASE left # {}
  <2>1. f \in interest
    BY <1>0, <1>3 DEF RegistrationKnown
  <2> DEFINE fs == {f}
             add == {}
  <2>2. /\ CtlSet(fs, add, m) /\ fs \in SUBSET Fd
        /\ \A g \in fs : g \in add <=> g \notin interest
    BY <1>1, <1>3, <2>1
  <2>3. /\ interest' = interest \cup fs
        /\ mask' \in [Fd -> SUBSET Ev]
        /\ \A g \in Fd : mask'[g] = IF g \in fs THEN m[g] ELSE mask[g]
        /\ rdl' \in Seq(Fd) /\ NoDup(rdl') /\ Elems(rdl) \subseteq Elems(rdl')
    <3> HIDE DEF m, fs, add
    <3> QED  BY <1>0, <1>2, <2>2, CtlSetFacts, Zenon
  <2>4. \A g \in Fd : mask'[g] = wait_events'[g]
    BY <1>0, <1>2, <2>3, Zenon DEF RegistrationKnown
  <2>5. mask' = wait_events'
    BY <1>2, <2>3, <2>4
  <2>6. interest' \subseteq Fd /\ \A g \in Fd : g \in interest' <=> wait_events'[g] # {}
    BY <1>0, <1>2, <1>3, <2>3 DEF RegistrationKnown, TypeOK
  <2> QED  BY <1>2, <2>3, <2>5, <2>6
<1>4. CASE left = {}
  <2>1. interest' = interest \ {f} /\ mask' = [mask EXCEPT ![f] = {}] /\ rdl' = Unlink(rdl, f)
    BY <1>1, <1>4 DEF CtlDel
  <2>2. rdl' \in Seq(Fd) /\ NoDup(rdl') /\ Elems(rdl') = Elems(rdl) \ {f}
    BY <1>0, <2>1, UnlinkFacts DEF TypeOK
  <2>3. mask' = wait_events'
    <3>1. mask' \in [Fd -> SUBSET Ev] /\ \A g \in Fd : mask'[g] = wait_events'[g]
      BY <1>0, <1>2, <1>4, <2>1 DEF RegistrationKnown, TypeOK
    <3>2. wait_events' \in [Fd -> SUBSET Ev]
      BY <1>2
    <3> QED  BY <3>1, <3>2
  <2>4. interest' \subseteq Fd /\ \A g \in Fd : g \in interest' <=> wait_events'[g] # {}
    BY <1>0, <1>2, <1>4, <2>1 DEF RegistrationKnown, TypeOK
  <2> QED  BY <1>2, <1>4, <2>2, <2>3, <2>4
<1> QED  BY <1>3, <1>4

\* An event of the batch that nobody polls for.
LEMMA NotifyNobodyKeeps ==
    ASSUME IInv, NotifyNobody
    PROVE  IInv'
<1> DEFINE f == Head(evs).fd
           es == Head(evs).events
<1>0. TypeOK
  BY DEF IInv
<1>1. /\ stage = "batch" /\ evs # <<>> /\ evs' = Tail(evs)
      /\ Wanted(Head(evs)) = {} /\ ClearInvalidEvent(f, es)
      /\ UNCHANGED <<level, poll_ctx, asked, revents, num_raise, parked, timer, hooked, trying,
                     dispatch, stage>>
  BY DEF NotifyNobody, poll_vars
<1>2. /\ Head(evs) = evs[1] /\ 1 \in 1..Len(evs)
      /\ Tail(evs) \in Seq([fd : Fd, events : (SUBSET Ev) \ {{}}])
      /\ \A j \in 1..Len(Tail(evs)) : j + 1 \in 1..Len(evs) /\ Tail(evs)[j] = evs[j + 1]
      /\ \A j \in 1..Len(evs) :
           j = 1 \/ (j - 1 \in 1..Len(Tail(evs)) /\ Tail(evs)[j - 1] = evs[j])
  BY <1>0, <1>1, BatchTail
<1>3. f \in Fd /\ es \in SUBSET Ev /\ f = evs[1].fd /\ es = evs[1].events
  BY <1>0, <1>2, BatchType
<1>4. trying = NoTry
  BY <1>1 DEF IInv, TryOK
<1>5. poll_ctx[f] # Nobody => asked[poll_ctx[f]][f] \cap es = {}
  BY <1>1 DEF Wanted
<1> HIDE DEF f, es
<1>6. /\ wait_events' \in [Fd -> SUBSET Ev] /\ mask' = wait_events'
      /\ wait_events'[f] = wait_events[f] \ es
      /\ \A g \in Fd \ {f} : wait_events'[g] = wait_events[g]
      /\ interest' \subseteq Fd
      /\ \A g \in Fd : g \in interest' <=> wait_events'[g] # {}
      /\ rdl' \in Seq(Fd) /\ NoDup(rdl')
      /\ Elems(rdl) \ {f} \subseteq Elems(rdl')
      /\ wait_events'[f] # {} => Elems(rdl) \subseteq Elems(rdl')
  BY <1>1, <1>3, ClearFacts
<1>7. TypeOK'
  BY <1>0, <1>1, <1>2, <1>6 DEF TypeOK
<1>8. RegistrationKnown'
  BY <1>6, ZenonT(30) DEF RegistrationKnown
<1>9. ContextsLive' /\ DispatchLive' /\ TryOK' /\ ReadyOK'
  BY <1>1, <1>4, <1>6 DEF IInv, ContextsLive, DispatchLive, TryOK, ReadyOK
<1>10. RaisedCounted'
  BY <1>1, SameRaised
<1>11. BatchOK'
  BY <1>1, TailBatch
<1>12. Registered'
  <2> SUFFICES ASSUME NEW g \in Fd, poll_ctx[g] # Nobody
               PROVE  asked[poll_ctx[g]][g] \subseteq mask'[g]
    BY <1>1 DEF Registered
  <2>1. asked[poll_ctx[g]][g] \subseteq wait_events[g]
    BY DEF IInv, Registered, RegistrationKnown
  <2> QED  BY <1>5, <1>6, <2>1
<1>13. NoLostEvent'
  <2> SUFFICES ASSUME NEW d \in parked \cap hooked, NEW g \in Fd, NEW e \in Ev,
                      e \in asked[d][g] \cap level[g]
               PROVE  \/ g \in Elems(rdl')
                      \/ \E j \in 1..Len(evs') : evs'[j].fd = g /\ e \in evs'[j].events
                      \/ d \in Elems(dispatch)
    BY <1>1, EventsKeptIf, Zenon
  <2>1. d \in Co /\ poll_ctx[g] = d /\ d # Nobody
    BY <1>0, PollAssumption DEF IInv, ContextsLive, TypeOK
  <2>2. e \in mask'[g]
    BY <1>1, <1>12, <2>1, Zenon DEF Registered
  <2>3. Elems(rdl) \ {f} \subseteq Elems(rdl') /\ (g = f => Elems(rdl) \subseteq Elems(rdl'))
    BY <1>6, <2>2
  <2>4. CASE g \in Elems(rdl)
    BY <2>3, <2>4
  <2>5. CASE d \in Elems(dispatch)
    BY <2>5
  <2>6. ASSUME NEW j \in 1..Len(evs), evs[j].fd = g, e \in evs[j].events
        PROVE  \E k \in 1..Len(evs') : evs'[k].fd = g /\ e \in evs'[k].events
    <3>1. j # 1
      BY <1>3, <1>5, <2>1, <2>6
    <3> QED  BY <1>1, <1>2, <2>6, <3>1, Zenon
  <2> QED  BY <2>4, <2>5, <2>6 DEF IInv, NoLostEvent
<1> QED  BY <1>7, <1>8, <1>9, <1>10, <1>11, <1>12, <1>13 DEF IInv

\* An event that is polled for: the poller is on its coroutine's stack, it gets on the
\* dispatch list once, and its descriptors with events are counted.
LEMMA NotifyPollKeeps ==
    ASSUME IInv, NotifyPoll
    PROVE  IInv'
<1> DEFINE f == Head(evs).fd
           c == poll_ctx[f]
           w == Wanted(Head(evs))
<1>0. TypeOK
  BY DEF IInv
<1>1. /\ stage = "batch" /\ evs # <<>> /\ evs' = Tail(evs) /\ w # {}
      /\ revents' = [revents EXCEPT ![c][f] = w]
      /\ timer' = timer \ {c} /\ dispatch' = Push(dispatch, c)
      /\ num_raise' = [num_raise EXCEPT ![c] = @ + 1]
      /\ UNCHANGED <<level, interest, mask, rdl, wait_events, poll_ctx, asked, parked, hooked, trying,
                     stage>>
  BY DEF NotifyPoll, kernel_vars, item_vars
<1>2. /\ Head(evs) = evs[1] /\ 1 \in 1..Len(evs)
      /\ Tail(evs) \in Seq([fd : Fd, events : (SUBSET Ev) \ {{}}])
      /\ \A j \in 1..Len(evs) :
           j = 1 \/ (j - 1 \in 1..Len(Tail(evs)) /\ Tail(evs)[j - 1] = evs[j])
  BY <1>0, <1>1, BatchTail
<1>3. f \in Fd /\ f = evs[1].fd
  BY <1>0, <1>2, BatchType
<1>4. c \in Co /\ c # Nobody /\ w = asked[c][f] \cap Head(evs).events
  BY <1>0, <1>1, <1>3, Zenon DEF Wanted, TypeOK
<1>5. w \subseteq asked[c][f] /\ w \in SUBSET Ev /\ c \in parked
  <2>1. w \subseteq asked[c][f]
    BY <1>4
  <2>2. asked[c][f] \in SUBSET Ev
    <3>1. asked \in [Co -> [Fd -> SUBSET Ev]]
      BY <1>0 DEF TypeOK
    <3> HIDE DEF c, f
    <3> QED  BY <1>3, <1>4, <3>1
  <2>3. c \in parked
    BY <1>3, <1>4, Zenon DEF IInv, ContextsLive
  <2> QED  BY <2>1, <2>2, <2>3
<1>6. trying = NoTry
  BY <1>1 DEF IInv, TryOK
<1>7. revents[c][f] = {}
  BY <1>2, <1>3, <1>4 DEF IInv, BatchOK
<1> HIDE DEF f, c, w
<1>8. /\ dispatch' \in Seq(Co) /\ Elems(dispatch') = Elems(dispatch) \cup {c} /\ NoDup(dispatch')
  <2>1. dispatch \in Seq(Co) /\ NoDup(dispatch) /\ c \in Co
    BY <1>0, <1>4 DEF IInv, DispatchLive, TypeOK
  <2>2. /\ Push(dispatch, c) \in Seq(Co) /\ Elems(Push(dispatch, c)) = Elems(dispatch) \cup {c}
        /\ NoDup(Push(dispatch, c))
    BY <2>1, PushFacts
  <2> QED  BY <1>1, <2>2
<1>9. /\ revents' \in [Co -> [Fd -> SUBSET Ev]]
      /\ \A d \in Co \ {c} : revents'[d] = revents[d]
      /\ revents'[c] = [revents[c] EXCEPT ![f] = w]
      /\ revents'[c][f] = w /\ \A g \in Fd \ {f} : revents'[c][g] = revents[c][g]
  BY <1>0, <1>1, <1>3, <1>4, <1>5 DEF TypeOK
<1>10. /\ num_raise' \in [Co -> Nat] /\ num_raise'[c] = num_raise[c] + 1
       /\ \A d \in Co \ {c} : num_raise'[d] = num_raise[d]
  <2>1. num_raise \in [Co -> Nat]
    BY <1>0 DEF TypeOK
  <2> QED  BY <1>1, <1>4, <2>1
<1>11. TypeOK'
  BY <1>0, <1>1, <1>2, <1>8, <1>9, <1>10 DEF TypeOK
<1>12. RegistrationKnown' /\ ContextsLive' /\ TryOK' /\ Registered' /\ ReadyOK'
  BY <1>1, <1>6 DEF IInv, RegistrationKnown, ContextsLive, TryOK, Registered, ReadyOK
<1>13. DispatchLive'
  BY <1>1, <1>5, <1>8 DEF IInv, DispatchLive
<1>14. RaisedCounted'
  <2> SUFFICES ASSUME NEW d \in Co
               PROVE  /\ num_raise'[d] = Cardinality(Polled(revents'[d]))
                      /\ num_raise'[d] > 0 <=> d \in Elems(dispatch')
                      /\ \A g \in Fd : revents'[d][g] \subseteq asked'[d][g]
    BY DEF RaisedCounted
  <2>1. /\ num_raise[d] = Cardinality(Polled(revents[d]))
        /\ num_raise[d] > 0 <=> d \in Elems(dispatch)
        /\ \A g \in Fd : revents[d][g] \subseteq asked[d][g]
    BY DEF IInv, RaisedCounted
  <2>2. CASE d # c
    BY <1>1, <1>8, <1>9, <1>10, <2>1, <2>2, Zenon
  <2>3. CASE d = c
    <3>1. Polled(revents'[c]) = Polled(revents[c]) \cup {f} /\ f \notin Polled(revents[c])
      BY <1>1, <1>3, <1>7, <1>9 DEF Polled
    <3>2. IsFiniteSet(Polled(revents[c]))
      BY PollAssumption, FS_Subset DEF Polled
    <3>3. Cardinality(Polled(revents'[c])) = Cardinality(Polled(revents[c])) + 1
      BY <3>1, <3>2, FS_AddElement, Zenon
    <3>4. num_raise'[d] = Cardinality(Polled(revents'[d]))
      BY <1>10, <2>1, <2>3, <3>3
    <3>5. num_raise'[d] > 0 /\ d \in Elems(dispatch')
      BY <1>0, <1>8, <1>10, <2>3 DEF TypeOK
    <3>6. \A g \in Fd : revents'[d][g] \subseteq asked'[d][g]
      BY <1>1, <1>5, <1>9, <2>1, <2>3
    <3> QED  BY <3>4, <3>5, <3>6
  <2> QED  BY <2>2, <2>3
<1>15. BatchOK'
  <2>1. \A d \in Co, g \in Fd \ {Head(evs).fd} : revents'[d][g] = revents[d][g]
    BY <1>9 DEF f
  <2> QED  BY <1>1, <2>1, TailBatch
<1>16. NoLostEvent'
  <2> SUFFICES ASSUME NEW d \in parked \cap hooked, NEW g \in Fd, NEW e \in Ev,
                      e \in asked[d][g] \cap level[g]
               PROVE  \/ g \in Elems(rdl)
                      \/ \E j \in 1..Len(evs') : evs'[j].fd = g /\ e \in evs'[j].events
                      \/ d \in Elems(dispatch')
    BY <1>1 DEF NoLostEvent
  <2>1. CASE g \in Elems(rdl) \/ d \in Elems(dispatch)
    BY <1>8, <2>1
  <2>2. ASSUME NEW j \in 1..Len(evs), evs[j].fd = g, e \in evs[j].events
        PROVE  \/ \E k \in 1..Len(evs') : evs'[k].fd = g /\ e \in evs'[k].events
               \/ d \in Elems(dispatch')
    <3>1. CASE j = 1
      <4>1. d \in Co /\ poll_ctx[g] = d
        BY <1>0 DEF IInv, ContextsLive, TypeOK
      <4>2. d = c
        BY <1>3, <2>2, <3>1, <4>1, Zenon DEF c
      <4> QED  BY <1>8, <4>2
    <3>2. CASE j # 1
      BY <1>1, <1>2, <2>2, <3>2
    <3> QED  BY <3>1, <3>2
  <2> QED  BY <2>1, <2>2 DEF IInv, NoLostEvent
<1> QED  BY <1>11, <1>12, <1>13, <1>14, <1>15, <1>16 DEF IInv

\* The loop goes on to the pollers, and back to epoll_wait.
LEMMA StageKeeps ==
    ASSUME IInv, EndBatch \/ EndDispatch
    PROVE  IInv'
<1>0. TypeOK
  BY DEF IInv
<1>1. /\ UNCHANGED <<level, interest, mask, rdl, wait_events, poll_ctx, asked, revents, num_raise,
                     parked, timer, hooked, trying, evs, dispatch>>
      /\ stage' \in {"dispatch", "wait"}
      /\ stage' = "wait" => dispatch = <<>>
      /\ trying = NoTry /\ evs = <<>>
  BY <1>0 DEF EndBatch, EndDispatch, kernel_vars, item_vars, poll_vars, IInv, TryOK, TypeOK
<1>2. TypeOK'
  BY <1>0, <1>1 DEF TypeOK
<1>3. /\ RegistrationKnown' /\ ContextsLive' /\ DispatchLive' /\ BatchOK' /\ Registered'
  BY <1>1, SameWaits
<1>4. RaisedCounted'
  BY <1>1, SameRaised
<1>5. TryOK'
  BY <1>1 DEF TryOK, NoTry
<1>6. NoLostEvent'
  BY <1>1, SameEvents
<1>7. ReadyOK'
  BY <1>1 DEF IInv, ReadyOK
<1> QED  BY <1>2, <1>3, <1>4, <1>5, <1>6, <1>7 DEF IInv

-----------------------------------------------------------------------------
\* The first states have the invariant.
LEMMA InitInv == Init => IInv
<1> SUFFICES ASSUME Init PROVE IInv
  OBVIOUS
<1>1. TypeOK
  BY DEF Init, TypeOK
<1>2. Len(rdl) = 0 /\ Len(evs) = 0 /\ Len(dispatch) = 0
  BY DEF Init
<1>3. RegistrationKnown /\ Registered /\ TryOK
  BY DEF Init, RegistrationKnown, Registered, TryOK
<1>4. ContextsLive
  BY PollAssumption DEF Init, ContextsLive
<1>5. DispatchLive /\ ReadyOK /\ BatchOK
  <2>1. Elems(dispatch) = {} /\ NoDup(dispatch) /\ NoDup(rdl) /\ 1..Len(evs) = {}
    BY <1>2 DEF Elems, NoDup
  <2>2. parked = {} /\ timer = {} /\ hooked = {}
    BY DEF Init
  <2> QED  BY <2>1, <2>2, Zenon DEF DispatchLive, ReadyOK, BatchOK
<1>6. RaisedCounted
  <2>1. \A c \in Co : Polled(revents[c]) = {} /\ num_raise[c] = 0 /\ c \notin Elems(dispatch)
    BY <1>2 DEF Init, Polled, Elems
  <2>2. \A c \in Co, f \in Fd : revents[c][f] = {}
    BY DEF Init
  <2> QED  BY <2>1, <2>2, FS_EmptySet DEF RaisedCounted
<1>7. NoLostEvent
  BY DEF Init, NoLostEvent
<1> QED  BY <1>1, <1>3, <1>4, <1>5, <1>6, <1>7 DEF IInv

\* The invariant holds in every state.
LEMMA InvariantHolds == Spec => []IInv
<1>1. IInv /\ [Next]_vars => IInv'
  <2> SUFFICES ASSUME IInv, [Next]_vars PROVE IInv'
    OBVIOUS
  <2>1. CASE UNCHANGED vars
    <3>1. UNCHANGED <<level, interest, mask, rdl, wait_events, poll_ctx, asked, revents, num_raise,
                      parked, timer, hooked, trying, evs, dispatch, stage>>
      BY <2>1 DEF vars, kernel_vars, item_vars, poll_vars, loop_vars
    <3>2. TypeOK'
      BY <3>1 DEF IInv, TypeOK
    <3>3. /\ RegistrationKnown' /\ ContextsLive' /\ DispatchLive' /\ BatchOK' /\ Registered'
          /\ RaisedCounted'
      BY <3>1, SameWaits, SameRaised
    <3>4. ReadyOK' /\ TryOK'
      BY <3>1 DEF IInv, ReadyOK, TryOK
    <3>5. NoLostEvent'
      BY <3>1, SameEvents
    <3> QED  BY <3>2, <3>3, <3>4, <3>5 DEF IInv
  <2>2. CASE \E f \in Fd, e \in Ev : Raise(f, e)
    BY <2>2, RaiseKeeps
  <2>3. CASE \E c \in Co, a \in [Fd -> Ask \cup {{}}], timed \in BOOLEAN : Poll(c, a, timed)
    BY <2>3, PollKeeps
  <2>4. CASE \E f \in Fd, e \in {"in", "out"} : Transfer(f, e)
    BY <2>4, TransferKeeps
  <2>5. CASE \E c \in Co, f \in Fd, e \in Dir : Try(c, f, e)
    BY <2>5, TryKeeps
  <2>6. CASE \E timed \in BOOLEAN : HookPoll(timed)
    BY <2>6, HookPollKeeps
  <2>7. CASE \E c \in Co : Timeout(c)
    BY <2>7, TimeoutKeeps
  <2>8. CASE \E f \in Fd : Close(f)
    BY <2>8, CloseKeeps
  <2>9. CASE NetEvent
    BY <2>9, EpollWaitKeeps, NotifyNobodyKeeps, NotifyPollKeeps, StageKeeps, DispatchKeeps
       DEF NetEvent
  <2> QED  BY <2>1, <2>2, <2>3, <2>4, <2>5, <2>6, <2>7, <2>8, <2>9 DEF Next
<1> QED  BY <1>1, InitInv, PTL DEF Spec

-----------------------------------------------------------------------------
\* The state of the poller has its type, in every state and for any set of coroutines,
\* descriptors and masks.
THEOREM PollTyped == Spec => []TypeOK
BY InvariantHolds, PTL DEF IInv

\* wait_events is what the kernel watches, through every order of polls, timeouts and
\* close (poll_ctx_t::init, clear_invalid_event and close_fd_notify_poll).
THEOREM RegistrationAgrees == Spec => []RegistrationKnown
BY InvariantHolds, PTL DEF IInv

\* A descriptor points at the poll_ctx of a coroutine that is still in co_poll: no
\* context is used after its frame is gone.
THEOREM NoDeadContext == Spec => []ContextsLive
BY InvariantHolds, PTL DEF IInv

\* The dispatch list has each poller once, in co_poll and with its timer cancelled, so
\* that no poller is resumed twice.
THEOREM DispatchOnce == Spec => []DispatchLive
BY InvariantHolds, PTL DEF IInv

\* co_poll counts the descriptors it reports, and reports what was asked for.
THEOREM PollCounts == Spec => []RaisedCounted
BY InvariantHolds, PTL DEF IInv

\* With edge-triggered registrations no event that a hook waits for is lost, for any
\* number of coroutines, descriptors and places in the array of epoll_wait.
THEOREM EventsKept == Spec => []NoLostEvent
BY InvariantHolds, PTL DEF IInv

\* co_poll returns 0 just when its timer brought it back: a poller leaves co_poll only by
\* its timer and with nothing raised, or from the dispatch list, with its timer off and
\* something raised.
PollReturns ==
    [][\A c \in parked \ parked' : num_raise[c] = 0 <=> c \in timer]_vars

\* Steps that resume nobody.
LEMMA OthersStay ==
    ASSUME IInv, Next, ~Dispatch, \A c \in Co : ~Timeout(c)
    PROVE  parked \subseteq parked'
<1>1. CASE \E f \in Fd, e \in Ev : Raise(f, e)
  BY <1>1 DEF Raise, poll_vars
<1>2. CASE \E c \in Co, a \in [Fd -> Ask \cup {{}}], timed \in BOOLEAN : Poll(c, a, timed)
  BY <1>2 DEF Poll, StartPoll
<1>3. CASE \E f \in Fd, e \in {"in", "out"} : Transfer(f, e)
  BY <1>3 DEF Transfer, poll_vars
<1>4. CASE \E c \in Co, f \in Fd, e \in Dir : Try(c, f, e)
  BY <1>4 DEF Try, poll_vars
<1>5. CASE \E timed \in BOOLEAN : HookPoll(timed)
  BY <1>5, Zenon DEF HookPoll, StartPoll
<1>6. CASE \E f \in Fd : Close(f)
  BY <1>6 DEF Close, poll_vars
<1>7. CASE EpollWait \/ NotifyNobody \/ NotifyPoll \/ EndBatch \/ EndDispatch
  BY <1>7, Zenon DEF EpollWait, NotifyNobody, NotifyPoll, EndBatch, EndDispatch, poll_vars
<1> QED  BY <1>1, <1>2, <1>3, <1>4, <1>5, <1>6, <1>7 DEF Next, NetEvent

\* co_poll's result says how it came back, in every run (co_poll returns 0 on
\* timeout and num_raise otherwise).
THEOREM PollResult == Spec => PollReturns
<1>1. IInv /\ [Next]_vars => [\A c \in parked \ parked' : num_raise[c] = 0 <=> c \in timer]_vars
  <2> SUFFICES ASSUME IInv, Next, NEW c \in parked \ parked'
               PROVE  num_raise[c] = 0 <=> c \in timer
    OBVIOUS
  <2>0. /\ c \in Co /\ dispatch \in Seq(Co) /\ num_raise[c] \in Nat
        /\ num_raise[c] > 0 <=> c \in Elems(dispatch)
        /\ c \in Elems(dispatch) => c \notin timer
    BY DEF IInv, TypeOK, RaisedCounted, DispatchLive
  <2>1. CASE Dispatch
    <3>1. dispatch # <<>> /\ c = Head(dispatch)
      BY <2>1 DEF Dispatch, EndPoll
    <3>2. c \in Elems(dispatch)
      BY <2>0, <3>1, TailFacts
    <3> QED  BY <2>0, <3>2
  <2>2. CASE \E d \in Co : Timeout(d)
    <3>1. c \in timer
      BY <2>2 DEF Timeout, EndPoll
    <3> QED  BY <2>0, <3>1
  <2> QED  BY <2>1, <2>2, OthersStay
<1> QED  BY <1>1, InvariantHolds, PTL DEF Spec, PollReturns
=============================================================================
