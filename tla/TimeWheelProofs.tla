--------------------------- MODULE TimeWheelProofs ---------------------------
(****************************************************************************)
(* Proofs about TimeWheel, for callbacks that do not cancel the handle the  *)
(* walk has cached (~NextMayGo): the wheel counts what it holds, its walks  *)
(* stay on their lists and leave nothing overdue, and it implements Timers. *)
(****************************************************************************)
EXTENDS TimeWheel, ListProofs, FiniteSetTheorems, TLAPS

InCheck == phase \in {"check", "check_fn"}
InNow == phase \in {"now", "now_fn"}

\* The times: a check() works for a moment that has come.
ClocksOK ==
    /\ clock >= StartMs
    /\ pos = SlotOf(prev_ms)
    /\ InCheck => prev_ms < cur_ms /\ cur_ms <= clock

\* A handle is in the slot of its time, once, and not before the last check.
SlotsOK ==
    \A i \in Slot :
        /\ NoDup(slots[i])
        /\ \A h \in Elems(slots[i]) :
            SlotOf(timeout[h]) = i /\ timeout[h] > 0 /\ timeout[h] >= prev_ms

\* A handle that is due at once is on one list only, and is not periodic.
NowOK ==
    /\ NoDup(now_list) /\ NoDup(queue)
    /\ Elems(now_list) \cap Elems(queue) = {}
    /\ \A h \in Elems(now_list) \cup Elems(queue) :
        h \notin InSlots /\ timeout[h] = 0 /\ interval[h] = 0

Counted == IsFiniteSet(InSlots) /\ CountOK

\* do_now_task is always at the head of its list, which is empty when it is over.
CallsOK ==
    /\ IF InNow THEN next = First(queue) ELSE queue = <<>>
    /\ phase \in {"check_fn", "now_fn"} => it \in Handle
    /\ phase = "now_fn" => interval[it] = 0

\* The part of s that begins with x.
From(s, x) == {s[j] : j \in {k \in 1..Len(s) : \E i \in 1..k : s[i] = x}}

\* Going round the wheel from slot a one comes to slot i not later than to slot b.
Between(a, i, b) == IF a <= b THEN a <= i /\ i <= b ELSE a <= i \/ i <= b

\* What is due at the time of the walk is still ahead of it.
DueAhead ==
    InCheck => \A h \in InSlots : timeout[h] <= cur_ms =>
        /\ Between(spos, SlotOf(timeout[h]), end_pos)
        /\ SlotOf(timeout[h]) = spos => h \in From(slots[spos], next)

IInv ==
    /\ TypeOK
    /\ ClocksOK
    /\ SlotsOK
    /\ NowOK
    /\ Counted
    /\ CallsOK
    /\ WalkOnList
    /\ DueAhead

-----------------------------------------------------------------------------
\* A remainder is what is left after some turns.
LEMMA Turns ==
    ASSUME NEW n \in Nat \ {0}, NEW a \in Nat
    PROVE  \E q \in Int : a % n = a - n * q
OBVIOUS

\* The slots from a time a to a later time b, less than a turn apart.
LEMMA ModShift ==
    ASSUME NEW n \in Nat \ {0}, NEW a \in Nat, NEW b \in Nat, a <= b, b < a + n
    PROVE  LET r == (a % n) + (b - a) IN b % n = IF r < n THEN r ELSE r - n
<1>1. PICK q \in Int : a % n = a - n * q
  BY Turns, Zenon
<1>2. PICK r \in Int : r = (a % n) + (b - a)
  OBVIOUS
<1>3. b = n * q + r /\ r \in 0..(2 * n - 2)
  BY <1>1, <1>2
<1>4. CASE r < n
  <2>1. r \in 0..(n - 1)
    BY <1>3, <1>4
  <2>2. b % n = r
    BY <1>3, <2>1
  <2>. QED BY <1>2, <1>4, <2>2
<1>5. CASE r >= n
  <2>1. PICK k \in Int : k = q + 1
    OBVIOUS
  <2>2. PICK m \in 0..(n - 1) : m = r - n
    BY <1>3, <1>5
  <2>3. b = n * k + m
    BY <1>3, <2>1, <2>2
  <2>4. b % n = m
    BY <2>3
  <2>5. (a % n) + (b - a) >= n /\ b % n = (a % n) + (b - a) - n
    BY <1>2, <1>5, <2>2, <2>4
  <2>. QED BY <2>5
<1>. QED BY <1>3, <1>4, <1>5

\* Every time has a slot.
LEMMA SlotType == \A ms \in Nat : SlotOf(ms) \in Slot
BY WheelAssumption DEF SlotOf, Slot

\* The next slot.
LEMMA NextSlot ==
    ASSUME NEW i \in Slot
    PROVE  (i + 1) % SlotNum = IF i = SlotNum - 1 THEN 0 ELSE i + 1
BY WheelAssumption DEF Slot

\* The walk begins with the slot of prev_ms: every time from then on to the end of
\* the walk has its slot on the way, whether it is shorter than a turn or longer.
LEMMA WalkCovers ==
    ASSUME NEW p \in Nat, NEW c \in Nat, NEW t \in Nat, p <= t, t <= c
    PROVE  Between(SlotOf(p), SlotOf(t),
                   IF c - p >= SlotNum THEN (SlotOf(p) + SlotNum - 1) % SlotNum ELSE SlotOf(c))
<1>. SlotNum \in Nat \ {0}
  BY WheelAssumption
<1>0. SlotOf(p) \in 0..(SlotNum - 1) /\ SlotOf(t) \in 0..(SlotNum - 1)
  BY SlotType DEF Slot
<1>1. CASE c - p >= SlotNum
  <2>1. (SlotOf(p) + SlotNum - 1) % SlotNum
          = IF SlotOf(p) = 0 THEN SlotNum - 1 ELSE SlotOf(p) - 1
    <3>1. \A k \in 0..(SlotNum - 1) : k % SlotNum = k
      OBVIOUS
    <3>2. \A k \in SlotNum..(2 * SlotNum - 1) : k % SlotNum = k - SlotNum
      OBVIOUS
    <3>3. CASE SlotOf(p) = 0
      BY <3>1, <3>3
    <3>4. CASE SlotOf(p) # 0
      BY <1>0, <3>2, <3>4
    <3>. QED BY <3>3, <3>4
  <2>. QED BY <1>0, <1>1, <2>1 DEF Between
<1>2. CASE c - p < SlotNum
  <2>0. p <= c /\ c < p + SlotNum /\ t < p + SlotNum
    BY <1>2
  <2>1. LET r == SlotOf(p) + (c - p)
        IN  SlotOf(c) = IF r < SlotNum THEN r ELSE r - SlotNum
    BY <2>0, ModShift, Zenon DEF SlotOf
  <2>2. LET r == SlotOf(p) + (t - p)
        IN  SlotOf(t) = IF r < SlotNum THEN r ELSE r - SlotNum
    BY <2>0, ModShift, Zenon DEF SlotOf
  <2>. QED BY <1>0, <1>2, <2>1, <2>2 DEF Between
<1>. QED BY <1>1, <1>2

\* One slot on, what is on the way and not behind still is.
LEMMA BetweenNext ==
    ASSUME NEW a \in Slot, NEW i \in Slot, NEW b \in Slot, a # b, i # a, Between(a, i, b)
    PROVE  Between((a + 1) % SlotNum, i, b)
BY NextSlot, WheelAssumption DEF Slot, Between

-----------------------------------------------------------------------------
\* From the first node on there is the whole list, from the end on nothing.
LEMMA FromFirst ==
    ASSUME NEW s \in Seq(Handle)
    PROVE  From(s, First(s)) = Elems(s) /\ From(s, End) = {}
<1>1. \A i \in 1..Len(s) : s[i] \in Handle /\ s[i] # End
  BY WheelAssumption
<1>2. From(s, End) = {}
  BY <1>1 DEF From
<1>3. CASE s = <<>>
  BY <1>2, <1>3 DEF First, Elems
<1>4. CASE s # <<>>
  <2>1. First(s) = s[1] /\ Len(s) \in Nat \ {0}
    BY <1>4 DEF First
  <2>2. \A k \in 1..Len(s) : \E i \in 1..k : s[i] = First(s)
    BY <2>1
  <2>. QED BY <1>2, <2>2 DEF From, Elems
<1>. QED BY <1>3, <1>4

\* One node on, there is all but the node that was passed.
LEMMA FromSucc ==
    ASSUME NEW s \in Seq(Handle), NoDup(s), NEW x \in Elems(s)
    PROVE  From(s, x) \ {x} \subseteq From(s, Succ(s, x))
<1>. DEFINE k == CHOOSE i \in 1..Len(s) : s[i] = x
<1>1. k \in 1..Len(s) /\ s[k] = x
  BY DEF Elems
<1>2. Succ(s, x) = IF k = Len(s) THEN End ELSE s[k + 1]
  BY DEF Succ
<1>. HIDE DEF k
<1>. SUFFICES ASSUME NEW j \in 1..Len(s), NEW i \in 1..j, s[i] = x, s[j] # x
              PROVE  s[j] \in From(s, Succ(s, x))
  BY DEF From
<1>3. i = k /\ j > k
  <2>1. i \in 1..Len(s)
    OBVIOUS
  <2>2. i = k
    BY <1>1, <2>1 DEF NoDup
  <2>. QED BY <1>1, <2>2
<1>4. k # Len(s) /\ k + 1 \in 1..j /\ Succ(s, x) = s[k + 1]
  BY <1>1, <1>2, <1>3
<1>. QED BY <1>4 DEF From

\* A node that is appended changes nothing before it.
LEMMA FromAppend ==
    ASSUME NEW s \in Seq(Handle), NEW y \in Handle, NEW x
    PROVE  From(s, x) \subseteq From(Append(s, y), x)
<1>. DEFINE a == Append(s, y)
<1>1. Len(a) = Len(s) + 1 /\ \A i \in 1..Len(s) : a[i] = s[i]
  OBVIOUS
<1>. HIDE DEF a
<1>. SUFFICES ASSUME NEW j \in 1..Len(s), NEW i \in 1..j, s[i] = x
              PROVE  s[j] \in From(a, x)
  BY DEF From, a
<1>2. j \in 1..Len(a) /\ a[j] = s[j] /\ a[i] = x
  BY <1>1
<1>. QED BY <1>2 DEF From

\* Unlinking another node keeps the order of the rest.
LEMMA FromUnlink ==
    ASSUME NEW s \in Seq(Handle), NoDup(s), NEW y, NEW x, x # y
    PROVE  From(s, x) \ {y} \subseteq From(Unlink(s, y), x)
<1>1. CASE y \notin Elems(s)
  BY <1>1 DEF Unlink
<1>2. CASE y \in Elems(s)
  <2>. DEFINE k == CHOOSE i \in 1..Len(s) : s[i] = y
              u == [i \in 1..(Len(s) - 1) |-> IF i < k THEN s[i] ELSE s[i + 1]]
  <2>1. k \in 1..Len(s) /\ s[k] = y
    BY <1>2 DEF Elems
  <2>2. Unlink(s, y) = u
    BY <1>2 DEF Unlink
  <2>. HIDE DEF k
  <2>3. Len(u) = Len(s) - 1
    BY <2>1
  <2>. SUFFICES ASSUME NEW j \in 1..Len(s), NEW i \in 1..j, s[i] = x, s[j] # y
                PROVE  s[j] \in From(u, x)
    <3>. HIDE DEF u
    <3>. QED BY <2>2 DEF From
  <2>. DEFINE j1 == IF j < k THEN j ELSE j - 1
              i1 == IF i < k THEN i ELSE i - 1
  <2>4. i # k /\ j # k
    BY <2>1
  <2>5. j1 \in 1..(Len(s) - 1) /\ i1 \in 1..(Len(s) - 1) /\ i1 <= j1
    BY <2>1, <2>4
  <2>6. u[j1] = s[j] /\ u[i1] = s[i]
    BY <2>1, <2>4, <2>5
  <2>. HIDE DEF u, i1, j1
  <2>. QED BY <2>3, <2>5, <2>6 DEF From
<1>. QED BY <1>1, <1>2

-----------------------------------------------------------------------------
\* The handles in the slots sl.
ElemsOf(sl) == UNION {Elems(sl[i]) : i \in Slot}

\* Slots whose handles are where they belong, by the times tm.
Sorted(sl, tm) ==
    \A i \in Slot :
        /\ NoDup(sl[i])
        /\ \A h \in Elems(sl[i]) :
            SlotOf(tm[h]) = i /\ tm[h] > 0 /\ tm[h] >= prev_ms

\* InSlots and SlotsOK, said of the slots before a step and after it.
LEMMA InSlotsIs ==
    /\ InSlots = ElemsOf(slots)
    /\ InSlots' = ElemsOf(slots')
    /\ SlotsOK <=> Sorted(slots, timeout)
    /\ prev_ms' = prev_ms => (SlotsOK' <=> Sorted(slots', timeout'))
BY DEF InSlots, ElemsOf, SlotsOK, Sorted

\* The nodes of a list of handles are handles.
LEMMA ElemsType == \A s \in Seq(Handle) : Elems(s) \subseteq Handle
BY DEF Elems

\* The handles in the slots are handles.
LEMMA ElemsOfType ==
    ASSUME NEW sl \in [Slot -> Seq(Handle)]
    PROVE  /\ ElemsOf(sl) \subseteq Handle
           /\ \A i \in Slot : Elems(sl[i]) \subseteq ElemsOf(sl)
BY DEF ElemsOf, Elems

\* cancel_timeout takes the handle out of the slots and counts it if it was there.
LEMMA RemovedFacts ==
    ASSUME TypeOK, SlotsOK, NowOK, Counted, NEW h \in Handle
    PROVE  LET w == Removed(h) IN
           /\ w.slots \in [Slot -> Seq(Handle)]
           /\ w.task_num \in Int
           /\ \A i \in Slot : w.slots[i] = Unlink(slots[i], h)
           /\ Sorted(w.slots, timeout)
           /\ ElemsOf(w.slots) = InSlots \ {h}
           /\ IsFiniteSet(InSlots \ {h})
           /\ w.task_num = Cardinality(InSlots \ {h})
<1>. DEFINE u == [i \in Slot |-> Unlink(slots[i], h)]
<1>0. slots \in [Slot -> Seq(Handle)] /\ task_num \in Int
  BY DEF TypeOK
<1>1. Removed(h).slots = u
  BY DEF Removed
<1>2. u \in [Slot -> Seq(Handle)] /\ \A i \in Slot : u[i] = Unlink(slots[i], h)
  BY <1>0, UnlinkFacts
<1>. HIDE DEF u
<1>3. \A i \in Slot : NoDup(u[i]) /\ Elems(u[i]) = Elems(slots[i]) \ {h}
  BY <1>0, <1>2, UnlinkFacts DEF SlotsOK
<1>4. Sorted(u, timeout)
  BY <1>3 DEF SlotsOK, Sorted
<1>5. ElemsOf(u) = InSlots \ {h}
  BY <1>3 DEF ElemsOf, InSlots
<1>6. h \in InSlots <=> h \in Linked /\ timeout[h] > 0
  <2>1. h \in InSlots => timeout[h] > 0
    BY DEF SlotsOK, InSlots
  <2>2. h \in Elems(now_list) \cup Elems(queue) => ~(timeout[h] > 0)
    BY DEF NowOK
  <2>. QED BY <2>1, <2>2 DEF Linked
<1>7. IsFiniteSet(InSlots \ {h})
      /\ Cardinality(InSlots \ {h}) = IF h \in InSlots THEN task_num - 1 ELSE task_num
  BY FS_RemoveElement DEF Counted, CountOK
<1>8. Removed(h).task_num = Cardinality(InSlots \ {h}) /\ Removed(h).task_num \in Int
  BY <1>0, <1>6, <1>7 DEF Removed
<1>. QED BY <1>1, <1>2, <1>4, <1>5, <1>7, <1>8

\* set_timeout_impl links the handle into the slot of a time that is to come.
LEMMA InsertFacts ==
    ASSUME TypeOK, ClocksOK,
           NEW sl \in [Slot -> Seq(Handle)], NEW n, Sorted(sl, timeout),
           IsFiniteSet(ElemsOf(sl)), n = Cardinality(ElemsOf(sl)),
           NEW h \in Handle, h \notin ElemsOf(sl),
           NEW ms \in Nat \ {0}, NEW itv \in Nat,
           Insert([slots |-> sl, task_num |-> n], h, ms, itv)
    PROVE  /\ slots' \in [Slot -> Seq(Handle)]
           /\ task_num' \in Int
           /\ timeout' \in [Handle -> Nat] /\ interval' \in [Handle -> Nat]
           /\ timeout'[h] > clock /\ timeout'[h] >= prev_ms /\ interval'[h] = itv
           /\ \A x \in Handle \ {h} : timeout'[x] = timeout[x] /\ interval'[x] = interval[x]
           /\ \A i \in Slot : slots'[i] = sl[i] \/ slots'[i] = Append(sl[i], h)
           /\ ElemsOf(slots') = ElemsOf(sl) \cup {h}
           /\ Sorted(slots', timeout')
           /\ IsFiniteSet(ElemsOf(slots')) /\ task_num' = Cardinality(ElemsOf(slots'))
<1>. DEFINE t == Expiry(ms)
            k == SlotOf(t)
<1>0. /\ timeout \in [Handle -> Nat] /\ interval \in [Handle -> Nat]
      /\ clock \in Nat /\ prev_ms \in Nat
  BY DEF TypeOK
<1>1. t \in Nat /\ t > clock /\ t >= prev_ms
  BY <1>0 DEF Expiry
<1>2. k \in Slot
  BY <1>1, SlotType
<1>3. /\ timeout' = [timeout EXCEPT ![h] = t]
      /\ interval' = [interval EXCEPT ![h] = itv]
      /\ slots' = [sl EXCEPT ![k] = Append(sl[k], h)]
      /\ task_num' = n + 1
  BY DEF Insert
<1>. HIDE DEF t
<1>4. /\ timeout' \in [Handle -> Nat] /\ interval' \in [Handle -> Nat]
      /\ timeout'[h] = t /\ interval'[h] = itv
      /\ \A x \in Handle \ {h} : timeout'[x] = timeout[x] /\ interval'[x] = interval[x]
  BY <1>0, <1>1, <1>3
<1>. HIDE DEF k
<1>5. sl[k] \in Seq(Handle) /\ h \notin Elems(sl[k]) /\ NoDup(sl[k])
  BY <1>2 DEF ElemsOf, Sorted
<1>6. /\ Append(sl[k], h) \in Seq(Handle)
      /\ Elems(Append(sl[k], h)) = Elems(sl[k]) \cup {h}
      /\ NoDup(Append(sl[k], h))
  BY <1>5, AppendFacts
<1>7. /\ slots' \in [Slot -> Seq(Handle)]
      /\ slots'[k] = Append(sl[k], h)
      /\ \A i \in Slot \ {k} : slots'[i] = sl[i]
  BY <1>2, <1>3, <1>6
<1>8. /\ \A i \in Slot \ {k} : Elems(slots'[i]) = Elems(sl[i])
      /\ Elems(slots'[k]) = Elems(sl[k]) \cup {h}
  BY <1>6, <1>7
<1>9. ElemsOf(slots') = ElemsOf(sl) \cup {h}
  BY <1>2, <1>8, Zenon DEF ElemsOf
<1>10. Sorted(slots', timeout')
  <2>. SUFFICES ASSUME NEW i \in Slot
                PROVE  /\ NoDup(slots'[i])
                       /\ \A x \in Elems(slots'[i]) :
                            /\ SlotOf(timeout'[x]) = i
                            /\ timeout'[x] > 0 /\ timeout'[x] >= prev_ms
    BY DEF Sorted
  <2>1. NoDup(slots'[i])
    BY <1>6, <1>7, Zenon DEF Sorted
  <2>2. ASSUME NEW x \in Elems(slots'[i])
        PROVE  SlotOf(timeout'[x]) = i /\ timeout'[x] > 0 /\ timeout'[x] >= prev_ms
    <3>1. CASE x = h
      <4>1. i = k
        BY <1>8, <2>2, <3>1 DEF ElemsOf
      <4>2. SlotOf(timeout'[x]) = i
        BY <1>4, <3>1, <4>1 DEF k
      <4>. QED BY <1>0, <1>1, <1>4, <3>1, <4>2
    <3>2. CASE x # h
      <4>1. x \in Elems(sl[i]) /\ x \in Handle
        BY <1>8, <2>2, <3>2, ElemsOfType, Zenon
      <4>. QED BY <1>4, <3>2, <4>1 DEF Sorted
    <3>. QED BY <3>1, <3>2
  <2>. QED BY <2>1, <2>2
<1>11. IsFiniteSet(ElemsOf(slots')) /\ task_num' = Cardinality(ElemsOf(slots'))
  <2>1. /\ IsFiniteSet(ElemsOf(sl) \cup {h})
        /\ Cardinality(ElemsOf(sl) \cup {h}) = Cardinality(ElemsOf(sl)) + 1
    BY FS_AddElement
  <2>. QED BY <1>3, <1>9, <2>1, Zenon
<1>12. task_num' \in Int
  BY <1>3, FS_CardinalityType
<1>. QED BY <1>1, <1>4, <1>7, <1>9, <1>10, <1>11, <1>12, Zenon

-----------------------------------------------------------------------------
\* The wheel as it is constructed.
LEMMA InitInv == Init => IInv
<1>. SUFFICES ASSUME Init PROVE IInv
  OBVIOUS
<1>1. \A i \in Slot : slots[i] = <<>>
  BY DEF Init
<1>2. Elems(<<>>) = {} /\ NoDup(<<>>)
  BY DEF Elems, NoDup
<1>3. InSlots = {}
  BY <1>1, <1>2 DEF InSlots
<1>4. TypeOK
  <2>1. SlotOf(StartMs) \in Slot /\ 0 \in Slot
    BY SlotType, WheelAssumption DEF Slot
  <2>. QED BY <2>1, WheelAssumption DEF Init, TypeOK
<1>5. ClocksOK
  BY WheelAssumption DEF Init, ClocksOK, InCheck
<1>6. SlotsOK
  BY <1>1, <1>2 DEF SlotsOK
<1>7. NowOK
  BY <1>2 DEF Init, NowOK
<1>8. Counted
  BY <1>3, FS_EmptySet DEF Init, Counted, CountOK
<1>9. CallsOK /\ WalkOnList /\ DueAhead
  BY DEF Init, CallsOK, WalkOnList, DueAhead, InNow, InCheck
<1>. QED BY <1>4, <1>5, <1>6, <1>7, <1>8, <1>9 DEF IInv

\* What set_timeout_impl makes of the wheel.
LEMMA SetFacts ==
    ASSUME IInv, NEW h \in Handle, h \notin Linked,
           NEW ms \in Nat \ {0}, NEW itv \in Nat,
           Insert([slots |-> slots, task_num |-> task_num], h, ms, itv)
    PROVE  /\ slots' \in [Slot -> Seq(Handle)]
           /\ task_num' \in Int
           /\ timeout' \in [Handle -> Nat] /\ interval' \in [Handle -> Nat]
           /\ timeout'[h] > clock /\ timeout'[h] >= prev_ms /\ interval'[h] = itv
           /\ \A x \in Handle \ {h} : timeout'[x] = timeout[x] /\ interval'[x] = interval[x]
           /\ \A i \in Slot : slots'[i] = slots[i] \/ slots'[i] = Append(slots[i], h)
           /\ ElemsOf(slots') = ElemsOf(slots) \cup {h}
           /\ Sorted(slots', timeout')
           /\ IsFiniteSet(ElemsOf(slots')) /\ task_num' = Cardinality(ElemsOf(slots'))
<1>1. TypeOK /\ ClocksOK /\ slots \in [Slot -> Seq(Handle)] /\ h \notin ElemsOf(slots)
  BY InSlotsIs DEF IInv, TypeOK, Linked
<1>2. /\ Sorted(slots, timeout)
      /\ IsFiniteSet(ElemsOf(slots)) /\ task_num = Cardinality(ElemsOf(slots))
  BY InSlotsIs DEF IInv, Counted, CountOK
<1>. QED BY <1>1, <1>2, InsertFacts, Zenon

\* set_timeout_impl of a handle that is not linked.
LEMMA SetInv ==
    ASSUME IInv, UserRuns, NEW h \in Handle, h \notin Linked,
           NEW ms \in Nat \ {0}, NEW itv \in Nat,
           phase = "now_fn" /\ h = it => itv = 0,
           Insert([slots |-> slots, task_num |-> task_num], h, ms, itv),
           UNCHANGED <<now_list, now_task, time_vars, wheel_vars, walk_vars>>
    PROVE  IInv'
<1>0. /\ UNCHANGED <<now_list, now_task, clock, backs, pos, prev_ms>>
      /\ UNCHANGED <<phase, cur_ms, spos, end_pos, queue, it, next>>
  BY DEF time_vars, wheel_vars, walk_vars
<1>1. /\ TypeOK /\ ClocksOK /\ SlotsOK /\ NowOK /\ Counted /\ CallsOK
      /\ WalkOnList /\ DueAhead
  BY DEF IInv
<1>2. slots \in [Slot -> Seq(Handle)] /\ spos \in Slot
  BY <1>1 DEF TypeOK
<1>3. h \notin ElemsOf(slots) /\ h \notin Elems(now_list) /\ h \notin Elems(queue)
  BY InSlotsIs DEF Linked
<1>4. /\ slots' \in [Slot -> Seq(Handle)]
      /\ task_num' \in Int
      /\ timeout' \in [Handle -> Nat] /\ interval' \in [Handle -> Nat]
      /\ timeout'[h] > clock /\ timeout'[h] >= prev_ms /\ interval'[h] = itv
      /\ \A x \in Handle \ {h} : timeout'[x] = timeout[x] /\ interval'[x] = interval[x]
      /\ \A i \in Slot : slots'[i] = slots[i] \/ slots'[i] = Append(slots[i], h)
      /\ ElemsOf(slots') = ElemsOf(slots) \cup {h}
      /\ Sorted(slots', timeout')
      /\ IsFiniteSet(ElemsOf(slots')) /\ task_num' = Cardinality(ElemsOf(slots'))
  BY SetFacts, Zenon
<1>5. TypeOK'
  BY <1>0, <1>1, <1>4, Zenon DEF TypeOK
<1>6. ClocksOK'
  BY <1>0, <1>1 DEF ClocksOK, InCheck
<1>7. SlotsOK'
  BY <1>0, <1>4, InSlotsIs
<1>8. NowOK'
  <2>1. Elems(now_list) \subseteq Handle /\ Elems(queue) \subseteq Handle
    BY <1>1, ElemsType DEF TypeOK
  <2>. QED BY <1>0, <1>1, <1>3, <1>4, <2>1, InSlotsIs DEF NowOK
<1>9. Counted'
  BY <1>4, InSlotsIs DEF Counted, CountOK
<1>10. CallsOK'
  BY <1>0, <1>1, <1>4 DEF CallsOK, InNow
<1>11. WalkOnList'
  <2>1. Elems(slots[spos]) \subseteq Elems(slots'[spos])
    <3>1. slots[spos] \in Seq(Handle)
      BY <1>2
    <3>2. Elems(Append(slots[spos], h)) = Elems(slots[spos]) \cup {h}
      BY <3>1, AppendFacts
    <3>. QED BY <1>2, <1>4, <3>2, Zenon
  <2>. QED BY <1>0, <1>1, <2>1 DEF WalkOnList
<1>12. DueAhead'
  <2>. SUFFICES ASSUME InCheck, NEW x \in InSlots', timeout'[x] <= cur_ms
                PROVE  /\ Between(spos, SlotOf(timeout'[x]), end_pos)
                       /\ SlotOf(timeout'[x]) = spos => x \in From(slots'[spos], next)
    BY <1>0 DEF DueAhead, InCheck
  <2>1. x \in Handle /\ x # h
    <3>1. cur_ms \in Nat /\ clock \in Nat /\ timeout'[h] \in Nat
      BY <1>1, <1>4 DEF TypeOK
    <3>2. cur_ms <= clock /\ timeout'[h] > clock
      BY <1>1, <1>4 DEF ClocksOK
    <3>3. ~(timeout'[h] <= cur_ms)
      BY <3>1, <3>2
    <3>4. x # h
      BY <3>3
    <3>5. x \in ElemsOf(slots')
      BY InSlotsIs
    <3>6. x \in Handle
      BY <1>4, <3>5, ElemsOfType
    <3>. QED BY <3>4, <3>6
  <2>2. x \in InSlots /\ timeout'[x] = timeout[x]
    BY <1>4, <2>1, InSlotsIs
  <2>3. /\ Between(spos, SlotOf(timeout[x]), end_pos)
        /\ SlotOf(timeout[x]) = spos => x \in From(slots[spos], next)
    BY <1>1, <2>2 DEF DueAhead
  <2>4. From(slots[spos], next) \subseteq From(slots'[spos], next)
    BY <1>2, <1>4, FromAppend, Zenon
  <2>. QED BY <2>2, <2>3, <2>4
<1>. QED BY <1>5, <1>6, <1>7, <1>8, <1>9, <1>10, <1>11, <1>12 DEF IInv

\* set_timeout and set_interval.
LEMMA SetTimeoutInv ==
    ASSUME IInv, NEW h \in Handle, NEW ms \in Delays, SetTimeout(h, ms)
    PROVE  IInv'
<1>1. ms \in Nat \ {0} /\ 0 \in Nat
  BY WheelAssumption DEF SetTimeout
<1>. QED BY <1>1, SetInv DEF SetTimeout

LEMMA SetIntervalInv ==
    ASSUME IInv, NEW h \in Handle, NEW itv \in Intervals, SetInterval(h, itv)
    PROVE  IInv'
<1>1. itv \in Nat \ {0}
  BY WheelAssumption
<1>. QED BY <1>1, SetInv DEF SetInterval

\* set_timeout of 0 ms.
LEMMA SetNowInv ==
    ASSUME IInv, NEW h \in Handle, SetNow(h)
    PROVE  IInv'
<1>0. /\ h \notin Linked
      /\ timeout' = [timeout EXCEPT ![h] = 0]
      /\ interval' = [interval EXCEPT ![h] = 0]
      /\ now_list' = Append(now_list, h)
      /\ now_task' = TRUE
      /\ UNCHANGED <<slots, task_num, clock, backs, pos, prev_ms>>
      /\ UNCHANGED <<phase, cur_ms, spos, end_pos, queue, it, next>>
  BY DEF SetNow, time_vars, wheel_vars, walk_vars
<1>1. /\ TypeOK /\ ClocksOK /\ SlotsOK /\ NowOK /\ Counted /\ CallsOK
      /\ WalkOnList /\ DueAhead
  BY DEF IInv
<1>2. /\ now_list \in Seq(Handle) /\ queue \in Seq(Handle)
      /\ slots \in [Slot -> Seq(Handle)]
      /\ timeout \in [Handle -> Nat] /\ interval \in [Handle -> Nat]
  BY <1>1 DEF TypeOK
<1>3. h \notin InSlots /\ h \notin Elems(now_list) /\ h \notin Elems(queue)
  BY <1>0 DEF Linked
<1>4. /\ now_list' \in Seq(Handle)
      /\ Elems(now_list') = Elems(now_list) \cup {h}
      /\ NoDup(now_list) => NoDup(now_list')
  BY <1>0, <1>2, <1>3, AppendFacts
<1>5. /\ timeout' \in [Handle -> Nat] /\ interval' \in [Handle -> Nat]
      /\ timeout'[h] = 0 /\ interval'[h] = 0
      /\ \A x \in Handle \ {h} : timeout'[x] = timeout[x] /\ interval'[x] = interval[x]
  BY <1>0, <1>2
<1>6. /\ InSlots' = InSlots /\ InSlots \subseteq Handle
      /\ \A x \in InSlots : timeout'[x] = timeout[x]
  BY <1>0, <1>2, <1>3, <1>5, InSlotsIs, ElemsOfType, Zenon
<1>7. TypeOK'
  BY <1>0, <1>1, <1>4, <1>5 DEF TypeOK
<1>8. ClocksOK' /\ WalkOnList'
  BY <1>0, <1>1 DEF ClocksOK, InCheck, WalkOnList
<1>9. SlotsOK'
  <2>1. \A i \in Slot : Elems(slots[i]) \subseteq InSlots
    BY DEF InSlots
  <2>. QED BY <1>0, <1>1, <1>6, <2>1 DEF SlotsOK
<1>10. NowOK'
  <2>1. Elems(now_list) \subseteq Handle /\ Elems(queue) \subseteq Handle
    BY <1>2, ElemsType
  <2>. QED BY <1>0, <1>1, <1>3, <1>4, <1>5, <1>6, <2>1 DEF NowOK
<1>11. Counted'
  BY <1>0, <1>1, <1>6 DEF Counted, CountOK
<1>12. CallsOK'
  BY <1>0, <1>1, <1>5 DEF CallsOK, InNow
<1>13. DueAhead'
  BY <1>0, <1>1, <1>6 DEF DueAhead, InCheck
<1>. QED BY <1>7, <1>8, <1>9, <1>10, <1>11, <1>12, <1>13 DEF IInv

\* The first node is the same when another one is unlinked.
LEMMA FirstUnlink ==
    ASSUME NEW s \in Seq(Handle), NEW y \in Handle, y # First(s)
    PROVE  First(Unlink(s, y)) = First(s)
<1>1. CASE y \notin Elems(s)
  BY <1>1 DEF Unlink
<1>2. CASE y \in Elems(s)
  <2>. DEFINE k == CHOOSE i \in 1..Len(s) : s[i] = y
              u == [i \in 1..(Len(s) - 1) |-> IF i < k THEN s[i] ELSE s[i + 1]]
  <2>1. k \in 1..Len(s) /\ s[k] = y
    BY <1>2 DEF Elems
  <2>2. Unlink(s, y) = u
    BY <1>2 DEF Unlink
  <2>. HIDE DEF k
  <2>3. s # <<>> /\ First(s) = s[1]
    BY <2>1 DEF First
  <2>4. k > 1 /\ Len(s) - 1 >= 1
    BY <2>1, <2>3
  <2>5. u[1] = s[1] /\ u # <<>>
    <3>1. 1 \in 1..(Len(s) - 1) /\ 1 < k
      BY <2>1, <2>4
    <3>2. Len(u) = Len(s) - 1
      BY <2>1
    <3>3. u[1] = s[1]
      BY <3>1
    <3>. HIDE DEF u
    <3>4. u # <<>>
      BY <2>4, <3>2
    <3>. QED BY <3>3, <3>4
  <2>. HIDE DEF u
  <2>. QED BY <2>2, <2>3, <2>5 DEF First
<1>. QED BY <1>1, <1>2

\* cancel_timeout, not of the handle the walk has cached.
LEMMA CancelInv ==
    ASSUME IInv, ~NextMayGo, NEW h \in Handle, Cancel(h)
    PROVE  IInv'
<1>0. /\ h \in Linked /\ h # next
      /\ slots' = Removed(h).slots
      /\ task_num' = Removed(h).task_num
      /\ now_list' = Unlink(now_list, h)
      /\ queue' = Unlink(queue, h)
      /\ UNCHANGED <<timeout, interval, now_task, clock, backs, pos, prev_ms>>
      /\ UNCHANGED <<phase, cur_ms, spos, end_pos, it, next>>
  BY DEF Cancel, time_vars, wheel_vars
<1>1. /\ TypeOK /\ ClocksOK /\ SlotsOK /\ NowOK /\ Counted /\ CallsOK
      /\ WalkOnList /\ DueAhead
  BY DEF IInv
<1>2. /\ now_list \in Seq(Handle) /\ queue \in Seq(Handle)
      /\ slots \in [Slot -> Seq(Handle)] /\ spos \in Slot
      /\ NoDup(now_list) /\ NoDup(queue)
  BY <1>1 DEF TypeOK, NowOK
<1>3. /\ slots' \in [Slot -> Seq(Handle)]
      /\ task_num' \in Int
      /\ \A i \in Slot : slots'[i] = Unlink(slots[i], h)
      /\ Sorted(slots', timeout')
      /\ InSlots' = InSlots \ {h}
      /\ IsFiniteSet(InSlots')
      /\ task_num' = Cardinality(InSlots')
  BY <1>0, <1>1, RemovedFacts, InSlotsIs, Zenon
<1>4. /\ now_list' \in Seq(Handle) /\ queue' \in Seq(Handle)
      /\ NoDup(now_list') /\ NoDup(queue')
      /\ Elems(now_list') = Elems(now_list) \ {h}
      /\ Elems(queue') = Elems(queue) \ {h}
  BY <1>0, <1>2, UnlinkFacts
<1>5. /\ NoDup(slots[spos])
      /\ Elems(slots'[spos]) = Elems(slots[spos]) \ {h}
  BY <1>1, <1>2, <1>3, UnlinkFacts DEF SlotsOK
<1>6. TypeOK'
  BY <1>0, <1>1, <1>3, <1>4 DEF TypeOK
<1>7. ClocksOK'
  BY <1>0, <1>1 DEF ClocksOK, InCheck
<1>8. SlotsOK'
  BY <1>0, <1>3, InSlotsIs, Zenon
<1>9. NowOK'
  BY <1>0, <1>1, <1>3, <1>4, Zenon DEF NowOK
<1>10. Counted'
  BY <1>3 DEF Counted, CountOK
<1>11. CallsOK'
  <2>1. InNow => next = First(queue')
    BY <1>0, <1>1, <1>2, FirstUnlink DEF CallsOK
  <2>2. ~InNow => queue' = <<>>
    BY <1>1, <1>2, <1>4, ElemsEmpty, Zenon DEF CallsOK
  <2>. QED BY <1>0, <1>1, <2>1, <2>2 DEF CallsOK, InNow
<1>12. WalkOnList'
  BY <1>0, <1>1, <1>4, <1>5 DEF WalkOnList
<1>13. DueAhead'
  <2>1. From(slots[spos], next) \ {h} \subseteq From(slots'[spos], next)
    BY <1>0, <1>2, <1>3, <1>5, FromUnlink
  <2>. QED BY <1>0, <1>1, <1>3, <2>1 DEF DueAhead, InCheck
<1>. QED BY <1>6, <1>7, <1>8, <1>9, <1>10, <1>11, <1>12, <1>13 DEF IInv

-----------------------------------------------------------------------------
\* The shortcut of check().
LEMMA CheckEmptyInv ==
    ASSUME IInv, CheckEmpty
    PROVE  IInv' /\ InSlots' = {}
<1>0. /\ phase = "idle" /\ task_num <= 0
      /\ pos' = SlotOf(clock) /\ prev_ms' = clock
      /\ UNCHANGED <<slots, now_list, timeout, interval, task_num, now_task, clock, backs>>
      /\ UNCHANGED <<phase, cur_ms, spos, end_pos, queue, it, next>>
  BY DEF CheckEmpty, time_vars, handle_vars, walk_vars
<1>1. TypeOK /\ ClocksOK /\ SlotsOK /\ NowOK /\ Counted /\ CallsOK
  BY DEF IInv
<1>2. InSlots = {}
  <2>1. Cardinality(InSlots) \in Nat /\ Cardinality(InSlots) <= 0
    BY <1>0, <1>1, FS_CardinalityType DEF Counted, CountOK
  <2>. QED BY <1>1, <2>1, FS_EmptySet DEF Counted
<1>3. InSlots' = {}
  BY <1>0, <1>2 DEF InSlots
<1>4. TypeOK'
  BY <1>0, <1>1, SlotType, Zenon DEF TypeOK
<1>5. ClocksOK'
  BY <1>0, <1>1 DEF ClocksOK, InCheck
<1>6. SlotsOK'
  <2>1. \A i \in Slot : Elems(slots[i]) = {}
    BY <1>2 DEF InSlots
  <2>. QED BY <1>0, <1>1, <2>1 DEF SlotsOK
<1>7. NowOK' /\ Counted'
  BY <1>0, <1>1, <1>2, <1>3 DEF NowOK, Counted, CountOK
<1>8. CallsOK' /\ WalkOnList' /\ DueAhead'
  BY <1>0, <1>1 DEF CallsOK, InNow, WalkOnList, DueAhead, InCheck
<1>. QED BY <1>3, <1>4, <1>5, <1>6, <1>7, <1>8 DEF IInv

\* A step of a walk that leaves the handles and the lists alone.
LEMMA SameHandles ==
    ASSUME IInv, UNCHANGED <<handle_vars, prev_ms, queue>>
    PROVE  SlotsOK' /\ NowOK' /\ Counted' /\ InSlots' = InSlots
<1>1. UNCHANGED <<slots, now_list, timeout, interval, task_num, now_task>>
  BY DEF handle_vars
<1>2. InSlots' = InSlots
  BY <1>1 DEF InSlots
<1>. QED BY <1>1, <1>2 DEF IInv, SlotsOK, NowOK, Counted, CountOK

\* check() starts to walk.
LEMMA CheckBeginInv ==
    ASSUME IInv, CheckBegin
    PROVE  IInv'
<1>0. /\ phase = "idle" /\ clock > prev_ms
      /\ phase' = "check" /\ cur_ms' = clock
      /\ spos' = pos /\ end_pos' = LastSlot(clock)
      /\ next' = First(slots[pos])
      /\ UNCHANGED <<slots, now_list, timeout, interval, task_num, now_task>>
      /\ UNCHANGED <<clock, backs, pos, prev_ms, queue, it>>
  BY DEF CheckBegin, time_vars, handle_vars, wheel_vars
<1>1. TypeOK /\ ClocksOK /\ SlotsOK /\ CallsOK
  BY DEF IInv
<1>2. /\ slots \in [Slot -> Seq(Handle)] /\ timeout \in [Handle -> Nat]
      /\ pos \in Slot /\ prev_ms \in Nat /\ clock \in Nat /\ slots[pos] \in Seq(Handle)
  BY <1>1 DEF TypeOK
<1>3. SlotsOK' /\ NowOK' /\ Counted' /\ InSlots' = InSlots
  BY <1>0, SameHandles DEF handle_vars
<1>4. TypeOK'
  <2>1. LastSlot(clock) \in Slot
    <3>1. pos + SlotNum - 1 \in Nat /\ clock \in Nat
      BY <1>2, WheelAssumption DEF Slot
    <3>. QED BY <3>1, SlotType DEF LastSlot, SlotOf
  <2>2. First(slots[pos]) \in Handle \cup {End}
    BY <1>2, FirstFacts, ElemsType
  <2>. QED BY <1>0, <1>1, <2>1, <2>2 DEF TypeOK
<1>5. ClocksOK'
  BY <1>0, <1>1 DEF ClocksOK, TypeOK
<1>6. CallsOK'
  BY <1>0, <1>1 DEF CallsOK, InNow
<1>7. WalkOnList'
  BY <1>0, <1>2, FirstFacts DEF WalkOnList
<1>8. DueAhead'
  <2>. SUFFICES ASSUME NEW x \in InSlots, timeout[x] <= clock
                PROVE  /\ Between(pos, SlotOf(timeout[x]), LastSlot(clock))
                       /\ SlotOf(timeout[x]) = pos => x \in From(slots[pos], First(slots[pos]))
    BY <1>0, <1>3 DEF DueAhead
  <2>1. PICK i \in Slot : x \in Elems(slots[i])
    BY DEF InSlots
  <2>2. x \in Handle /\ SlotOf(timeout[x]) = i /\ timeout[x] \in Nat /\ prev_ms <= timeout[x]
    <3>1. x \in Handle
      BY <1>2, <2>1, ElemsOfType
    <3>. QED BY <1>1, <1>2, <2>1, <3>1 DEF SlotsOK
  <2>3. Between(pos, SlotOf(timeout[x]), LastSlot(clock))
    <3>1. pos = SlotOf(prev_ms)
      BY <1>1 DEF ClocksOK
    <3>. QED BY <1>2, <2>2, <3>1, WalkCovers DEF LastSlot
  <2>4. From(slots[pos], First(slots[pos])) = Elems(slots[pos])
    BY <1>2, FromFirst
  <2>. QED BY <2>1, <2>2, <2>3, <2>4
<1>. QED BY <1>3, <1>4, <1>5, <1>6, <1>7, <1>8 DEF IInv

\* What the walk has yet to see, when a handle of its slot is passed.
LEMMA PassedAhead ==
    ASSUME IInv, phase = "check", next # End
    PROVE  /\ next \in Handle /\ next \in InSlots
           /\ slots[spos] \in Seq(Handle) /\ NoDup(slots[spos]) /\ spos \in Slot
           /\ \/ Succ(slots[spos], next) = End
              \/ Succ(slots[spos], next) \in Elems(slots[spos]) \ {next}
           /\ Succ(slots[spos], next) \in (Handle \cup {End}) \ {next}
           /\ SlotOf(timeout[next]) = spos
           /\ From(slots[spos], next) \ {next}
                \subseteq From(slots[spos], Succ(slots[spos], next))
<1>1. /\ next \in Handle /\ spos \in Slot /\ slots[spos] \in Seq(Handle)
      /\ NoDup(slots[spos]) /\ next \in Elems(slots[spos])
  BY DEF IInv, TypeOK, SlotsOK, WalkOnList
<1>2. \/ Succ(slots[spos], next) = End
      \/ Succ(slots[spos], next) \in Elems(slots[spos]) \ {next}
  BY <1>1, SuccElem
<1>3. Elems(slots[spos]) \subseteq Handle
  BY <1>1, ElemsType
<1>4. next \in InSlots /\ SlotOf(timeout[next]) = spos
  BY <1>1 DEF InSlots, IInv, SlotsOK
<1>. QED BY <1>1, <1>2, <1>3, <1>4, FromSucc

\* A handle of a later turn.
LEMMA CheckSkipInv ==
    ASSUME IInv, CheckSkip
    PROVE  IInv'
<1>0. /\ phase = "check" /\ next # End /\ cur_ms < timeout[next]
      /\ next' = Succ(slots[spos], next)
      /\ UNCHANGED <<slots, now_list, timeout, interval, task_num, now_task>>
      /\ UNCHANGED <<clock, backs, pos, prev_ms, phase, cur_ms, spos, end_pos, queue, it>>
  BY DEF CheckSkip, time_vars, handle_vars, wheel_vars
<1>1. TypeOK /\ ClocksOK /\ CallsOK /\ DueAhead
  BY DEF IInv
<1>2. SlotsOK' /\ NowOK' /\ Counted' /\ InSlots' = InSlots
  BY <1>0, SameHandles DEF handle_vars
<1>3. TypeOK'
  BY <1>0, <1>1, PassedAhead DEF TypeOK
<1>4. ClocksOK' /\ CallsOK'
  BY <1>0, <1>1 DEF ClocksOK, InCheck, CallsOK, InNow
<1>5. WalkOnList'
  BY <1>0, PassedAhead DEF WalkOnList
<1>6. DueAhead'
  <2>. SUFFICES ASSUME NEW x \in InSlots, timeout[x] <= cur_ms
                PROVE  /\ Between(spos, SlotOf(timeout[x]), end_pos)
                       /\ SlotOf(timeout[x]) = spos => x \in From(slots[spos], next')
    BY <1>0, <1>2 DEF DueAhead
  <2>1. x # next
    <3>1. next \in Handle /\ timeout[next] \in Nat /\ cur_ms \in Nat
      BY <1>0, <1>1, PassedAhead DEF TypeOK
    <3>. QED BY <1>0, <3>1
  <2>. QED BY <1>0, <1>1, <2>1, PassedAhead DEF DueAhead, InCheck
<1>. QED BY <1>2, <1>3, <1>4, <1>5, <1>6 DEF IInv

\* What CheckExpire makes of the wheel, for both kinds of timers.
LEMMA ExpireFacts ==
    ASSUME IInv, CheckExpire
    PROVE  /\ slots' \in [Slot -> Seq(Handle)]
           /\ task_num' \in Int
           /\ timeout' \in [Handle -> Nat] /\ interval' \in [Handle -> Nat]
           /\ \A x \in Handle \ {next} : timeout'[x] = timeout[x] /\ interval'[x] = interval[x]
           /\ \A i \in Slot : \/ slots'[i] = Unlink(slots[i], next)
                              \/ slots'[i] = Append(Unlink(slots[i], next), next)
           /\ IF interval[next] # 0
              THEN ElemsOf(slots') = InSlots /\ timeout'[next] > clock
              ELSE ElemsOf(slots') = InSlots \ {next}
           /\ Sorted(slots', timeout')
           /\ IsFiniteSet(ElemsOf(slots')) /\ task_num' = Cardinality(ElemsOf(slots'))
<1>0. /\ phase = "check" /\ next # End /\ it' = next
      /\ IF interval[next] # 0
         THEN Insert(Removed(next), next, interval[next], interval[next])
         ELSE /\ slots' = Removed(next).slots
              /\ task_num' = Removed(next).task_num
              /\ UNCHANGED <<timeout, interval>>
  BY Zenon DEF CheckExpire
<1>1. TypeOK /\ ClocksOK /\ SlotsOK /\ NowOK /\ Counted
  BY DEF IInv
<1>2. next \in Handle /\ next \in InSlots
  BY <1>0, PassedAhead
<1>. DEFINE sl == Removed(next).slots
            n == Removed(next).task_num
<1>3. /\ sl \in [Slot -> Seq(Handle)]
      /\ n \in Int
      /\ \A i \in Slot : sl[i] = Unlink(slots[i], next)
      /\ Sorted(sl, timeout)
      /\ ElemsOf(sl) = InSlots \ {next}
      /\ IsFiniteSet(ElemsOf(sl))
      /\ n = Cardinality(ElemsOf(sl))
  BY <1>1, <1>2, RemovedFacts, Zenon
<1>4. timeout \in [Handle -> Nat] /\ interval \in [Handle -> Nat]
  BY <1>1 DEF TypeOK
<1>5. Removed(next) = [slots |-> sl, task_num |-> n]
  BY DEF Removed
<1>. HIDE DEF sl, n
<1>6. CASE interval[next] # 0
  <2>1. Insert([slots |-> sl, task_num |-> n], next, interval[next], interval[next])
    BY <1>0, <1>5, <1>6
  <2>2. interval[next] \in Nat \ {0} /\ interval[next] \in Nat /\ next \notin ElemsOf(sl)
    BY <1>2, <1>3, <1>4, <1>6
  <2>3. /\ slots' \in [Slot -> Seq(Handle)]
        /\ task_num' \in Int
        /\ timeout' \in [Handle -> Nat] /\ interval' \in [Handle -> Nat]
        /\ timeout'[next] > clock
        /\ \A x \in Handle \ {next} : timeout'[x] = timeout[x] /\ interval'[x] = interval[x]
        /\ \A i \in Slot : slots'[i] = sl[i] \/ slots'[i] = Append(sl[i], next)
        /\ ElemsOf(slots') = ElemsOf(sl) \cup {next}
        /\ Sorted(slots', timeout')
        /\ IsFiniteSet(ElemsOf(slots')) /\ task_num' = Cardinality(ElemsOf(slots'))
    BY <1>1, <1>2, <1>3, <2>1, <2>2, InsertFacts, ZenonT(30)
  <2>. QED BY <1>2, <1>3, <1>6, <2>3, Zenon
<1>7. CASE interval[next] = 0
  <2>1. slots' = sl /\ task_num' = n /\ timeout' = timeout /\ interval' = interval
    BY <1>0, <1>7 DEF sl, n
  <2>. QED BY <1>3, <1>4, <1>7, <2>1, Zenon
<1>. QED BY <1>6, <1>7, Zenon

\* A handle that expires.
LEMMA CheckExpireInv ==
    ASSUME IInv, CheckExpire
    PROVE  IInv'
<1>0. /\ phase = "check" /\ next # End
      /\ it' = next /\ next' = Succ(slots[spos], next) /\ phase' = "check_fn"
      /\ UNCHANGED <<now_list, now_task, clock, backs, pos, prev_ms>>
      /\ UNCHANGED <<cur_ms, spos, end_pos, queue>>
  BY DEF CheckExpire, time_vars, wheel_vars
<1>1. /\ TypeOK /\ ClocksOK /\ SlotsOK /\ NowOK /\ CallsOK /\ DueAhead
  BY DEF IInv
<1>2. /\ next \in Handle /\ next \in InSlots
      /\ slots[spos] \in Seq(Handle) /\ NoDup(slots[spos]) /\ spos \in Slot
      /\ next' = End \/ next' \in Elems(slots[spos]) \ {next}
      /\ next' \in (Handle \cup {End}) \ {next}
      /\ From(slots[spos], next) \ {next} \subseteq From(slots[spos], next')
  BY <1>0, PassedAhead
<1>3. /\ slots' \in [Slot -> Seq(Handle)]
      /\ task_num' \in Int
      /\ timeout' \in [Handle -> Nat] /\ interval' \in [Handle -> Nat]
      /\ \A x \in Handle \ {next} : timeout'[x] = timeout[x] /\ interval'[x] = interval[x]
      /\ \/ slots'[spos] = Unlink(slots[spos], next)
         \/ slots'[spos] = Append(Unlink(slots[spos], next), next)
      /\ IF interval[next] # 0
         THEN InSlots' = InSlots /\ timeout'[next] > clock
         ELSE InSlots' = InSlots \ {next}
      /\ Sorted(slots', timeout')
      /\ IsFiniteSet(InSlots') /\ task_num' = Cardinality(InSlots')
  BY <1>2, ExpireFacts, InSlotsIs
<1>4. InSlots' \subseteq InSlots /\ InSlots \subseteq Handle
  <2>1. InSlots \subseteq Handle
    BY <1>1, InSlotsIs, ElemsOfType, Zenon DEF TypeOK
  <2>. QED BY <1>3, <2>1, Zenon
<1>5. TypeOK'
  BY <1>0, <1>1, <1>2, <1>3 DEF TypeOK
<1>6. ClocksOK'
  BY <1>0, <1>1 DEF ClocksOK, InCheck
<1>7. SlotsOK'
  BY <1>0, <1>3, InSlotsIs
<1>8. NowOK'
  <2>1. Elems(now_list) \subseteq Handle /\ Elems(queue) \subseteq Handle
    BY <1>1, ElemsType DEF TypeOK
  <2>2. next \notin Elems(now_list) \cup Elems(queue)
    BY <1>1, <1>2 DEF NowOK
  <2>. QED BY <1>0, <1>1, <1>3, <1>4, <2>1, <2>2, Zenon DEF NowOK
<1>9. Counted'
  BY <1>3 DEF Counted, CountOK
<1>10. CallsOK'
  BY <1>0, <1>1, <1>2 DEF CallsOK, InNow
<1>. DEFINE u == Unlink(slots[spos], next)
<1>12. u \in Seq(Handle) /\ Elems(u) = Elems(slots[spos]) \ {next}
  BY <1>2, UnlinkFacts
<1>13. WalkOnList'
  <2>1. Elems(u) \subseteq Elems(slots'[spos])
    <3>1. Elems(Append(u, next)) = Elems(u) \cup {next}
      BY <1>2, <1>12, AppendFacts
    <3>. QED BY <1>3, <3>1, Zenon
  <2>. QED BY <1>0, <1>2, <1>12, <2>1 DEF WalkOnList
<1>14. DueAhead'
  <2>. SUFFICES ASSUME NEW x \in InSlots', timeout'[x] <= cur_ms
                PROVE  /\ Between(spos, SlotOf(timeout'[x]), end_pos)
                       /\ SlotOf(timeout'[x]) = spos => x \in From(slots'[spos], next')
    BY <1>0, Zenon DEF DueAhead
  <2>1. x # next
    <3>1. timeout'[next] \in Nat /\ cur_ms \in Nat /\ clock \in Nat /\ cur_ms <= clock
      BY <1>0, <1>1, <1>2, <1>3 DEF ClocksOK, InCheck, TypeOK
    <3>. QED BY <1>3, <3>1
  <2>2. x \in InSlots /\ timeout'[x] = timeout[x]
    BY <1>3, <1>4, <2>1, Zenon
  <2>3. /\ Between(spos, SlotOf(timeout[x]), end_pos)
        /\ SlotOf(timeout[x]) = spos => x \in From(slots[spos], next)
    BY <1>0, <1>1, <2>2 DEF DueAhead, InCheck
  <2>4. From(slots[spos], next') \ {next} \subseteq From(u, next')
    BY <1>2, FromUnlink
  <2>5. From(u, next') \subseteq From(slots'[spos], next')
    BY <1>2, <1>3, <1>12, FromAppend, Zenon
  <2>. QED BY <1>2, <2>1, <2>2, <2>3, <2>4, <2>5, Zenon
<1>. QED BY <1>5, <1>6, <1>7, <1>8, <1>9, <1>10, <1>13, <1>14 DEF IInv

\* The callback returns to check().
LEMMA CheckReturnInv ==
    ASSUME IInv, CheckReturn
    PROVE  IInv'
<1>0. /\ phase = "check_fn" /\ phase' = "check"
      /\ UNCHANGED <<slots, now_list, timeout, interval, task_num, now_task>>
      /\ UNCHANGED <<clock, backs, pos, prev_ms>>
      /\ UNCHANGED <<cur_ms, spos, end_pos, queue, it, next>>
  BY DEF CheckReturn, time_vars, handle_vars, wheel_vars
<1>1. TypeOK /\ ClocksOK /\ CallsOK /\ WalkOnList /\ DueAhead
  BY DEF IInv
<1>2. SlotsOK' /\ NowOK' /\ Counted' /\ InSlots' = InSlots
  BY <1>0, SameHandles DEF handle_vars
<1>3. TypeOK'
  BY <1>0, <1>1 DEF TypeOK
<1>4. ClocksOK' /\ CallsOK' /\ WalkOnList'
  BY <1>0, <1>1 DEF ClocksOK, InCheck, CallsOK, InNow, WalkOnList
<1>5. DueAhead'
  BY <1>0, <1>1, <1>2 DEF DueAhead, InCheck
<1>. QED BY <1>2, <1>3, <1>4, <1>5 DEF IInv

\* check() goes on to the next slot.
LEMMA CheckNextSlotInv ==
    ASSUME IInv, CheckNextSlot
    PROVE  IInv'
<1>0. /\ phase = "check" /\ next = End /\ spos # end_pos
      /\ spos' = (spos + 1) % SlotNum
      /\ next' = First(slots[spos'])
      /\ UNCHANGED <<slots, now_list, timeout, interval, task_num, now_task>>
      /\ UNCHANGED <<clock, backs, pos, prev_ms, phase, cur_ms, end_pos, queue, it>>
  BY DEF CheckNextSlot, time_vars, handle_vars, wheel_vars
<1>1. TypeOK /\ ClocksOK /\ SlotsOK /\ CallsOK /\ DueAhead
  BY DEF IInv
<1>2. SlotsOK' /\ NowOK' /\ Counted' /\ InSlots' = InSlots
  BY <1>0, SameHandles DEF handle_vars
<1>3. spos \in Slot /\ end_pos \in Slot /\ slots \in [Slot -> Seq(Handle)]
  BY <1>1 DEF TypeOK
<1>4. spos' \in Slot
  BY <1>0, <1>3, NextSlot, WheelAssumption DEF Slot
<1>5. slots[spos'] \in Seq(Handle) /\ slots[spos] \in Seq(Handle)
  BY <1>3, <1>4
<1>6. TypeOK'
  <2>1. next' \in Handle \cup {End}
    BY <1>0, <1>5, FirstFacts, ElemsType
  <2>. QED BY <1>0, <1>1, <1>4, <2>1 DEF TypeOK
<1>7. ClocksOK' /\ CallsOK'
  BY <1>0, <1>1 DEF ClocksOK, InCheck, CallsOK, InNow
<1>8. WalkOnList'
  BY <1>0, <1>5, FirstFacts DEF WalkOnList
<1>9. DueAhead'
  <2>. SUFFICES ASSUME NEW x \in InSlots, timeout[x] <= cur_ms
                PROVE  /\ Between(spos', SlotOf(timeout[x]), end_pos)
                       /\ SlotOf(timeout[x]) = spos' => x \in From(slots[spos'], next')
    BY <1>0, <1>2 DEF DueAhead
  <2>1. PICK i \in Slot : x \in Elems(slots[i])
    BY DEF InSlots
  <2>2. SlotOf(timeout[x]) = i
    BY <1>1, <2>1 DEF SlotsOK
  <2>3. Between(spos, i, end_pos) /\ i # spos
    <3>1. From(slots[spos], End) = {}
      BY <1>5, FromFirst
    <3>. QED BY <1>0, <1>1, <2>2, <3>1 DEF DueAhead, InCheck
  <2>4. Between(spos', i, end_pos)
    BY <1>0, <1>3, <2>3, BetweenNext
  <2>5. From(slots[spos'], next') = Elems(slots[spos'])
    BY <1>0, <1>5, FromFirst
  <2>. QED BY <2>1, <2>2, <2>4, <2>5
<1>. QED BY <1>2, <1>6, <1>7, <1>8, <1>9 DEF IInv

\* The end of check(): whatever was due has been seen.
LEMMA CheckEndInv ==
    ASSUME IInv, CheckEnd
    PROVE  IInv' /\ \A h \in InSlots' : timeout'[h] > prev_ms'
<1>0. /\ phase = "check" /\ next = End /\ spos = end_pos
      /\ pos' = SlotOf(cur_ms) /\ prev_ms' = cur_ms
      /\ phase' = "idle" /\ cur_ms' = 0 /\ spos' = 0 /\ end_pos' = 0
      /\ it' = End /\ next' = End
      /\ UNCHANGED <<slots, now_list, timeout, interval, task_num, now_task>>
      /\ UNCHANGED <<clock, backs, queue>>
  BY DEF CheckEnd, WalkOver, time_vars, handle_vars
<1>1. TypeOK /\ ClocksOK /\ SlotsOK /\ NowOK /\ Counted /\ CallsOK /\ DueAhead
  BY DEF IInv
<1>2. /\ spos \in Slot /\ cur_ms \in Nat /\ slots \in [Slot -> Seq(Handle)]
      /\ timeout \in [Handle -> Nat] /\ slots[spos] \in Seq(Handle)
  BY <1>1 DEF TypeOK
<1>3. InSlots' = InSlots
  BY <1>0 DEF InSlots
<1>4. ASSUME NEW i \in Slot, NEW x \in Elems(slots[i])
      PROVE  timeout[x] > cur_ms
  <2>1. SlotOf(timeout[x]) = i /\ x \in InSlots
    BY <1>1 DEF SlotsOK, InSlots
  <2>2. timeout[x] \in Nat
    BY <1>2, <2>1, InSlotsIs, ElemsOfType
  <2>. SUFFICES ASSUME timeout[x] <= cur_ms PROVE FALSE
    BY <1>2, <2>2
  <2>3. Between(spos, i, spos) /\ (i = spos => x \in From(slots[spos], End))
    BY <1>0, <1>1, <2>1 DEF DueAhead, InCheck
  <2>4. i = spos
    BY <1>2, <2>3 DEF Between, Slot
  <2>. QED BY <1>2, <2>3, <2>4, FromFirst
<1>5. \A h \in InSlots' : timeout'[h] > prev_ms'
  BY <1>0, <1>3, <1>4, Zenon DEF InSlots
<1>6. TypeOK'
  <2>1. 0 \in Slot
    BY WheelAssumption DEF Slot
  <2>. QED BY <1>0, <1>1, <1>2, <2>1, SlotType, Zenon DEF TypeOK
<1>7. ClocksOK'
  BY <1>0, <1>1 DEF ClocksOK, InCheck
<1>8. SlotsOK'
  <2>1. \A i \in Slot : \A x \in Elems(slots[i]) : x \in Handle
    BY <1>2, ElemsOfType
  <2>. QED BY <1>0, <1>1, <1>2, <1>4, <2>1 DEF SlotsOK
<1>9. NowOK' /\ Counted'
  BY <1>0, <1>1, <1>3 DEF NowOK, Counted, CountOK
<1>10. CallsOK' /\ WalkOnList' /\ DueAhead'
  BY <1>0, <1>1 DEF CallsOK, InNow, WalkOnList, DueAhead, InCheck
<1>. QED BY <1>5, <1>6, <1>7, <1>8, <1>9, <1>10 DEF IInv

-----------------------------------------------------------------------------
\* do_now_task takes the list.
LEMMA NowBeginInv ==
    ASSUME IInv, NowBegin
    PROVE  IInv'
<1>0. /\ phase = "idle" /\ phase' = "now" /\ now_task' = FALSE
      /\ queue' = now_list /\ now_list' = <<>> /\ next' = First(now_list)
      /\ UNCHANGED <<slots, timeout, interval, task_num, clock, backs, pos, prev_ms>>
      /\ UNCHANGED <<cur_ms, spos, end_pos, it>>
  BY DEF NowBegin, time_vars, wheel_vars
<1>1. TypeOK /\ ClocksOK /\ SlotsOK /\ NowOK /\ Counted /\ CallsOK
  BY DEF IInv
<1>2. InSlots' = InSlots /\ now_list \in Seq(Handle)
  BY <1>0, <1>1 DEF InSlots, TypeOK
<1>3. Elems(<<>>) = {} /\ NoDup(<<>>) /\ <<>> \in Seq(Handle)
  BY DEF Elems, NoDup
<1>4. TypeOK'
  <2>1. First(now_list) \in Handle \cup {End}
    BY <1>2, FirstFacts, ElemsType
  <2>. QED BY <1>0, <1>1, <1>3, <2>1, Zenon DEF TypeOK
<1>5. ClocksOK' /\ SlotsOK' /\ Counted'
  BY <1>0, <1>1, <1>2 DEF ClocksOK, InCheck, SlotsOK, Counted, CountOK
<1>6. NowOK'
  BY <1>0, <1>1, <1>2, <1>3 DEF NowOK
<1>7. CallsOK' /\ DueAhead'
  BY <1>0 DEF CallsOK, InNow, DueAhead, InCheck
<1>8. WalkOnList'
  BY <1>0, <1>2, FirstFacts DEF WalkOnList
<1>. QED BY <1>4, <1>5, <1>6, <1>7, <1>8 DEF IInv

\* do_now_task calls the first handle of the list that it took.
LEMMA NowCallInv ==
    ASSUME IInv, NowCall
    PROVE  IInv' /\ next \in Elems(queue) /\ next \in Handle
                 /\ Elems(queue') = Elems(queue) \ {next}
<1>0. /\ phase = "now" /\ next # End /\ phase' = "now_fn"
      /\ it' = next /\ next' = Succ(queue, next) /\ queue' = Unlink(queue, next)
      /\ UNCHANGED <<slots, now_list, timeout, interval, task_num, now_task>>
      /\ UNCHANGED <<clock, backs, pos, prev_ms, cur_ms, spos, end_pos>>
  BY DEF NowCall, time_vars, wheel_vars, handle_vars
<1>1. TypeOK /\ ClocksOK /\ SlotsOK /\ NowOK /\ Counted /\ CallsOK /\ WalkOnList
  BY DEF IInv
<1>2. InSlots' = InSlots
  BY <1>0 DEF InSlots
<1>3. /\ queue \in Seq(Handle) /\ NoDup(queue) /\ next \in Elems(queue)
      /\ next = First(queue) /\ next \in Handle
  BY <1>0, <1>1 DEF TypeOK, NowOK, WalkOnList, CallsOK, InNow
<1>4. queue # <<>> /\ next = Head(queue)
  BY <1>0, <1>3, FirstFacts
<1>5. queue' = Tail(queue) /\ queue' \in Seq(Handle) /\ next' = First(queue')
  <2>1. /\ Unlink(queue, next) = Tail(queue) /\ Tail(queue) \in Seq(Handle)
        /\ Tail(queue) = <<>> => Succ(queue, next) = End
        /\ Tail(queue) # <<>> => Succ(queue, next) = Head(Tail(queue))
    BY <1>3, <1>4, UnlinkHead, TailFacts
  <2>. QED BY <1>0, <2>1, FirstFacts, Zenon
<1>6. Elems(queue') = Elems(queue) \ {next} /\ NoDup(queue')
  BY <1>0, <1>3, UnlinkFacts
<1>7. TypeOK'
  <2>1. next' \in Handle \cup {End}
    BY <1>5, FirstFacts, ElemsType, Zenon
  <2>. QED BY <1>0, <1>1, <1>3, <1>5, <2>1 DEF TypeOK
<1>8. ClocksOK' /\ SlotsOK' /\ Counted'
  BY <1>0, <1>1, <1>2 DEF ClocksOK, InCheck, SlotsOK, Counted, CountOK
<1>9. NowOK'
  BY <1>0, <1>1, <1>2, <1>6 DEF NowOK
<1>10. CallsOK' /\ DueAhead'
  BY <1>0, <1>1, <1>3, <1>5, Zenon DEF CallsOK, InNow, DueAhead, InCheck, NowOK
<1>11. WalkOnList'
  BY <1>0, <1>5, FirstFacts, Zenon DEF WalkOnList
<1>. QED BY <1>3, <1>6, <1>7, <1>8, <1>9, <1>10, <1>11 DEF IInv

\* The callback returns to do_now_task: its handle is not periodic.
LEMMA NowReturnInv ==
    ASSUME IInv, NowReturn
    PROVE  IInv' /\ UNCHANGED <<slots, timeout, interval, task_num>>
<1>0. /\ phase = "now_fn" /\ phase' = "now"
      /\ UNCHANGED <<slots, now_list, timeout, interval, task_num, now_task>>
      /\ UNCHANGED <<clock, backs, pos, prev_ms>>
      /\ UNCHANGED <<cur_ms, spos, end_pos, queue, it, next>>
  BY DEF NowReturn, time_vars, wheel_vars, IInv, CallsOK
<1>1. TypeOK /\ ClocksOK /\ CallsOK /\ WalkOnList
  BY DEF IInv
<1>2. SlotsOK' /\ NowOK' /\ Counted'
  BY <1>0, SameHandles DEF handle_vars
<1>3. TypeOK'
  BY <1>0, <1>1 DEF TypeOK
<1>4. ClocksOK' /\ CallsOK' /\ WalkOnList' /\ DueAhead'
  BY <1>0, <1>1, Zenon DEF ClocksOK, InCheck, CallsOK, InNow, WalkOnList, DueAhead
<1>. QED BY <1>0, <1>2, <1>3, <1>4 DEF IInv

\* do_now_task comes to the end of its list.
LEMMA NowEndInv ==
    ASSUME IInv, NowEnd
    PROVE  IInv'
<1>0. /\ phase = "now" /\ next = End
      /\ phase' = "idle" /\ cur_ms' = 0 /\ spos' = 0 /\ end_pos' = 0
      /\ it' = End /\ next' = End
      /\ UNCHANGED <<slots, now_list, timeout, interval, task_num, now_task>>
      /\ UNCHANGED <<clock, backs, pos, prev_ms, queue>>
  BY DEF NowEnd, WalkOver, time_vars, handle_vars, wheel_vars
<1>1. TypeOK /\ ClocksOK /\ CallsOK
  BY DEF IInv
<1>2. SlotsOK' /\ NowOK' /\ Counted'
  BY <1>0, SameHandles DEF handle_vars
<1>3. queue = <<>>
  <2>1. queue \in Seq(Handle) /\ First(queue) = End
    BY <1>0, <1>1 DEF TypeOK, CallsOK, InNow
  <2>. QED BY <2>1, FirstFacts, ElemsType, WheelAssumption
<1>4. TypeOK'
  <2>1. 0 \in Slot
    BY WheelAssumption DEF Slot
  <2>. QED BY <1>0, <1>1, <2>1 DEF TypeOK
<1>5. ClocksOK' /\ CallsOK' /\ WalkOnList' /\ DueAhead'
  BY <1>0, <1>1, <1>3 DEF ClocksOK, InCheck, CallsOK, InNow, WalkOnList, DueAhead
<1>. QED BY <1>2, <1>4, <1>5 DEF IInv

-----------------------------------------------------------------------------
\* Only the clock moves.
LEMMA ClockInv ==
    ASSUME IInv, clock' \in Nat, clock' >= StartMs, clock' >= clock \/ phase = "idle",
           backs' \in Nat, UNCHANGED <<handle_vars, wheel_vars, walk_vars>>
    PROVE  IInv'
<1>0. /\ UNCHANGED <<slots, now_list, timeout, interval, task_num, now_task, pos, prev_ms>>
      /\ UNCHANGED <<phase, cur_ms, spos, end_pos, queue, it, next>>
  BY DEF handle_vars, wheel_vars, walk_vars
<1>1. TypeOK /\ ClocksOK /\ CallsOK /\ WalkOnList /\ DueAhead
  BY DEF IInv
<1>2. SlotsOK' /\ NowOK' /\ Counted' /\ InSlots' = InSlots
  BY <1>0, SameHandles
<1>3. TypeOK'
  BY <1>0, <1>1 DEF TypeOK
<1>4. ClocksOK'
  BY <1>0, <1>1 DEF ClocksOK, InCheck, TypeOK
<1>5. CallsOK' /\ WalkOnList' /\ DueAhead'
  BY <1>0, <1>1, <1>2, Zenon DEF CallsOK, InNow, WalkOnList, DueAhead, InCheck
<1>. QED BY <1>2, <1>3, <1>4, <1>5 DEF IInv

\* Every step keeps the invariant.
LEMMA Inductive == ~NextMayGo /\ IInv /\ [Next]_vars => IInv'
<1>. SUFFICES ASSUME ~NextMayGo, IInv, [Next]_vars PROVE IInv'
  OBVIOUS
<1>0. clock \in Nat /\ backs \in Nat /\ clock >= StartMs /\ StartMs \in Nat
  BY WheelAssumption DEF IInv, TypeOK, ClocksOK
<1>1. CASE \E h \in Handle, ms \in Delays : SetTimeout(h, ms)
  BY <1>1, SetTimeoutInv
<1>2. CASE \E h \in Handle, itv \in Intervals : SetInterval(h, itv)
  BY <1>2, SetIntervalInv
<1>3. CASE \E h \in Handle : SetNow(h)
  BY <1>3, SetNowInv
<1>4. CASE \E h \in Handle : Cancel(h)
  BY <1>4, CancelInv
<1>5. CASE CheckEmpty
  BY <1>5, CheckEmptyInv
<1>6. CASE CheckStep
  BY <1>6, CheckBeginInv, CheckExpireInv, CheckSkipInv, CheckReturnInv,
     CheckNextSlotInv, CheckEndInv DEF CheckStep
<1>7. CASE NowStep
  BY <1>7, NowBeginInv, NowCallInv, NowReturnInv, NowEndInv DEF NowStep
<1>8. ASSUME NEW ms \in 1..MaxJump, Tick(ms) PROVE IInv'
  BY <1>0, <1>8, ClockInv DEF Tick
<1>9. CASE SetBack
  BY <1>0, <1>9, ClockInv DEF SetBack
<1>10. CASE UNCHANGED vars
  <2>1. clock' = clock /\ backs' = backs /\ UNCHANGED <<handle_vars, wheel_vars, walk_vars>>
    BY <1>10 DEF vars, handle_vars, wheel_vars, walk_vars
  <2>. QED BY <1>0, <2>1, ClockInv
<1>. QED
  BY <1>1, <1>2, <1>3, <1>4, <1>5, <1>6, <1>7, <1>8, <1>9, <1>10 DEF Next

\* The invariant holds throughout.
LEMMA Invariant == ~NextMayGo => (Spec => []IInv)
<1>. SUFFICES ASSUME ~NextMayGo PROVE Spec => []IInv
  OBVIOUS
<1>1. IInv /\ [Next]_vars => IInv'
  BY Inductive
<1>. QED BY <1>1, InitInv, PTL DEF Spec

\* Every variable has its type.
THEOREM TypeCorrect == ~NextMayGo => (Spec => []TypeOK)
<1>1. IInv => TypeOK
  BY DEF IInv
<1>. QED BY <1>1, Invariant, PTL

\* task_num is the number of handles in the slots, so the shortcut of check() never
\* passes over a timer (set_timeout_impl, cancel_timeout, check).
THEOREM Counts == ~NextMayGo => (Spec => []CountOK)
<1>1. IInv => CountOK
  BY DEF IInv, Counted
<1>. QED BY <1>1, Invariant, PTL

\* As long as no callback cancels the handle that a walk has cached, that handle is
\* on the list when the walk gets to it (the loops of check and do_now_task).
THEOREM WalksOnList == ~NextMayGo => (Spec => []WalkOnList)
<1>1. IInv => WalkOnList
  BY DEF IInv
<1>. QED BY <1>1, Invariant, PTL

\* When check() ends or takes its shortcut, no timer that was due by then is left in
\* the wheel (check, set_timeout_impl).
THEOREM NoneOverdue == ~NextMayGo => (Spec => NothingOverdue)
<1>. SUFFICES ASSUME ~NextMayGo PROVE Spec => NothingOverdue
  OBVIOUS
<1>1. IInv /\ [Next]_vars =>
        [(phase = "check" /\ phase' = "idle") \/ prev_ms' # prev_ms =>
            \A h \in InSlots' : timeout'[h] > prev_ms']_vars
  <2>. SUFFICES ASSUME IInv, Next, (phase = "check" /\ phase' = "idle") \/ prev_ms' # prev_ms
                PROVE  \A h \in InSlots' : timeout'[h] > prev_ms'
    OBVIOUS
  <2>1. CASE CheckEmpty
    BY <2>1, CheckEmptyInv
  <2>2. CASE CheckEnd
    BY <2>2, CheckEndInv
  <2>3. CASE ~CheckEmpty /\ ~CheckEnd
    <3>1. prev_ms' = prev_ms /\ (phase = "check" => phase' # "idle")
      BY <2>3, Zenon DEF Next, CheckStep, NowStep, SetTimeout, SetInterval, SetNow, Cancel,
         UserRuns, CheckBegin, CheckExpire, CheckSkip, CheckReturn, CheckNextSlot,
         NowBegin, NowCall, NowReturn, NowEnd, Tick, SetBack, wheel_vars, walk_vars
    <3>. QED BY <3>1
  <2>. QED BY <2>1, <2>2, <2>3
<1>. QED BY <1>1, Invariant, PTL DEF Spec, NothingOverdue

-----------------------------------------------------------------------------
\* The deadlines of the wheel before and after a step.
LEMMA DeadlinesAre ==
    /\ Deadlines = [h \in Handle |->
            IF h \in InSlots THEN timeout[h]
            ELSE IF h \in Elems(now_list) \cup Elems(queue) THEN 0 ELSE -1]
    /\ Deadlines' = [h \in Handle |->
            IF h \in InSlots' THEN timeout'[h]
            ELSE IF h \in Elems(now_list') \cup Elems(queue') THEN 0 ELSE -1]
BY DEF Deadlines

\* Only one deadline moves.
LEMMA MoveOne ==
    ASSUME NEW h \in Handle,
           \A x \in Handle \ {h} :
              /\ x \in InSlots' <=> x \in InSlots
              /\ x \in InSlots => timeout'[x] = timeout[x]
              /\ x \in Elems(now_list') \cup Elems(queue')
                   <=> x \in Elems(now_list) \cup Elems(queue)
    PROVE  Abstract!Move(h)
<1>1. \A x \in Handle \ {h} : Deadlines'[x] = Deadlines[x]
  BY DeadlinesAre
<1>2. Deadlines' = [Deadlines EXCEPT ![h] = Deadlines'[h]]
  BY <1>1, DeadlinesAre
<1>. QED BY <1>2 DEF Abstract!Move

\* The wheel starts with no deadline.
LEMMA InitRefines == Init => Abstract!TInit
<1>. SUFFICES ASSUME Init PROVE Abstract!TInit
  OBVIOUS
<1>1. Elems(<<>>) = {} /\ \A i \in Slot : slots[i] = <<>>
  BY DEF Init, Elems
<1>2. InSlots = {} /\ Elems(now_list) = {} /\ Elems(queue) = {}
  BY <1>1 DEF Init, InSlots
<1>3. Deadlines = [h \in Handle |-> -1]
  BY <1>2 DEF Deadlines
<1>. QED BY <1>3, WheelAssumption DEF Init, Abstract!TInit

\* A step that leaves deadlines, callback and clock alone.
LEMMA Stutters ==
    ASSUME UNCHANGED <<slots, now_list, timeout, queue, clock>>,
           phase \in {"check_fn", "now_fn"} <=> phase' \in {"check_fn", "now_fn"},
           phase \in {"check_fn", "now_fn"} => it' = it
    PROVE  UNCHANGED Abstract!tvars
<1>1. InSlots' = InSlots
  BY DEF InSlots
<1>2. Deadlines' = Deadlines
  BY <1>1, DeadlinesAre
<1>. QED BY <1>2 DEF Abstract!tvars

\* set_timeout and set_interval set a timer.
LEMMA SetRefines ==
    ASSUME IInv, NEW h \in Handle, h \notin Linked,
           NEW ms \in Nat \ {0}, NEW itv \in Nat,
           Insert([slots |-> slots, task_num |-> task_num], h, ms, itv),
           UNCHANGED <<now_list, now_task, time_vars, wheel_vars, walk_vars>>
    PROVE  Abstract!Set(h)
<1>1. UNCHANGED <<now_list, clock, phase, queue, it>>
  BY DEF time_vars, walk_vars
<1>2. /\ InSlots' = InSlots \cup {h} /\ timeout'[h] > clock
      /\ \A x \in Handle \ {h} : timeout'[x] = timeout[x]
  BY SetFacts, InSlotsIs
<1>3. Deadlines[h] = -1 /\ Deadlines'[h] > clock
  BY <1>2, DeadlinesAre, Zenon DEF Linked
<1>4. Abstract!Move(h)
  BY <1>1, <1>2, MoveOne, Zenon
<1>. QED BY <1>1, <1>3, <1>4 DEF Abstract!Set

\* set_timeout of 0 ms sets one that is due at once.
LEMMA SetNowRefines ==
    ASSUME IInv, NEW h \in Handle, SetNow(h)
    PROVE  Abstract!Set(h)
<1>1. /\ h \notin Linked
      /\ timeout' = [timeout EXCEPT ![h] = 0] /\ now_list' = Append(now_list, h)
      /\ UNCHANGED <<slots, clock, phase, queue, it>>
  BY DEF SetNow, time_vars, walk_vars
<1>2. now_list \in Seq(Handle) /\ timeout \in [Handle -> Nat]
  BY DEF IInv, TypeOK
<1>3. /\ InSlots' = InSlots /\ Elems(now_list') = Elems(now_list) \cup {h}
      /\ \A x \in Handle \ {h} : timeout'[x] = timeout[x]
  BY <1>1, <1>2, AppendFacts DEF InSlots
<1>4. Deadlines[h] = -1 /\ Deadlines'[h] = 0
  BY <1>1, <1>3, DeadlinesAre DEF Linked
<1>5. Abstract!Move(h)
  BY <1>1, <1>3, MoveOne
<1>. QED BY <1>1, <1>4, <1>5, Zenon DEF Abstract!Set

\* cancel_timeout takes a timer down.
LEMMA CancelRefines ==
    ASSUME IInv, NEW h \in Handle, Cancel(h)
    PROVE  Abstract!Cancel(h)
<1>1. /\ h \in Linked /\ slots' = Removed(h).slots
      /\ now_list' = Unlink(now_list, h) /\ queue' = Unlink(queue, h)
      /\ UNCHANGED <<timeout, clock, phase, it>>
  BY DEF Cancel, time_vars
<1>2. /\ TypeOK /\ SlotsOK /\ NowOK /\ Counted
      /\ now_list \in Seq(Handle) /\ queue \in Seq(Handle)
      /\ NoDup(now_list) /\ NoDup(queue) /\ timeout \in [Handle -> Nat]
  BY DEF IInv, TypeOK, NowOK
<1>3. /\ InSlots' = InSlots \ {h}
      /\ Elems(now_list') = Elems(now_list) \ {h}
      /\ Elems(queue') = Elems(queue) \ {h}
  <2>1. InSlots' = InSlots \ {h}
    BY <1>1, <1>2, RemovedFacts, InSlotsIs, Zenon
  <2>2. Elems(now_list') = Elems(now_list) \ {h} /\ Elems(queue') = Elems(queue) \ {h}
    BY <1>1, <1>2, UnlinkFacts
  <2>. QED BY <2>1, <2>2
<1>4. Deadlines[h] # -1
  <2>1. timeout[h] # -1
    BY <1>2
  <2>. QED BY <1>1, <2>1, DeadlinesAre DEF Linked
<1>5. Deadlines'[h] = -1
  BY <1>3, DeadlinesAre
<1>6. Deadlines' = [Deadlines EXCEPT ![h] = -1]
  <2>1. Deadlines' = [Deadlines EXCEPT ![h] = Deadlines'[h]]
    BY <1>1, <1>3, MoveOne DEF Abstract!Move
  <2>. QED BY <1>5, <2>1
<1>. QED BY <1>1, <1>4, <1>6 DEF Abstract!Cancel

\* check() calls back for a timer that is set and due.
LEMMA CheckExpireRefines ==
    ASSUME IInv, CheckExpire
    PROVE  next \in Handle /\ Abstract!Fire(next)
<1>1. /\ phase = "check" /\ next # End /\ cur_ms >= timeout[next]
      /\ it' = next /\ phase' = "check_fn"
      /\ UNCHANGED <<now_list, clock, queue>>
  BY Zenon DEF CheckExpire, time_vars
<1>2. /\ NowOK /\ clock \in Nat /\ cur_ms \in Nat /\ timeout \in [Handle -> Nat]
      /\ cur_ms <= clock
  BY <1>1 DEF IInv, TypeOK, ClocksOK, InCheck
<1>3. next \in Handle /\ next \in InSlots
  BY <1>1, PassedAhead
<1>4. /\ \A x \in Handle \ {next} : timeout'[x] = timeout[x]
      /\ \/ InSlots' = InSlots /\ timeout'[next] > clock
         \/ InSlots' = InSlots \ {next}
  BY ExpireFacts, InSlotsIs
<1>5. next \notin Elems(now_list) \cup Elems(queue)
  BY <1>2, <1>3 DEF NowOK
<1>6. Deadlines[next] # -1 /\ Deadlines[next] <= clock
  <2>1. Deadlines[next] = timeout[next] /\ timeout[next] \in Nat
    BY <1>2, <1>3, DeadlinesAre
  <2>. QED BY <1>1, <1>2, <2>1
<1>7. Deadlines'[next] = -1 \/ Deadlines'[next] > clock
  BY <1>1, <1>3, <1>4, <1>5, DeadlinesAre
<1>8. Abstract!Move(next)
  BY <1>1, <1>3, <1>4, MoveOne
<1>. QED BY <1>1, <1>3, <1>6, <1>7, <1>8, Zenon DEF Abstract!Fire

\* So does do_now_task.
LEMMA NowCallRefines ==
    ASSUME IInv, NowCall
    PROVE  next \in Handle /\ Abstract!Fire(next)
<1>1. /\ phase = "now" /\ it' = next /\ phase' = "now_fn"
      /\ UNCHANGED <<slots, now_list, timeout, clock>>
  BY DEF NowCall, time_vars, handle_vars
<1>2. /\ next \in Elems(queue) /\ next \in Handle
      /\ Elems(queue') = Elems(queue) \ {next}
  BY NowCallInv
<1>3. InSlots' = InSlots /\ next \notin InSlots /\ next \notin Elems(now_list) /\ clock \in Nat
  <2>1. InSlots' = InSlots
    BY <1>1 DEF InSlots
  <2>2. clock \in Nat
    BY DEF IInv, TypeOK
  <2>3. next \notin InSlots /\ next \notin Elems(now_list)
    BY <1>2 DEF IInv, NowOK
  <2>. QED BY <2>1, <2>2, <2>3
<1>4. Deadlines[next] = 0 /\ Deadlines'[next] = -1
  BY <1>1, <1>2, <1>3, DeadlinesAre
<1>5. Abstract!Move(next)
  BY <1>1, <1>2, <1>3, MoveOne
<1>6. Deadlines[next] <= clock /\ Deadlines[next] # -1
  BY <1>3, <1>4
<1>. QED BY <1>1, <1>2, <1>4, <1>5, <1>6, Zenon DEF Abstract!Fire

\* A callback returns.
LEMMA ReturnRefines ==
    ASSUME IInv, CheckReturn \/ NowReturn
    PROVE  Abstract!Return
<1>1. /\ phase \in {"check_fn", "now_fn"} /\ phase' \notin {"check_fn", "now_fn"}
      /\ UNCHANGED <<slots, now_list, timeout, queue, clock>>
  BY NowReturnInv DEF CheckReturn, NowReturn, time_vars, handle_vars
<1>2. it # End
  BY <1>1, WheelAssumption DEF IInv, CallsOK
<1>3. InSlots' = InSlots
  BY <1>1 DEF InSlots
<1>4. Deadlines' = Deadlines
  BY <1>1, <1>3, DeadlinesAre
<1>. QED BY <1>1, <1>2, <1>4 DEF Abstract!Return

\* do_now_task takes over the timers that are due at once.
LEMMA NowBeginRefines ==
    ASSUME IInv, NowBegin
    PROVE  UNCHANGED Abstract!tvars
<1>1. /\ phase = "idle" /\ phase' = "now" /\ queue' = now_list /\ now_list' = <<>>
      /\ UNCHANGED <<slots, timeout, clock>>
  BY DEF NowBegin, time_vars
<1>2. queue = <<>> /\ Elems(<<>>) = {}
  BY <1>1 DEF IInv, CallsOK, InNow, Elems
<1>3. /\ InSlots' = InSlots
      /\ Elems(now_list') \cup Elems(queue') = Elems(now_list) \cup Elems(queue)
  BY <1>1, <1>2 DEF InSlots
<1>4. Deadlines' = Deadlines
  BY <1>1, <1>3, DeadlinesAre
<1>. QED BY <1>1, <1>4 DEF Abstract!tvars

\* The clock moves.
LEMMA ClockRefines ==
    ASSUME IInv, clock' \in Nat, UNCHANGED <<handle_vars, walk_vars>>
    PROVE  Abstract!SetClock
<1>1. UNCHANGED <<slots, now_list, timeout, queue, phase, it>>
  BY DEF handle_vars, walk_vars
<1>2. InSlots' = InSlots
  BY <1>1 DEF InSlots
<1>3. Deadlines' = Deadlines
  BY <1>1, <1>2, DeadlinesAre
<1>. QED BY <1>1, <1>3 DEF Abstract!SetClock

\* Every step is a step of Timers or none.
LEMMA StepRefines ==
    ASSUME IInv, [Next]_vars
    PROVE  [Abstract!TNext]_(Abstract!tvars)
<1>0. clock \in Nat /\ clock >= StartMs /\ StartMs \in Nat /\ 0 \in Nat
  BY WheelAssumption DEF IInv, TypeOK, ClocksOK
<1>1. ASSUME NEW h \in Handle, NEW ms \in Delays, SetTimeout(h, ms)
      PROVE  Abstract!TNext
  <2>1. ms \in Nat \ {0}
    BY <1>1, WheelAssumption DEF SetTimeout
  <2>2. Abstract!Set(h)
    BY <1>0, <1>1, <2>1, SetRefines DEF SetTimeout
  <2>. QED BY <2>2 DEF Abstract!TNext
<1>2. ASSUME NEW h \in Handle, NEW itv \in Intervals, SetInterval(h, itv)
      PROVE  Abstract!TNext
  <2>1. itv \in Nat \ {0} /\ itv \in Nat
    BY WheelAssumption
  <2>2. Abstract!Set(h)
    BY <1>2, <2>1, SetRefines DEF SetInterval
  <2>. QED BY <2>2 DEF Abstract!TNext
<1>3. ASSUME NEW h \in Handle, SetNow(h) PROVE Abstract!TNext
  BY <1>3, SetNowRefines DEF Abstract!TNext
<1>4. ASSUME NEW h \in Handle, Cancel(h) PROVE Abstract!TNext
  BY <1>4, CancelRefines DEF Abstract!TNext
<1>5. CASE CheckExpire
  BY <1>5, CheckExpireRefines DEF Abstract!TNext
<1>6. CASE NowCall
  BY <1>6, NowCallRefines DEF Abstract!TNext
<1>7. CASE CheckReturn \/ NowReturn
  BY <1>7, ReturnRefines DEF Abstract!TNext
<1>8. ASSUME NEW ms \in 1..MaxJump, Tick(ms) PROVE Abstract!TNext
  <2>1. clock' \in Nat
    BY <1>0, <1>8 DEF Tick
  <2>. QED BY <1>8, <2>1, ClockRefines DEF Tick, Abstract!TNext
<1>9. CASE SetBack
  <2>1. clock' \in Nat
    BY <1>0, <1>9 DEF SetBack
  <2>. QED BY <1>9, <2>1, ClockRefines DEF SetBack, Abstract!TNext
<1>10. CASE NowBegin
  BY <1>10, NowBeginRefines
<1>11. CASE CheckEmpty \/ CheckBegin \/ CheckSkip \/ CheckNextSlot \/ CheckEnd \/ NowEnd
  <2>1. /\ UNCHANGED <<slots, now_list, timeout, queue, clock>>
        /\ phase \notin {"check_fn", "now_fn"} /\ phase' \notin {"check_fn", "now_fn"}
    BY <1>11, Zenon DEF CheckEmpty, CheckBegin, CheckSkip, CheckNextSlot, CheckEnd, NowEnd,
       WalkOver, time_vars, handle_vars, walk_vars
  <2>. QED BY <2>1, Stutters
<1>12. CASE UNCHANGED vars
  BY <1>12, Stutters DEF vars
<1>. QED
  BY <1>1, <1>2, <1>3, <1>4, <1>5, <1>6, <1>7, <1>8, <1>9, <1>10, <1>11, <1>12
     DEF Next, CheckStep, NowStep

\* The wheel keeps the promise of Timers: a callback runs only for a timer that is
\* set and due, once per time it was set, and never for one that was cancelled
\* (set_timeout, set_interval, cancel_timeout, check, do_now_task).
THEOREM WheelImplementsTimers == ~NextMayGo => (Spec => ImplementsTimers)
<1>. SUFFICES ASSUME ~NextMayGo PROVE Spec => ImplementsTimers
  OBVIOUS
<1>1. IInv /\ [Next]_vars => [Abstract!TNext]_(Abstract!tvars)
  BY StepRefines
<1>. QED BY <1>1, Invariant, InitRefines, PTL DEF Spec, ImplementsTimers, Abstract!TSpec
=============================================================================
