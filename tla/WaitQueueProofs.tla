--------------------------- MODULE WaitQueueProofs ---------------------------
(****************************************************************************)
(* Proofs about WaitQueue: what is linked and counted, where the walks are, *)
(* and that wakeup_all leaves nobody out.                                   *)
(****************************************************************************)
EXTENDS WaitQueue, ListProofs, TLAPS

(****************************************************************************)
(* The inductive invariant.  The items of the queue are those of sleepers   *)
(* only if what is resumed sleeps, so the chain of resumed coroutines has   *)
(* to be known (ChainOK).  A walk stays on the queue since nobody takes     *)
(* items off in between: all other walks have nothing ahead (OneAhead), and *)
(* timers expire when no walk is under way.  An unlimited walk is always at *)
(* the head, with those it owes a wake-up still linked (Owing).             *)
(****************************************************************************)
ChainOK ==
    /\ NoDup(stack)
    /\ \A c \in Co : c \in Elems(stack) <=> pc[c] = "run"
    /\ Tw \in Elems(stack) => walk[Tw].on
    /\ \A w \in Walker : walk[w].on => w \in Elems(stack)

Ahead(w) == walk[w].on /\ walk[w].left # 0 /\ walk[w].next # End

OneAhead == \A v, w \in Walker : Ahead(v) /\ Ahead(w) => v = w

Owing ==
    \A w \in Walker : walk[w].on /\ walk[w].left = Unlimited =>
        /\ ~walk[w].back
        /\ IF walk[w].next = End THEN walk[w].owed = {}
           ELSE walk[w].next = First(queue) /\ walk[w].owed \subseteq Elems(queue)

IInv == TypeOK /\ ItemsOfSleepers /\ ChainOK /\ WalkOnQueue /\ OneAhead /\ Owing

Walks == [next : Co \cup {End}, left : Int, back : BOOLEAN, owed : SUBSET Co,
          again : SUBSET Co, on : BOOLEAN]

-----------------------------------------------------------------------------
\* The queue backwards has the same items.
LEMMA BackwardsFacts ==
    ASSUME NEW S, NEW s \in Seq(S)
    PROVE  /\ Backwards(s) \in Seq(S)
           /\ Elems(Backwards(s)) = Elems(s)
           /\ NoDup(s) => NoDup(Backwards(s))
<1>. DEFINE b == Backwards(s)
<1>1. Len(s) \in Nat
  OBVIOUS
<1>2. b \in Seq(S) /\ Len(b) = Len(s) /\ \A i \in 1..Len(s) : b[i] = s[Len(s) + 1 - i]
  BY <1>1 DEF Backwards
<1>. HIDE DEF b
<1>3. Elems(b) \subseteq Elems(s)
  BY <1>1, <1>2 DEF Elems
<1>4. Elems(s) \subseteq Elems(b)
  <2>. SUFFICES ASSUME NEW i \in 1..Len(s) PROVE s[i] \in Elems(b)
    BY DEF Elems
  <2>. DEFINE j == Len(s) + 1 - i
  <2>1. j \in 1..Len(s) /\ Len(s) + 1 - j = i
    BY <1>1
  <2>2. b[j] = s[i]
    BY <1>2, <2>1
  <2>. QED BY <1>2, <2>1, <2>2 DEF Elems
<1>5. NoDup(s) => NoDup(b)
  <2>. SUFFICES ASSUME NoDup(s), NEW i \in 1..Len(s), NEW j \in 1..Len(s), b[i] = b[j]
                PROVE  i = j
    BY <1>2 DEF NoDup
  <2>. DEFINE k == Len(s) + 1 - i
              l == Len(s) + 1 - j
  <2>1. k \in 1..Len(s) /\ l \in 1..Len(s) /\ s[k] = s[l]
    BY <1>1, <1>2
  <2>2. k = l
    BY <2>1 DEF NoDup
  <2>. QED BY <1>1, <2>2
<1>. QED BY <1>2, <1>3, <1>4, <1>5 DEF b

\* The last coroutine of the chain runs; the rest of the chain stays when it leaves.
LEMMA Top ==
    ASSUME IInv, stack # <<>>
    PROVE  /\ Last(stack) \in Walker
           /\ Last(stack) \in Elems(stack)
           /\ Last(stack) \in Co => pc[Last(stack)] = "run"
           /\ Front(stack) \in Seq(Walker)
           /\ NoDup(Front(stack))
           /\ Elems(Front(stack)) = Elems(stack) \ {Last(stack)}
BY FrontFacts DEF IInv, TypeOK, ChainOK

\* When the dispatch loop runs, nobody else does, and no walk is under way.
LEMMA LoopRuns ==
    ASSUME IInv, stack = <<>>
    PROVE  /\ \A c \in Co : pc[c] # "run"
           /\ \A w \in Walker : ~walk[w].on
<1>1. Elems(stack) = {}
  BY DEF Elems
<1>. QED BY <1>1 DEF IInv, ChainOK

\* Coroutines are no walkers of another kind.
LEMMA Kinds == Co \subseteq Walker /\ Tw \in Walker /\ Tw \notin Co /\ End \notin Co
BY WaitAssumption DEF Walker

\* A walk starts: it is the only one with items ahead, and owes what is linked.
LEMMA StartsWalk ==
    ASSUME IInv, NEW w \in Walker, NEW back \in BOOLEAN, NEW num \in Int \ {0},
           num = Unlimited => ~back, NoneAhead, walk' = Walking(w, back, num),
           queue' = queue
    PROVE  /\ walk' \in [Walker -> Walks]
           /\ WalkOnQueue' /\ OneAhead' /\ Owing'
           /\ \A v \in Walker : walk'[v].on <=> walk[v].on \/ v = w
<1>. DEFINE first == First(Order(back))
            new == [next |-> first, left |-> num, back |-> back,
                    owed |-> Elems(queue), again |-> {}, on |-> TRUE]
<1>0. queue \in Seq(Co) /\ walk \in [Walker -> Walks] /\ NoDup(queue)
  BY DEF IInv, TypeOK, Walks, ItemsOfSleepers
<1>1. /\ Order(back) \in Seq(Co) /\ Elems(Order(back)) = Elems(queue)
      /\ ~back => Order(back) = queue
  BY <1>0, BackwardsFacts DEF Order
<1>2. (first = End /\ Elems(queue) = {}) \/ first \in Elems(queue)
  BY <1>0, <1>1, FirstFacts, ElemsEmpty
<1>3. Elems(queue) \subseteq Co
  BY <1>0 DEF Elems
<1>4. new \in Walks
  BY <1>2, <1>3 DEF Walks
<1>5. walk'[w] = new /\ \A v \in Walker \ {w} : walk'[v] = walk[v]
  BY <1>0 DEF Walking
<1>6. walk' \in [Walker -> Walks]
  BY <1>0, <1>4 DEF Walking
<1>7. \A v \in Walker \ {w} : ~Ahead(v)'
  BY <1>5 DEF NoneAhead, Ahead
<1>8. WalkOnQueue'
  <2>. SUFFICES ASSUME NEW v \in Walker, Ahead(v)' PROVE walk'[v].next \in Elems(queue)
    BY DEF WalkOnQueue, Ahead
  <2>1. v = w
    BY <1>7
  <2>. QED BY <1>2, <1>5, <2>1 DEF Ahead
<1>9. OneAhead'
  BY <1>7 DEF OneAhead
<1>10. Owing'
  <2>. SUFFICES ASSUME NEW v \in Walker, walk'[v].on, walk'[v].left = Unlimited
                PROVE  /\ ~walk'[v].back
                       /\ IF walk'[v].next = End THEN walk'[v].owed = {}
                          ELSE /\ walk'[v].next = First(queue)
                               /\ walk'[v].owed \subseteq Elems(queue)
    BY DEF Owing
  <2>1. CASE v = w
    <3>1. num = Unlimited /\ ~back /\ Order(back) = queue
      BY <1>1, <1>5, <2>1
    <3>2. first = End => Elems(queue) = {}
      BY <1>2, <1>3, Kinds
    <3>. QED BY <1>5, <2>1, <3>1, <3>2
  <2>2. CASE v # w
    BY <1>5, <2>2 DEF IInv, Owing
  <2>. QED BY <2>1, <2>2
<1>. QED BY <1>5, <1>6, <1>8, <1>9, <1>10

-----------------------------------------------------------------------------
\* The first states.
LEMMA InitInv == Init => IInv
<1>. SUFFICES ASSUME Init PROVE IInv
  OBVIOUS
<1>1. Elems(<<>>) = {} /\ NoDup(<<>>) /\ <<>> \in Seq(Co) /\ <<>> \in Seq(Walker)
  BY DEF Elems, NoDup
<1>2. \A w \in Walker : walk[w] = NoWalk
  BY DEF Init
<1>3. NoWalk \in Walks /\ ~NoWalk.on
  BY DEF NoWalk, Walks
<1>4. TypeOK
  BY <1>1, <1>3 DEF Init, TypeOK, Walks
<1>5. ItemsOfSleepers
  BY <1>1 DEF Init, ItemsOfSleepers
<1>6. ChainOK
  BY <1>1, <1>2, <1>3 DEF Init, ChainOK
<1>. QED BY <1>2, <1>3, <1>4, <1>5, <1>6 DEF IInv, WalkOnQueue, OneAhead, Ahead, Owing

\* The dispatch loop resumes a coroutine that is blocked elsewhere.
LEMMA LoopResumeInv == ASSUME IInv, NEW c \in Co, LoopResume(c) PROVE IInv'
<1>. USE DEF LoopResume
<1>1. /\ \A w \in Walker : ~walk[w].on
      /\ \A d \in Co : pc[d] # "run"
  BY LoopRuns
<1>2. stack' \in Seq(Walker) /\ Elems(stack') = {c} /\ NoDup(stack')
  BY Kinds DEF Elems, NoDup
<1>3. pc' \in [Co -> {"run", "wait", "away"}] /\ \A d \in Co : pc'[d] = IF d = c THEN "run" ELSE pc[d]
  BY DEF IInv, TypeOK
<1>4. TypeOK'
  BY <1>2, <1>3 DEF IInv, TypeOK
<1>5. ItemsOfSleepers'
  BY <1>3 DEF IInv, ItemsOfSleepers
<1>6. ChainOK'
  BY <1>1, <1>2, <1>3, Kinds DEF ChainOK
<1>. QED BY <1>1, <1>4, <1>5, <1>6 DEF IInv, WalkOnQueue, OneAhead, Ahead, Owing

\* A coroutine that runs blocks elsewhere.
LEMMA BlockInv == ASSUME IInv, NEW c \in Co, Block(c) PROVE IInv'
<1>. USE DEF Block, Runs
<1>1. /\ Front(stack) \in Seq(Walker) /\ NoDup(Front(stack))
      /\ Elems(Front(stack)) = Elems(stack) \ {c}
      /\ pc[c] = "run" /\ ~walk[c].on
  BY Top
<1>3. pc' \in [Co -> {"run", "wait", "away"}] /\ \A d \in Co : pc'[d] = IF d = c THEN "away" ELSE pc[d]
  BY DEF IInv, TypeOK
<1>4. TypeOK'
  BY <1>1, <1>3 DEF IInv, TypeOK
<1>5. ItemsOfSleepers'
  BY <1>1, <1>3 DEF IInv, ItemsOfSleepers
<1>6. ChainOK'
  BY <1>1, <1>3, Kinds DEF IInv, ChainOK
<1>. QED BY <1>4, <1>5, <1>6 DEF IInv, WalkOnQueue, OneAhead, Ahead, Owing

\* A coroutine that runs waits: its item is the last of the queue, the first stays.
LEMMA WaitOnInv == ASSUME IInv, NEW c \in Co, NEW timed \in BOOLEAN, WaitOn(c, timed) PROVE IInv'
<1>0. queue \in Seq(Co) /\ walk \in [Walker -> Walks] /\ wait_num = Len(queue) /\ NoDup(queue)
  BY DEF IInv, TypeOK, Walks, ItemsOfSleepers
<1>. /\ stack # <<>> /\ Last(stack) = c /\ ~walk[c].on
     /\ queue' = Append(queue, c) /\ wait_num' = wait_num + 1
     /\ timer' = (IF timed THEN timer \cup {c} ELSE timer)
     /\ stack' = Front(stack) /\ UNCHANGED <<alive, armed>>
  BY DEF WaitOn, Runs
<1>1. /\ Front(stack) \in Seq(Walker) /\ NoDup(Front(stack))
      /\ Elems(Front(stack)) = Elems(stack) \ {c}
      /\ pc[c] = "run" /\ ~walk[c].on
  BY Top
<1>2. c \notin Elems(queue)
  BY <1>1 DEF IInv, ItemsOfSleepers
<1>3. pc' \in [Co -> {"run", "wait", "away"}] /\ \A d \in Co : pc'[d] = IF d = c THEN "wait" ELSE pc[d]
  BY DEF WaitOn, IInv, TypeOK
<1>4. /\ queue' \in Seq(Co) /\ Elems(queue') = Elems(queue) \cup {c} /\ NoDup(queue')
      /\ Len(queue') = Len(queue) + 1
  BY <1>0, <1>2, AppendFacts
<1>5. queue # <<>> => First(queue') = First(queue)
  BY <1>0 DEF First
<1>6. /\ walk' \in [Walker -> Walks]
      /\ \A w \in Walker : /\ (walk'[w].on <=> walk[w].on) /\ walk'[w].left = walk[w].left
                           /\ walk'[w].next = walk[w].next /\ (walk'[w].back <=> walk[w].back)
                           /\ walk'[w].owed = walk[w].owed
  BY <1>0, ZenonT(30) DEF WaitOn, Walks
<1>7. TypeOK'
  BY <1>0, <1>1, <1>3, <1>4, <1>6 DEF IInv, TypeOK, Walks
<1>8. ItemsOfSleepers'
  BY <1>0, <1>3, <1>4 DEF IInv, ItemsOfSleepers
<1>9. ChainOK'
  BY <1>1, <1>3, <1>6, Kinds DEF IInv, ChainOK
<1>10. WalkOnQueue' /\ OneAhead'
  BY <1>4, <1>6 DEF IInv, WalkOnQueue, OneAhead, Ahead
<1>11. Owing'
  <2>. SUFFICES ASSUME NEW w \in Walker, walk[w].on, walk[w].left = Unlimited
                PROVE  /\ ~walk[w].back
                       /\ IF walk[w].next = End THEN walk[w].owed = {}
                          ELSE /\ walk[w].next = First(queue')
                               /\ walk[w].owed \subseteq Elems(queue')
    BY <1>6 DEF Owing
  <2>1. walk[w].next # End => queue # <<>>
    BY DEF IInv, WalkOnQueue, Unlimited, Elems
  <2>. QED BY <1>4, <1>5, <2>1 DEF IInv, Owing
<1>. QED BY <1>7, <1>8, <1>9, <1>10, <1>11 DEF IInv

-----------------------------------------------------------------------------
\* A coroutine that runs starts a wake-up.
LEMMA WakeInv ==
    ASSUME IInv, NEW c \in Co, Runs(c), NEW back \in BOOLEAN, NEW num \in Int \ {0},
           num = Unlimited => ~back, NoneAhead, walk' = Walking(c, back, num),
           UNCHANGED <<queue, wait_num, pc, timer, stack>>,
           alive' \in {"yes", "dying", "no"}, armed' \in BOOLEAN
    PROVE  IInv'
<1>1. /\ walk' \in [Walker -> Walks]
      /\ WalkOnQueue' /\ OneAhead' /\ Owing'
      /\ \A v \in Walker : walk'[v].on <=> walk[v].on \/ v = c
  BY Kinds, StartsWalk
<1>2. c \in Elems(stack)
  BY Top DEF Runs
<1>3. TypeOK'
  BY <1>1 DEF IInv, TypeOK, Walks
<1>4. ItemsOfSleepers'
  BY DEF IInv, ItemsOfSleepers
<1>5. ChainOK'
  BY <1>1, <1>2, Kinds DEF IInv, ChainOK
<1>. QED BY <1>1, <1>3, <1>4, <1>5 DEF IInv

\* The timer of a CondWaitQueue starts a wake-up in the coroutine of the wheel.
LEMMA TimeoutProcInv == ASSUME IInv, timeout_proc PROVE IInv'
<1>1. /\ stack = <<>> /\ stack' = <<Tw>> /\ armed' = FALSE
      /\ walk' = Walking(Tw, FALSE, Unlimited)
      /\ UNCHANGED <<queue, wait_num, alive, pc, timer>>
  BY DEF timeout_proc
<1>2. /\ \A w \in Walker : ~walk[w].on
      /\ \A d \in Co : pc[d] # "run"
  BY <1>1, LoopRuns
<1>3. NoneAhead /\ Unlimited \in Int \ {0}
  BY <1>2 DEF NoneAhead, Unlimited
<1>4. /\ walk' \in [Walker -> Walks]
      /\ WalkOnQueue' /\ OneAhead' /\ Owing'
      /\ \A v \in Walker : walk'[v].on <=> walk[v].on \/ v = Tw
  BY <1>1, <1>3, Kinds, StartsWalk
<1>5. stack' \in Seq(Walker) /\ Elems(stack') = {Tw} /\ NoDup(stack')
  BY <1>1, Kinds DEF Elems, NoDup
<1>6. TypeOK'
  BY <1>1, <1>4, <1>5 DEF IInv, TypeOK, Walks
<1>7. ItemsOfSleepers'
  BY <1>1 DEF IInv, ItemsOfSleepers
<1>8. ChainOK'
  BY <1>1, <1>2, <1>4, <1>5, Kinds DEF ChainOK
<1>. QED BY <1>4, <1>6, <1>7, <1>8 DEF IInv

\* An item is taken off the queue and its coroutine resumed.
LEMMA ResumedFacts ==
    ASSUME IInv, NEW x \in Elems(queue), queue' = Unlink(queue, x), Resumed(x)
    PROVE  /\ x \in Co /\ pc[x] = "wait"
           /\ queue' \in Seq(Co) /\ wait_num' \in Nat /\ timer' \subseteq Co
           /\ pc' \in [Co -> {"run", "wait", "away"}]
           /\ stack' \in Seq(Walker) /\ NoDup(stack')
           /\ Elems(stack') = Elems(stack) \cup {x}
           /\ Elems(queue') = Elems(queue) \ {x}
           /\ \A c \in Co : c \in Elems(stack') <=> pc'[c] = "run"
           /\ ItemsOfSleepers'
<1>0. /\ queue \in Seq(Co) /\ stack \in Seq(Walker) /\ wait_num = Len(queue)
      /\ NoDup(queue) /\ NoDup(stack) /\ pc \in [Co -> {"run", "wait", "away"}]
      /\ timer \subseteq Elems(queue) /\ Elems(queue) = {c \in Co : pc[c] = "wait"}
  BY DEF IInv, TypeOK, ItemsOfSleepers, ChainOK
<1>1. x \in Co /\ pc[x] = "wait"
  BY <1>0
<1>2. x \notin Elems(stack)
  BY <1>1 DEF IInv, ChainOK
<1>3. /\ queue' \in Seq(Co) /\ Elems(queue') = Elems(queue) \ {x} /\ NoDup(queue')
  BY <1>0, UnlinkFacts
<1>4. wait_num' = Len(queue') /\ wait_num' \in Nat
  BY <1>0, <1>3, UnlinkLen DEF Resumed
<1>5. /\ pc' \in [Co -> {"run", "wait", "away"}]
      /\ \A c \in Co : pc'[c] = IF c = x THEN "run" ELSE pc[c]
  BY <1>0 DEF Resumed
<1>6. stack' \in Seq(Walker) /\ NoDup(stack') /\ Elems(stack') = Elems(stack) \cup {x}
  BY <1>0, <1>1, <1>2, Kinds, AppendFacts DEF Resumed
<1>7. \A c \in Co : c \in Elems(stack') <=> pc'[c] = "run"
  BY <1>5, <1>6 DEF IInv, ChainOK
<1>8. Elems(queue') = {c \in Co : pc'[c] = "wait"}
  BY <1>0, <1>3, <1>5
<1>9. timer' \subseteq Elems(queue') /\ timer' \subseteq Co
  BY <1>0, <1>3 DEF Resumed
<1>10. ItemsOfSleepers'
  BY <1>3, <1>4, <1>8, <1>9 DEF ItemsOfSleepers
<1>. QED BY <1>1, <1>3, <1>4, <1>5, <1>6, <1>7, <1>9, <1>10

\* A timer expires while no walk is under way.
LEMMA ItemTimeoutInv == ASSUME IInv, NEW c \in Co, ItemTimeout(c) PROVE IInv'
<1>1. /\ stack = <<>> /\ queue' = Unlink(queue, c) /\ Resumed(c)
      /\ UNCHANGED <<alive, armed, walk>> /\ c \in timer
  BY DEF ItemTimeout
<1>2. \A w \in Walker : ~walk[w].on
  BY <1>1, LoopRuns
<1>3. c \in Elems(queue)
  BY <1>1 DEF IInv, ItemsOfSleepers
<1>4. Elems(stack) = {}
  BY <1>1 DEF Elems
<1>5. /\ queue' \in Seq(Co) /\ wait_num' \in Nat /\ timer' \subseteq Co
      /\ pc' \in [Co -> {"run", "wait", "away"}]
      /\ stack' \in Seq(Walker) /\ NoDup(stack')
      /\ Elems(stack') = {c} /\ ItemsOfSleepers'
      /\ \A d \in Co : d \in Elems(stack') <=> pc'[d] = "run"
  BY <1>1, <1>3, <1>4, ResumedFacts
<1>6. TypeOK'
  BY <1>1, <1>5 DEF IInv, TypeOK
<1>7. ChainOK'
  BY <1>1, <1>2, <1>5, Kinds DEF ChainOK
<1>. QED BY <1>1, <1>2, <1>5, <1>6, <1>7 DEF IInv, WalkOnQueue, OneAhead, Ahead, Owing

-----------------------------------------------------------------------------
\* The fields of a walk that a step changes.
LEMMA RecordStep ==
    ASSUME NEW r \in Walks, NEW n \in Co \cup {End}, NEW l \in Int, NEW o \in SUBSET Co
    PROVE  [r EXCEPT !.next = n, !.left = l, !.owed = o] \in Walks
<1>1. \A q \in Walks : [q EXCEPT !.next = n] \in Walks
  BY DEF Walks
<1>2. \A q \in Walks : [q EXCEPT !.left = l] \in Walks
  BY DEF Walks
<1>3. \A q \in Walks : [q EXCEPT !.owed = o] \in Walks
  BY DEF Walks
<1>4. [r EXCEPT !.next = n, !.left = l, !.owed = o]
        = [[[r EXCEPT !.next = n] EXCEPT !.left = l] EXCEPT !.owed = o]
  OBVIOUS
<1>. QED BY <1>1, <1>2, <1>3, <1>4

\* The walk goes on to the item after the one it resumes.
LEMMA WalkStepInv == ASSUME IInv, NEW w \in Walker, WalkStep(w) PROVE IInv'
<1>. DEFINE x == walk[w].next
            succ == Succ(Order(walk[w].back), x)
<1>0. /\ queue \in Seq(Co) /\ walk \in [Walker -> Walks] /\ NoDup(queue)
      /\ walk[w].left \in Int
  BY DEF IInv, TypeOK, Walks, ItemsOfSleepers
<1>1. /\ stack # <<>> /\ Last(stack) = w /\ Ahead(w)
      /\ queue' = Unlink(queue, x) /\ Resumed(x) /\ UNCHANGED <<alive, armed>>
  BY DEF WalkStep, Ahead
<1>2. x \in Elems(queue)
  BY <1>1 DEF IInv, WalkOnQueue, Ahead
<1>3. /\ queue' \in Seq(Co) /\ wait_num' \in Nat /\ timer' \subseteq Co
      /\ pc' \in [Co -> {"run", "wait", "away"}]
      /\ stack' \in Seq(Walker) /\ NoDup(stack')
      /\ Elems(stack') = Elems(stack) \cup {x} /\ Elems(queue') = Elems(queue) \ {x}
      /\ ItemsOfSleepers'
      /\ \A d \in Co : d \in Elems(stack') <=> pc'[d] = "run"
      /\ x \in Co
  BY <1>1, <1>2, ResumedFacts
<1>4. /\ Order(walk[w].back) \in Seq(Co) /\ NoDup(Order(walk[w].back))
      /\ Elems(Order(walk[w].back)) = Elems(queue)
      /\ ~walk[w].back => Order(walk[w].back) = queue
  BY <1>0, BackwardsFacts DEF Order
<1>5. succ = End \/ succ \in Elems(queue')
  BY <1>2, <1>3, <1>4, SuccElem
<1>6. Elems(queue') \subseteq Co
  BY <1>3 DEF Elems
<1>7. /\ walk' \in [Walker -> Walks]
      /\ \A v \in Walker \ {w} : walk'[v] = walk[v]
      /\ walk'[w].next = succ
      /\ walk'[w].left = IF walk[w].left > 0 THEN walk[w].left - 1 ELSE walk[w].left
      /\ walk'[w].owed = walk[w].owed \ {x}
      /\ walk'[w].on <=> walk[w].on
      /\ walk'[w].back <=> walk[w].back
  <2>. DEFINE new == [walk[w] EXCEPT !.next = succ,
                                     !.left = IF @ > 0 THEN @ - 1 ELSE @,
                                     !.owed = @ \ {x}]
  <2>1. walk' = [walk EXCEPT ![w] = new]
    BY DEF WalkStep
  <2>2. succ \in Co \cup {End}
    BY <1>5, <1>6
  <2>. HIDE DEF succ, x
  <2>3. walk[w] \in Walks
    BY <1>0
  <2>4. /\ new.next = succ /\ new.owed = walk[w].owed \ {x}
        /\ new.left = IF walk[w].left > 0 THEN walk[w].left - 1 ELSE walk[w].left
    BY <2>3 DEF Walks
  <2>5. (new.on <=> walk[w].on) /\ (new.back <=> walk[w].back)
    BY <2>3 DEF Walks
  <2>6. new \in Walks
    <3>. DEFINE left == IF walk[w].left > 0 THEN walk[w].left - 1 ELSE walk[w].left
    <3>1. left \in Int /\ walk[w].owed \ {x} \in SUBSET Co
      BY <2>3 DEF Walks
    <3>. HIDE DEF left
    <3>2. new = [walk[w] EXCEPT !.next = succ, !.left = left, !.owed = walk[w].owed \ {x}]
      BY <2>3 DEF Walks, left
    <3>. HIDE DEF new
    <3>. QED BY <2>2, <2>3, <3>1, <3>2, RecordStep
  <2>. HIDE DEF new
  <2>. QED BY <1>0, <2>1, <2>4, <2>5, <2>6
<1>. HIDE DEF succ, x
<1>8. \A v \in Walker \ {w} : ~Ahead(v)
  BY <1>1 DEF IInv, OneAhead
<1>9. \A v \in Walker \ {w} : ~Ahead(v)'
  BY <1>7, <1>8 DEF Ahead
<1>10. TypeOK'
  BY <1>1, <1>3, <1>7 DEF IInv, TypeOK, Walks
<1>11. ChainOK'
  BY <1>3, <1>7, Kinds DEF IInv, ChainOK
<1>12. WalkOnQueue'
  <2>. SUFFICES ASSUME NEW v \in Walker, Ahead(v)' PROVE walk'[v].next \in Elems(queue')
    BY DEF WalkOnQueue, Ahead
  <2>. QED BY <1>5, <1>7, <1>9 DEF Ahead
<1>13. OneAhead'
  BY <1>9 DEF OneAhead
<1>14. Owing'
  <2>. SUFFICES ASSUME NEW v \in Walker, walk'[v].on, walk'[v].left = Unlimited
                PROVE  /\ ~walk'[v].back
                       /\ IF walk'[v].next = End THEN walk'[v].owed = {}
                          ELSE /\ walk'[v].next = First(queue')
                               /\ walk'[v].owed \subseteq Elems(queue')
    BY DEF Owing
  <2>1. CASE v # w
    <3>1. walk[v].next = End
      BY <1>7, <1>8, <2>1 DEF Ahead, Unlimited
    <3>. QED BY <1>7, <2>1, <3>1 DEF IInv, Owing
  <2>2. CASE v = w
    <3>1. walk[w].left = Unlimited
      BY <1>0, <1>7, <2>2 DEF Unlimited
    <3>2. /\ ~walk[w].back /\ x = First(queue) /\ walk[w].owed \subseteq Elems(queue)
      BY <1>1, <3>1 DEF IInv, Owing, Ahead, x
    <3>3. queue # <<>> /\ x = Head(queue)
      BY <1>0, <1>2, <3>2, FirstFacts DEF Elems
    <3>4. /\ queue' = Tail(queue)
          /\ Tail(queue) = <<>> => succ = End
          /\ Tail(queue) # <<>> => succ = Head(Tail(queue))
      BY <1>0, <1>1, <1>4, <3>2, <3>3, UnlinkHead DEF succ, x
    <3>5. succ = First(queue')
      BY <3>4 DEF First
    <3>6. succ = End => Elems(queue') = {}
      BY <1>3, <1>6, <3>5, FirstFacts, ElemsEmpty, Kinds
    <3>. QED BY <1>3, <1>7, <2>2, <3>2, <3>5, <3>6
  <2>. QED BY <2>1, <2>2
<1>. QED BY <1>3, <1>10, <1>11, <1>12, <1>13, <1>14 DEF IInv

\* A walk ends.
LEMMA WalkEndInv == ASSUME IInv, NEW w \in Walker, WalkEnd(w) PROVE IInv'
<1>1. /\ stack # <<>> /\ Last(stack) = w /\ walk' = [walk EXCEPT ![w] = NoWalk]
      /\ alive' = (IF alive = "dying" THEN "no" ELSE alive)
      /\ stack' = (IF w = Tw THEN Front(stack) ELSE stack)
      /\ UNCHANGED <<queue, wait_num, pc, timer, armed>>
  BY DEF WalkEnd
<1>2. /\ Front(stack) \in Seq(Walker) /\ NoDup(Front(stack))
      /\ Elems(Front(stack)) = Elems(stack) \ {w}
  BY <1>1, Top
<1>3. NoWalk \in Walks /\ ~NoWalk.on
  BY DEF NoWalk, Walks
<1>4. /\ walk' \in [Walker -> Walks] /\ ~walk'[w].on
      /\ \A v \in Walker \ {w} : walk'[v] = walk[v]
  BY <1>1, <1>3 DEF IInv, TypeOK, Walks
<1>5. TypeOK'
  BY <1>1, <1>2, <1>4 DEF IInv, TypeOK, Walks
<1>6. ItemsOfSleepers'
  BY <1>1 DEF IInv, ItemsOfSleepers
<1>7. ChainOK'
  <2>1. CASE w = Tw
    BY <1>1, <1>2, <1>4, <2>1, Kinds DEF IInv, ChainOK
  <2>2. CASE w # Tw
    BY <1>1, <1>4, <2>2, Kinds DEF IInv, ChainOK
  <2>. QED BY <2>1, <2>2
<1>8. WalkOnQueue' /\ OneAhead' /\ Owing'
  BY <1>1, <1>4 DEF IInv, WalkOnQueue, OneAhead, Ahead, Owing
<1>. QED BY <1>5, <1>6, <1>7, <1>8 DEF IInv

-----------------------------------------------------------------------------
\* Every step keeps the invariant.
LEMMA Inductive == IInv /\ [Next]_vars => IInv'
<1>. SUFFICES ASSUME IInv, [Next]_vars PROVE IInv'
  OBVIOUS
<1>0. Unlimited \in Int \ {0}
  BY DEF Unlimited
<1>1. ASSUME NEW c \in Co, LoopResume(c) PROVE IInv'
  BY <1>1, LoopResumeInv
<1>2. ASSUME NEW c \in Co, Block(c) PROVE IInv'
  BY <1>2, BlockInv
<1>3. ASSUME NEW c \in Co, NEW timed \in BOOLEAN, WaitOn(c, timed) PROVE IInv'
  BY <1>3, WaitOnInv
<1>4. ASSUME NEW c \in Co, wakeup_all(c) PROVE IInv'
  <2>1. alive' \in {"yes", "dying", "no"} /\ armed' \in BOOLEAN
    BY <1>4 DEF wakeup_all, IInv, TypeOK
  <2>. QED BY <1>0, <1>4, <2>1, WakeInv DEF wakeup_all
<1>5. ASSUME NEW c \in Co, NEW back \in BOOLEAN, NEW num \in Nums, wakeup_n(c, back, num)
      PROVE  IInv'
  <2>. DEFINE n == IF num < 1 THEN 1 ELSE num
  <2>1. alive' \in {"yes", "dying", "no"} /\ armed' \in BOOLEAN
    BY <1>5 DEF wakeup_n, IInv, TypeOK
  <2>2. n \in Int \ {0} /\ n # Unlimited
    BY WaitAssumption DEF Unlimited
  <2>3. /\ Runs(c) /\ NoneAhead /\ walk' = Walking(c, back, n)
        /\ UNCHANGED <<queue, wait_num, pc, timer, stack>>
    BY <1>5 DEF wakeup_n
  <2>. HIDE DEF n
  <2>. QED BY <2>1, <2>2, <2>3, WakeInv
<1>6. ASSUME NEW c \in Co, Destroy(c) PROVE IInv'
  <2>1. alive' \in {"yes", "dying", "no"} /\ armed' \in BOOLEAN /\ NoneAhead
    BY <1>6 DEF Destroy, IInv, TypeOK, NoneAhead
  <2>. QED BY <1>0, <1>6, <2>1, WakeInv DEF Destroy
<1>7. ASSUME NEW c \in Co, ItemTimeout(c) PROVE IInv'
  BY <1>7, ItemTimeoutInv
<1>8. ASSUME NEW c \in Co, NEW ready \in BOOLEAN, CondWakeupAll(c, ready) PROVE IInv'
  <2>1. alive' \in {"yes", "dying", "no"} /\ armed' \in BOOLEAN
    BY <1>8 DEF CondWakeupAll, IInv, TypeOK
  <2>2. CASE ready
    BY <1>0, <1>8, <2>1, <2>2, WakeInv DEF CondWakeupAll
  <2>3. CASE ~ready
    <3>1. UNCHANGED <<queue, wait_num, alive, pc, timer, stack, walk>>
      BY <1>8, <2>3 DEF CondWakeupAll
    <3>. QED
      BY <2>1, <3>1 DEF IInv, TypeOK, ItemsOfSleepers, ChainOK, WalkOnQueue, OneAhead,
                        Ahead, Owing
  <2>. QED BY <2>2, <2>3
<1>9. ASSUME NEW w \in Walker, WalkStep(w) PROVE IInv'
  BY <1>9, WalkStepInv
<1>10. ASSUME NEW w \in Walker, WalkEnd(w) PROVE IInv'
  BY <1>10, WalkEndInv
<1>11. CASE timeout_proc
  BY <1>11, TimeoutProcInv
<1>12. CASE UNCHANGED vars
  BY <1>12 DEF vars, IInv, TypeOK, ItemsOfSleepers, ChainOK, WalkOnQueue, OneAhead,
               Ahead, Owing
<1>. QED
  BY <1>1, <1>2, <1>3, <1>4, <1>5, <1>6, <1>7, <1>8, <1>9, <1>10, <1>11, <1>12 DEF Next

\* The invariant holds throughout.
LEMMA Invariant == Spec => []IInv
BY InitInv, Inductive, PTL DEF Spec

\* The items that are linked, counted and timed are those of the coroutines in
\* wait_on, whatever wake-ups, timeouts and waits interleave (WaitQueue::wait_on,
\* wakeup_all, wait_queue_item_timeout).
THEOREM SleepersLinked == Spec => []ItemsOfSleepers
BY Invariant, PTL DEF IInv

\* The item a wake-up has read ahead is on the queue when the loop gets to it
\* (the loops of wakeup_all, wakeup_head_n and wakeup_tail_n).
THEOREM WalksOnQueue == Spec => []WalkOnQueue
BY Invariant, PTL DEF IInv

\* wakeup_all and the destructor of the queue return only when everybody who
\* waited when they were called has been resumed.
THEOREM NobodyLeftOut == Spec => AllWoken
<1>1. IInv /\ [Next]_vars =>
        [\A w \in Walker : WalkEnd(w) /\ walk[w].left = Unlimited => walk[w].owed = {}]_vars
  <2>. SUFFICES ASSUME IInv, NEW w \in Walker, WalkEnd(w), walk[w].left = Unlimited
                PROVE  walk[w].owed = {}
    OBVIOUS
  <2>1. walk[w].on /\ walk[w].next = End
    BY DEF WalkEnd, Unlimited
  <2>. QED BY <2>1 DEF IInv, Owing
<1>. QED BY <1>1, Invariant, PTL DEF Spec, AllWoken
=============================================================================
