---------------------------- MODULE ServerProofs ----------------------------
(****************************************************************************)
(* A tcp_server_t: the bound on its connections and the ownership of its    *)
(* pooled objects and coroutines, for every number of workers and every     *)
(* setting of max_conn_num and accept_num.                                  *)
(*                                                                          *)
(* The disk hooks: the first of them leaves its thread in the loop of       *)
(* proc_disk_event, for every number of coroutines and every limit.         *)
(****************************************************************************)
EXTENDS TcpServer, DiskIo, ListProofs, FiniteSetTheorems, TLAPS

Places == {"start", "top", "full", "poll", "serve", "given", "clean", "usleep", "ended",
           "failed"}

Numbers ==
    /\ cur_conn_num \in Int /\ fds \in Nat
    /\ mpc \in Places
    /\ to_stop \in BOOLEAN

\* Descriptors of the batch that are still to be counted.
Due == IF mpc = "serve" THEN fds ELSE IF mpc = "given" THEN fds - 1 ELSE 0

Late == IF to_stop THEN Accept ELSE 0

\* The bound holds for the whole batch from the moment it is accepted.
Bounded ==
    /\ cur_conn_num + Due < MaxConn + Accept + Late
    /\ mpc = "given" => fds > 0
    /\ mpc = "full" => cur_conn_num < MaxConn + Accept
    /\ mpc = "poll" => \/ cur_conn_num < MaxConn
                       \/ to_stop /\ cur_conn_num < MaxConn + Accept

BoundInv == Numbers /\ Bounded

\* The first states are within the bound.
LEMMA InitBound == Init => BoundInv
<1> SUFFICES ASSUME Init PROVE BoundInv
  OBVIOUS
<1>1. cur_conn_num = 0 /\ fds = 0 /\ mpc = "start" /\ to_stop = FALSE
  BY DEF Init
<1>2. Numbers
  <2>1. to_stop \in BOOLEAN
    BY <1>1, Zenon
  <2>2. cur_conn_num \in Int /\ fds \in Nat /\ mpc \in Places
    BY <1>1 DEF Places
  <2> QED  BY <2>1, <2>2, Zenon DEF Numbers
<1>3. Due = 0 /\ Late = 0
  BY <1>1 DEF Due, Late
<1>4. Bounded
  BY <1>1, <1>3, ServerAssumption DEF Bounded
<1> QED  BY <1>2, <1>4 DEF BoundInv

\* Every step of main_co that gives no connection away keeps the bound.
LEMMA MainBound ==
    ASSUME BoundInv,
           \/ MainStart \/ ListenFailed \/ SetupFailed \/ AcceptPoll \/ AcceptWoken
           \/ ServeNext \/ Served \/ CleanUp \/ CleanWait \/ CleanWoken \/ CleanDone
           \/ QueueDone \/ QueueFailed
    PROVE  BoundInv'
<1> USE ServerAssumption DEF BoundInv, Numbers, Places, Bounded, Due, Late, work_vars
<1>1. CASE MainStart \/ ListenFailed \/ SetupFailed
  BY <1>1 DEF MainStart, ListenFailed, SetupFailed, MainGoes, MainSleeps
<1>2. CASE AcceptPoll
  BY <1>2 DEF AcceptPoll, MainSleeps
<1>3. CASE AcceptWoken
  BY <1>3 DEF AcceptWoken
<1>4. CASE ServeNext \/ Served
  BY <1>4 DEF ServeNext, Served, MainGoes
<1>5. CASE CleanUp \/ CleanWait \/ CleanWoken \/ CleanDone
  BY <1>5 DEF CleanUp, CleanWait, CleanWoken, CleanDone, MainGoes, MainSleeps, MainResumed
<1>6. CASE QueueDone \/ QueueFailed
  BY <1>6 DEF QueueDone, QueueFailed, MainSleeps
<1> QED  BY <1>1, <1>2, <1>3, <1>4, <1>5, <1>6

\* A batch is accepted, and given away one by one.
LEMMA BatchBound ==
    ASSUME BoundInv,
           \/ \E n \in 0..Accept : AcceptPolled(n)
           \/ ServeParked
           \/ \E w \in Worker : ServeNew(w)
    PROVE  BoundInv'
<1> USE ServerAssumption DEF BoundInv, Numbers, Places, Bounded, Due, Late, work_vars
<1>1. CASE \E n \in 0..Accept : AcceptPolled(n)
  BY <1>1 DEF AcceptPolled, MainResumed
<1>2. CASE ServeParked
  BY <1>2 DEF ServeParked, Given
<1>3. CASE \E w \in Worker : ServeNew(w)
  BY <1>3 DEF ServeNew, Given
<1> QED  BY <1>1, <1>2, <1>3

\* Connections only take the number down.
LEMMA ConnKeepsBound ==
    ASSUME BoundInv, NEW w \in Worker,
           ConnBlock(w) \/ ConnResume(w) \/ ConnPark(w) \/ ConnEnd(w)
    PROVE  BoundInv'
<1> USE ServerAssumption DEF BoundInv, Numbers, Places, Bounded, Due, Late
<1>1. CASE ConnBlock(w) \/ ConnResume(w)
  BY <1>1 DEF ConnBlock, ConnResume
<1>2. CASE ConnPark(w) \/ ConnEnd(w)
  BY <1>2 DEF ConnPark, ConnEnd, ConnClosed
<1> QED  BY <1>1, <1>2

\* A stop raises the bound by one batch.
LEMMA StopBound == ASSUME BoundInv, Stop PROVE BoundInv'
BY ServerAssumption DEF BoundInv, Numbers, Places, Bounded, Due, Late, work_vars, Stop

\* cur_conn_num stays within a batch of max_conn_num, and within two after a stop: the
\* accept loop looks at it once for every accept_num descriptors (tcp_server.cpp:346).
THEOREM ConnectionsBounded == Spec => []ConnBound
<1>1. BoundInv /\ [Next]_vars => BoundInv'
  <2> SUFFICES ASSUME BoundInv, [Next]_vars PROVE BoundInv'
    OBVIOUS
  <2>1. CASE UNCHANGED vars
    BY <2>1 DEF vars, BoundInv, Numbers, Bounded, Due, Late
  <2>2. CASE Next
    BY <2>2, MainBound, BatchBound, ConnKeepsBound, StopBound DEF Next, Running
  <2> QED  BY <2>1, <2>2
<1>2. BoundInv => ConnBound
  BY ServerAssumption DEF BoundInv, Numbers, Places, Bounded, Due, Late, ConnBound
<1> QED  BY <1>1, <1>2, InitBound, PTL DEF Spec

-----------------------------------------------------------------------------
Types ==
    /\ cur_conn_num \in Int
    /\ co_pool \in Seq(Worker)
    /\ conn_info_pool \in Seq(Info)
    /\ conn_info \in Info \cup {NoInfo}
    /\ info \in [Worker -> Info \cup {NoInfo}]
    /\ wpc \in [Worker -> {"none", "parked", "proc", "late", "blocked"}]

\* A worker has an object for as long as it has a connection.
Busy == \A w \in Worker : info[w] # NoInfo <=> wpc[w] \in {"proc", "late", "blocked"}

\* The accept loop has an object ready wherever it may need one.
Ready == mpc \in {"top", "full", "poll", "serve"} => conn_info # NoInfo

InfoOwned ==
    /\ NoDup(conn_info_pool)
    /\ conn_info \notin Elems(conn_info_pool)
    /\ \A w \in Held :
        /\ info[w] # conn_info /\ info[w] \notin Elems(conn_info_pool)
        /\ \A v \in Held : info[v] = info[w] => v = w

Parked ==
    /\ NoDup(co_pool)
    /\ Elems(co_pool) = {w \in Worker : wpc[w] = "parked"}

Counted == cur_conn_num = Cardinality(Held)

OwnInv == Types /\ Busy /\ Ready /\ InfoOwned /\ Parked /\ Counted

\* The elements of a list are of its type.
LEMMA ElemsIn == ASSUME NEW S, NEW s \in Seq(S) PROVE Elems(s) \subseteq S
BY DEF Elems

\* There are finitely many connections.
LEMMA HeldFinite == ASSUME Types PROVE IsFiniteSet(Held) /\ Cardinality(Held) \in Nat
<1>1. Held \in SUBSET Worker
  BY DEF Held
<1> QED  BY <1>1, ServerAssumption, FS_Subset, FS_CardinalityType

\* Nothing that the ownership depends on has changed.
LEMMA SameOwners ==
    ASSUME OwnInv, UNCHANGED <<pool_vars, cur_conn_num, info>>, Ready',
           wpc' \in [Worker -> {"none", "parked", "proc", "late", "blocked"}],
           \A w \in Worker : \/ wpc'[w] = wpc[w]
                             \/ {wpc[w], wpc'[w]} \subseteq {"proc", "blocked"}
    PROVE  OwnInv'
<1> USE DEF OwnInv, pool_vars
<1>1. Types' /\ Busy'
  BY DEF Types, Busy
<1>2. Held' = Held
  BY DEF Held
<1>3. InfoOwned'
  BY <1>2 DEF InfoOwned
<1>4. Counted'
  BY <1>2 DEF Counted
<1>5. {w \in Worker : wpc'[w] = "parked"} = {w \in Worker : wpc[w] = "parked"}
  OBVIOUS
<1>6. Parked'
  BY <1>5 DEF Parked
<1> QED  BY <1>1, <1>3, <1>4, <1>6

\* The accept loop takes an object from the pool, or a new one.
LEMMA AllocOwned ==
    ASSUME OwnInv, AllocInfo, conn_info = NoInfo, UNCHANGED <<co_pool, work_vars>>
    PROVE  OwnInv'
<1> USE DEF OwnInv, work_vars
<1>1. Held' = Held
  BY DEF Held
<1>2. Parked' /\ Counted' /\ Busy'
  BY <1>1 DEF Parked, Counted, Busy
<1>3. CASE conn_info_pool # <<>>
  <2>1. /\ conn_info_pool \in Seq(Info) /\ NoDup(conn_info_pool)
        /\ conn_info' = Last(conn_info_pool) /\ conn_info_pool' = Front(conn_info_pool)
    BY <1>3 DEF Types, InfoOwned, AllocInfo
  <2>2. /\ conn_info_pool' \in Seq(Info) /\ NoDup(conn_info_pool')
        /\ conn_info' \in Info /\ conn_info' \in Elems(conn_info_pool)
        /\ Elems(conn_info_pool') = Elems(conn_info_pool) \ {conn_info'}
    BY <1>3, <2>1, FrontFacts
  <2>3. Types' /\ Ready'
    BY <2>2, ServerAssumption DEF Types, Ready
  <2>4. InfoOwned'
    BY <1>1, <2>2 DEF InfoOwned
  <2> QED  BY <1>2, <2>3, <2>4
<1>4. CASE conn_info_pool = <<>>
  <2>1. /\ conn_info' \in Info /\ \A w \in Held : info[w] # conn_info'
        /\ conn_info_pool' = conn_info_pool
    BY <1>4 DEF AllocInfo
  <2>2. Elems(conn_info_pool) = {}
    BY <1>4, ElemsEmpty, Zenon DEF Types
  <2>3. Types' /\ Ready'
    BY <2>1, ServerAssumption DEF Types, Ready
  <2>4. InfoOwned'
    BY <1>1, <2>1, <2>2 DEF InfoOwned
  <2> QED  BY <1>2, <2>3, <2>4
<1> QED  BY <1>3, <1>4

\* The accept loop gives its object to a worker that has none.
LEMMA GivenOwned ==
    ASSUME OwnInv, NEW w \in Worker, info[w] = NoInfo, conn_info # NoInfo,
           NEW at \in {"proc", "late"}, Given(w, at),
           conn_info_pool' = conn_info_pool,
           co_pool' \in Seq(Worker), NoDup(co_pool'), Elems(co_pool') = Elems(co_pool) \ {w}
    PROVE  OwnInv'
<1> USE DEF OwnInv
<1>1. /\ info' = [info EXCEPT ![w] = conn_info] /\ wpc' = [wpc EXCEPT ![w] = at]
      /\ conn_info' = NoInfo /\ cur_conn_num' = cur_conn_num + 1 /\ mpc' = "given"
      /\ conn_info \in Info
  BY DEF Given, Types
<1>2. Types' /\ Ready'
  BY <1>1 DEF Types, Ready
<1>3. Busy'
  BY <1>1 DEF Types, Busy
<1>4. Held' = Held \cup {w} /\ w \notin Held
  BY <1>1 DEF Held, Types
<1>5. InfoOwned'
  <2>1. Elems(conn_info_pool') = Elems(conn_info_pool) /\ Elems(conn_info_pool) \subseteq Info
    BY ElemsIn DEF Types
  <2>2. \A v \in Held : info'[v] = info[v] /\ info[v] # conn_info /\ v # w
    BY <1>1, <1>4 DEF Types, Held, InfoOwned
  <2>3. info'[w] = conn_info
    BY <1>1 DEF Types
  <2>4. \A v \in Held' : info'[v] # NoInfo /\ info'[v] \notin Elems(conn_info_pool)
    BY <1>1, <1>4, <2>2, <2>3, ServerAssumption DEF InfoOwned, Held
  <2>5. \A u, v \in Held' : info'[v] = info'[u] => v = u
    BY <1>4, <2>2, <2>3 DEF InfoOwned
  <2>6. NoInfo \notin Elems(conn_info_pool)
    BY <2>1, ServerAssumption
  <2> QED  BY <1>1, <2>1, <2>4, <2>5, <2>6 DEF InfoOwned
<1>6. Parked'
  BY <1>1 DEF Parked, Types
<1>7. Counted'
  <2>1. Cardinality(Held') = Cardinality(Held) + 1
    BY <1>4, HeldFinite, FS_AddElement, Zenon
  <2> QED  BY <1>1, <2>1 DEF Counted
<1> QED  BY <1>2, <1>3, <1>5, <1>6, <1>7

\* The object of a connection that is over goes to the pool.
LEMMA ClosedOwned ==
    ASSUME OwnInv, NEW w \in Worker, wpc[w] \in {"proc", "late"},
           NEW at \in {"none", "parked"}, ConnClosed(w),
           wpc' = [wpc EXCEPT ![w] = at],
           co_pool' = IF at = "parked" THEN Append(co_pool, w) ELSE co_pool,
           UNCHANGED <<conn_info, mpc>>
    PROVE  OwnInv'
<1> USE DEF OwnInv
<1>1. /\ info' = [info EXCEPT ![w] = NoInfo] /\ cur_conn_num' = cur_conn_num - 1
      /\ conn_info_pool' = Append(conn_info_pool, info[w])
  BY DEF ConnClosed
<1>2. w \in Held /\ info[w] \in Info
  BY DEF Busy, Held, Types
<1>3. /\ conn_info_pool' \in Seq(Info)
      /\ Elems(conn_info_pool') = Elems(conn_info_pool) \cup {info[w]}
      /\ NoDup(conn_info_pool')
  BY <1>1, <1>2, AppendFacts DEF Types, InfoOwned
<1>4. w \notin Elems(co_pool)
  BY DEF Parked
<1>5. /\ co_pool' \in Seq(Worker) /\ NoDup(co_pool')
      /\ Elems(co_pool') = IF at = "parked" THEN Elems(co_pool) \cup {w} ELSE Elems(co_pool)
  <2>1. CASE at = "parked"
    BY <1>4, <2>1, AppendFacts DEF Types, Parked
  <2>2. CASE at = "none"
    BY <2>2 DEF Types, Parked
  <2> QED  BY <2>1, <2>2
<1>6. Types' /\ Ready'
  BY <1>1, <1>3, <1>5 DEF Types, Ready
<1>7. Busy'
  BY <1>1 DEF Types, Busy
<1>8. Held' = Held \ {w}
  BY <1>1 DEF Held, Types
<1>9. InfoOwned'
  <2>1. \A v \in Held' : info'[v] = info[v] /\ v \in Held /\ info[v] # info[w]
    BY <1>1, <1>2, <1>8 DEF Types, Held, InfoOwned
  <2>2. conn_info # info[w]
    BY <1>2 DEF InfoOwned
  <2> QED  BY <1>3, <2>1, <2>2 DEF InfoOwned
<1>10. Parked'
  BY <1>5 DEF Parked, Types
<1>11. Counted'
  <2>1. Cardinality(Held') = Cardinality(Held) - 1
    BY <1>2, <1>8, HeldFinite, FS_RemoveElement, Zenon
  <2> QED  BY <1>1, <2>1 DEF Counted
<1> QED  BY <1>6, <1>7, <1>9, <1>10, <1>11

\* The accept loop gives its object up: to the pool or to nobody.
LEMMA DroppedOwned ==
    ASSUME OwnInv, conn_info' = NoInfo, UNCHANGED <<co_pool, work_vars>>,
           mpc' \notin {"top", "full", "poll", "serve"},
           \/ conn_info_pool' = conn_info_pool
           \/ conn_info # NoInfo /\ conn_info_pool' = Append(conn_info_pool, conn_info)
    PROVE  OwnInv'
<1> USE DEF OwnInv, work_vars
<1>1. Held' = Held /\ \A w \in Held : info[w] # NoInfo
  BY DEF Held
<1>2. Parked' /\ Counted' /\ Busy' /\ Ready'
  BY <1>1 DEF Parked, Counted, Busy, Ready
<1>3. /\ conn_info_pool' \in Seq(Info) /\ NoDup(conn_info_pool')
      /\ Elems(conn_info_pool') \subseteq Elems(conn_info_pool) \cup {conn_info}
  <2>1. CASE conn_info_pool' = conn_info_pool
    BY <2>1 DEF Types, InfoOwned
  <2>2. CASE conn_info # NoInfo /\ conn_info_pool' = Append(conn_info_pool, conn_info)
    <3>1. conn_info \in Info /\ conn_info_pool \in Seq(Info)
      BY <2>2 DEF Types
    <3> QED  BY <2>2, <3>1, AppendFacts DEF InfoOwned
  <2> QED  BY <2>1, <2>2
<1>4. NoInfo \notin Elems(conn_info_pool')
  BY <1>3, ElemsIn, ServerAssumption
<1>5. Types'
  BY <1>3 DEF Types
<1>6. InfoOwned'
  BY <1>1, <1>3, <1>4 DEF InfoOwned
<1> QED  BY <1>2, <1>5, <1>6

-----------------------------------------------------------------------------
\* At its start, and after it gave a connection away, the accept loop has no object.
Empty == mpc \in {"start", "given"} => conn_info = NoInfo

OwnerInv == OwnInv /\ Empty

\* Nothing is owned at first.
LEMMA InitOwned == Init => OwnerInv
<1> SUFFICES ASSUME Init PROVE OwnerInv
  OBVIOUS
<1>1. Elems(<<>>) = {} /\ NoDup(<<>>)
  BY DEF Elems, NoDup
<1>2. Held = {}
  BY DEF Init, Held
<1>3. Types
  BY DEF Init, Types
<1>4. Busy /\ Ready /\ Empty
  BY DEF Init, Busy, Ready, Empty
<1>5. InfoOwned /\ Parked
  BY <1>1, <1>2 DEF Init, InfoOwned, Parked
<1>6. Counted
  BY <1>2, FS_EmptySet DEF Init, Counted
<1> QED  BY <1>3, <1>4, <1>5, <1>6 DEF OwnerInv, OwnInv

\* main_co keeps it.
LEMMA MainOwned ==
    ASSUME OwnerInv,
           \/ MainStart \/ ListenFailed \/ SetupFailed \/ AcceptPoll \/ AcceptWoken
           \/ ServeNext \/ Served \/ CleanUp \/ CleanWait \/ CleanWoken \/ CleanDone
           \/ QueueDone \/ QueueFailed \/ Stop
           \/ \E n \in 0..Accept : AcceptPolled(n)
    PROVE  OwnerInv'
<1> USE DEF OwnerInv
<1>1. CASE MainStart \/ ServeNext
  <2>1. AllocInfo /\ conn_info = NoInfo /\ UNCHANGED <<co_pool, work_vars>>
    BY <1>1 DEF MainStart, ServeNext, Empty
  <2>2. mpc' \in {"top", "serve"}
    BY <1>1 DEF MainStart, ServeNext, MainGoes
  <2> QED  BY <2>1, <2>2, AllocOwned DEF Empty
<1>2. CASE CleanUp \/ QueueDone \/ QueueFailed
  <2>1. conn_info' = NoInfo /\ UNCHANGED <<co_pool, work_vars>> /\ mpc' \in {"clean", "ended"}
    BY <1>2 DEF CleanUp, QueueDone, QueueFailed, MainGoes, MainSleeps
  <2>2. \/ conn_info_pool' = conn_info_pool
        \/ conn_info # NoInfo /\ conn_info_pool' = Append(conn_info_pool, conn_info)
    BY <1>2 DEF CleanUp, QueueDone, QueueFailed, OwnInv, Ready
  <2> QED  BY <2>1, <2>2, DroppedOwned DEF Empty
<1>3. CASE \/ ListenFailed \/ SetupFailed \/ AcceptPoll \/ AcceptWoken \/ Served
           \/ CleanWait \/ CleanWoken \/ CleanDone \/ Stop
           \/ \E n \in 0..Accept : AcceptPolled(n)
  <2>1. UNCHANGED <<pool_vars, cur_conn_num, info, wpc>>
    BY <1>3 DEF ListenFailed, SetupFailed, AcceptPoll, AcceptWoken, Served, CleanWait,
       CleanWoken, CleanDone, Stop, AcceptPolled, work_vars
  <2>2. \/ mpc' = mpc
        \/ mpc' \in {"ended", "failed", "clean", "usleep"}
        \/ /\ mpc \in {"top", "full", "poll", "serve"}
           /\ mpc' \in {"top", "full", "poll", "serve"}
    BY <1>3, Zenon DEF ListenFailed, SetupFailed, AcceptPoll, AcceptWoken, Served, CleanWait,
       CleanWoken, CleanDone, Stop, AcceptPolled, MainGoes, MainSleeps, MainResumed
  <2>3. Ready' /\ Empty'
    BY <2>1, <2>2 DEF OwnInv, Ready, Empty, pool_vars
  <2>4. wpc' \in [Worker -> {"none", "parked", "proc", "late", "blocked"}]
    BY <2>1 DEF OwnInv, Types
  <2> QED  BY <2>1, <2>3, <2>4, SameOwners
<1> QED  BY <1>1, <1>2, <1>3

\* Giving a connection to a parked coroutine or to a new one keeps it.
LEMMA ServeOwned ==
    ASSUME OwnerInv, ServeParked \/ \E w \in Worker : ServeNew(w)
    PROVE  OwnerInv'
<1> USE DEF OwnerInv
<1>1. CASE ServeParked
  <2> DEFINE w == Last(co_pool)
             at == IF to_stop THEN "late" ELSE "proc"
  <2>1. /\ co_pool \in Seq(Worker) /\ co_pool # <<>> /\ NoDup(co_pool)
        /\ co_pool' = Front(co_pool) /\ conn_info_pool' = conn_info_pool
        /\ Given(w, at) /\ at \in {"proc", "late"} /\ conn_info # NoInfo
    BY <1>1 DEF ServeParked, OwnInv, Types, Parked, Ready
  <2>2. /\ w \in Worker /\ w \in Elems(co_pool) /\ co_pool' \in Seq(Worker)
        /\ NoDup(co_pool') /\ Elems(co_pool') = Elems(co_pool) \ {w}
    BY <2>1, FrontFacts
  <2>3. info[w] = NoInfo
    BY <2>2 DEF OwnInv, Parked, Busy
  <2>4. mpc' = "given" /\ conn_info' = NoInfo
    BY <2>1 DEF Given
  <2> HIDE DEF w, at
  <2> QED  BY <2>1, <2>2, <2>3, <2>4, GivenOwned DEF Empty
<1>2. ASSUME NEW w \in Worker, ServeNew(w) PROVE OwnerInv'
  <2>1. /\ co_pool' = co_pool /\ conn_info_pool' = conn_info_pool
        /\ co_pool \in Seq(Worker) /\ NoDup(co_pool)
        /\ Given(w, "proc") /\ conn_info # NoInfo /\ wpc[w] = "none"
    BY <1>2 DEF ServeNew, OwnInv, Types, Parked, Ready
  <2>2. info[w] = NoInfo /\ Elems(co_pool) = Elems(co_pool) \ {w}
    BY <2>1 DEF OwnInv, Parked, Busy
  <2>3. mpc' = "given" /\ conn_info' = NoInfo
    BY <2>1 DEF Given
  <2> QED  BY <2>1, <2>2, <2>3, GivenOwned DEF Empty
<1> QED  BY <1>1, <1>2

\* The workers keep it.
LEMMA ConnOwned ==
    ASSUME OwnerInv, NEW w \in Worker,
           ConnBlock(w) \/ ConnResume(w) \/ ConnPark(w) \/ ConnEnd(w)
    PROVE  OwnerInv'
<1> USE DEF OwnerInv
<1>1. CASE ConnBlock(w) \/ ConnResume(w)
  <2>1. UNCHANGED <<pool_vars, cur_conn_num, info, mpc>>
    BY <1>1 DEF ConnBlock, ConnResume
  <2>2. /\ wpc' \in [Worker -> {"none", "parked", "proc", "late", "blocked"}]
        /\ \A v \in Worker : \/ wpc'[v] = wpc[v]
                             \/ {wpc[v], wpc'[v]} \subseteq {"proc", "blocked"}
    BY <1>1 DEF ConnBlock, ConnResume, OwnInv, Types
  <2>3. Ready' /\ Empty'
    BY <2>1 DEF OwnInv, Ready, Empty, pool_vars
  <2> QED  BY <2>1, <2>2, <2>3, SameOwners
<1>2. CASE ConnPark(w)
  BY <1>2, ClosedOwned, Zenon DEF ConnPark, Empty
<1>3. CASE ConnEnd(w)
  BY <1>3, ClosedOwned, Zenon DEF ConnEnd, Empty
<1> QED  BY <1>1, <1>2, <1>3

\* No conn_info_t and no coroutine of the pools has two owners, and cur_conn_num is the
\* number of connections, so that it never wraps below 0 (tcp_server.cpp:92, 110).
THEOREM OwnersUnique == Spec => []OneOwner
<1>1. OwnerInv /\ [Next]_vars => OwnerInv'
  <2> SUFFICES ASSUME OwnerInv, [Next]_vars PROVE OwnerInv'
    OBVIOUS
  <2>1. CASE UNCHANGED vars
    <3>1. UNCHANGED <<pool_vars, cur_conn_num, info, wpc, mpc>>
      BY <2>1 DEF vars, pool_vars
    <3>2. Ready' /\ Empty' /\ wpc' \in [Worker -> {"none", "parked", "proc", "late", "blocked"}]
      BY <3>1 DEF OwnerInv, OwnInv, Ready, Empty, Types, pool_vars
    <3> QED  BY <3>1, <3>2, SameOwners DEF OwnerInv
  <2>2. CASE Next
    BY <2>2, MainOwned, ServeOwned, ConnOwned DEF Next, Running
  <2> QED  BY <2>1, <2>2
<1>2. OwnerInv => OneOwner
  BY DEF OwnerInv, OwnInv, InfoOwned, Parked, Counted, Busy, Held, OneOwner
<1> QED  BY <1>1, <1>2, InitOwned, PTL DEF Spec

-----------------------------------------------------------------------------
\* The disk hooks

\* Nothing is ever submitted, before the first hook because nobody has called one.
HangInv ==
    /\ resumed \in Seq(User \cup {Proc}) /\ DOMAIN pc = User \cup {Proc}
    /\ inflight = {} /\ unsignalled = 0 /\ counter = 0
    /\ pc[Proc] \in {"top", "get"} /\ (pc[Proc] = "get" => nread = -1)
    /\ made => RunsNow(Proc)
    /\ ~made => \A c \in User : pc[c] \in {"idle", "run"}

\* The program starts without a context.
LEMMA HangInit == ASSUME DiskInit, Proc \notin User PROVE HangInv
<1>1. resumed \in Seq(User \cup {Proc}) /\ ~made
  BY DEF DiskInit
<1>2. /\ DOMAIN pc = User \cup {Proc} /\ pc[Proc] = "top"
      /\ \A c \in User : pc[c] = "idle"
  BY Zenon DEF DiskInit
<1> QED  BY <1>1, <1>2 DEF DiskInit, HangInv

\* When proc_co runs, no coroutine that uses files does.
LEMMA OnlyProcRuns ==
    ASSUME HangInv, made, Proc \notin User, NEW c \in User
    PROVE  ~RunsNow(c) /\ resumed # <<>>
BY DEF HangInv, RunsNow

\* The steps of a coroutine that uses files: all of them come before proc_co is made.
LEMMA UserHangs ==
    ASSUME HangInv, Proc \notin User, NEW c \in User,
           CoRuns(c) \/ CoBlocks(c) \/ Hook(c) \/ Submit(c) \/ HookReturn(c)
    PROVE  HangInv'
<1>1. CASE Hook(c)
  <2>1. get_disk_ctx(c)
    BY <1>1 DEF Hook, disk_read, disk_readv, disk_write, disk_writev, pread, preadv, pwrite,
       pwritev, fsync, fdatasync
  <2>2. ~made
    BY <2>1, OnlyProcRuns DEF get_disk_ctx
  <2>3. /\ made' /\ resumed' = Append(resumed, Proc) /\ pc' = [pc EXCEPT ![c] = "ctx"]
        /\ UNCHANGED <<inflight, unsignalled, counter, nread>>
    BY <2>1, <2>2 DEF get_disk_ctx, aio_vars, proc_vars
  <2>4. /\ resumed' \in Seq(User \cup {Proc}) /\ resumed' # <<>> /\ Last(resumed') = Proc
    BY <2>3, AppendFacts DEF HangInv, Last
  <2>5. DOMAIN pc' = DOMAIN pc /\ pc'[Proc] = pc[Proc]
    BY <2>3, Zenon DEF HangInv
  <2> QED  BY <2>3, <2>4, <2>5 DEF HangInv, RunsNow
<1>2. CASE CoRuns(c) \/ CoBlocks(c)
  <2>1. ~made
    BY <1>2, OnlyProcRuns DEF CoRuns, CoBlocks, Sleeps
  <2>2. /\ ~made' /\ UNCHANGED <<inflight, unsignalled, counter, nread>>
        /\ pc' = [pc EXCEPT ![c] = "run"] \/ pc' = [pc EXCEPT ![c] = "idle"]
    BY <1>2, <2>1 DEF CoRuns, CoBlocks, Sleeps, aio_vars, proc_vars
  <2>3. resumed' \in Seq(User \cup {Proc})
    <3>1. resumed' = <<c>> \/ (resumed # <<>> /\ resumed' = Front(resumed))
      BY <1>2 DEF CoRuns, CoBlocks, Sleeps, RunsNow
    <3>2. <<c>> \in Seq(User \cup {Proc})
      OBVIOUS
    <3>3. resumed # <<>> => Front(resumed) \in Seq(User \cup {Proc})
      BY FrontFacts DEF HangInv
    <3> QED  BY <3>1, <3>2, <3>3
  <2>4. DOMAIN pc' = DOMAIN pc /\ pc'[Proc] = pc[Proc]
    BY <2>2, Zenon DEF HangInv
  <2>5. \A d \in User : pc'[d] \in {"idle", "run"}
    BY <2>1, <2>2, Zenon DEF HangInv
  <2> QED  BY <2>2, <2>3, <2>4, <2>5 DEF HangInv
<1>3. CASE Submit(c) \/ HookReturn(c)
  <2>1. RunsNow(c) /\ pc[c] \in {"ctx", "back"}
    BY <1>3 DEF Submit, HookReturn, Sleeps, Goes
  <2> QED  BY <2>1, OnlyProcRuns DEF HangInv
<1> QED  BY <1>1, <1>2, <1>3

\* The loop of proc_disk_event goes round, and the kernel has nothing to do.
LEMMA ProcHangs == ASSUME HangInv, Proc \notin User, ProcStep \/ Kernel PROVE HangInv'
<1>1. ReadCounter \/ GetDone
  BY DEF HangInv, ProcStep, Kernel, GetEvents, ResumeCo, ResumeDone, Expects, Signal, Complete
<1>2. /\ UNCHANGED <<made, inflight, unsignalled, resumed>> /\ counter' = 0
      /\ \/ pc' = [pc EXCEPT ![Proc] = "get"] /\ nread' = -1
         \/ pc' = [pc EXCEPT ![Proc] = "top"]
  BY <1>1 DEF HangInv, ReadCounter, ReadHook, GetDone, Goes, aio_vars
<1>3. /\ DOMAIN pc' = DOMAIN pc /\ \A d \in User : pc'[d] = pc[d]
      /\ pc'[Proc] \in {"top", "get"} /\ (pc'[Proc] = "get" => nread' = -1)
  BY <1>2 DEF HangInv
<1>4. RunsNow(Proc)' <=> RunsNow(Proc)
  BY <1>2 DEF RunsNow
<1> QED  BY <1>2, <1>3, <1>4 DEF HangInv

\* The first disk hook of a thread never returns, whichever it is and however many
\* coroutines there are: proc_co, which it has resumed, spins and nobody else runs
\* (disk_io_hook.cpp:211, network_hook.cpp:319).
THEOREM FirstHookHangs == ASSUME Proc \notin User PROVE DiskSpec => []Spinning
<1>1. HangInv /\ [DiskNext]_disk_vars => HangInv'
  <2> SUFFICES ASSUME HangInv, [DiskNext]_disk_vars PROVE HangInv'
    OBVIOUS
  <2>1. CASE UNCHANGED disk_vars
    BY <2>1 DEF disk_vars, HangInv, RunsNow
  <2>2. CASE DiskNext
    BY <2>2, UserHangs, ProcHangs DEF DiskNext
  <2> QED  BY <2>1, <2>2
<1>2. HangInv => Spinning
  BY DEF HangInv, Spinning
<1> QED  BY <1>1, <1>2, HangInit, PTL DEF DiskSpec
=============================================================================
