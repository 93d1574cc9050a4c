--------------------------- MODULE StartUpProofs ---------------------------
(***************************************************************************)
(* Proofs about StartUp, for any number of pods of each service and any    *)
(* number of failures: the state is well typed (TypeCorrect), no server    *)
(* runs without its tables (ServersHaveTables), and no event of a payment  *)
(* that came through the gateway is dropped, but on a new node of RabbitMQ *)
(* (NothingIsDropped).                                                     *)
(*                                                                         *)
(* The argument: tables are never taken away, and the queue only with the  *)
(* node of RabbitMQ, which lost tells; so it is enough to look at what     *)
(* each pod has seen done (Good, over the queue that is there or was lost, *)
(* Queue).  The gateway has never asked RabbitMQ; that the queue is there  *)
(* it knows because notification-service has answered, which it does only  *)
(* after it has declared the queue, in this start or in an earlier one.    *)
(***************************************************************************)
EXTENDS StartUp, TLAPS

Pod == [pc : Steps, open : BOOLEAN, seen : SUBSET Backends]

\* What RabbitMQ has declared, or notification-service believes it has.
Queue == IF lost THEN topology \cup {"queue"} ELSE topology

\* What the place of a pod d of service s says of the schemas sch and of what top
\* was declared.
Good(s, d, sch, top) ==
    /\ d \in Pod
    /\ d.pc = "serve" \/ d.pc \in DOMAIN Main[s]
    /\ s \in Backends /\ d.pc \in {"connect", "serve"} => s \in sch
    /\ s = "notification" /\ d.pc = "serve" => "queue" \in top
    /\ s = "gateway" /\ (d.pc = "serve" \/ "notification" \in d.seen) => "queue" \in top

StoresOK ==
    /\ up \subseteq Stores /\ schema \subseteq Backends
    /\ topology \subseteq {"exchange", "queue"}
    /\ faults \in 0 .. MaxFaults

PodsOK ==
    /\ pod \in [Pods -> Pod]
    /\ \A p \in Pods : Good(ServiceOf[p], pod[p], schema, Queue)

IInv == StoresOK /\ PodsOK /\ lost \in BOOLEAN
-----------------------------------------------------------------------------
(* The order of the steps of main. *)

LEMMA MovieMainIs ==
    /\ DOMAIN Main["movie"] = {"waitDB", "migrate"}
    /\ Main["movie"]["waitDB"] = "migrate" /\ Main["movie"]["migrate"] = "serve"
  BY DEF Main, MovieMain

LEMMA BookingMainIs ==
    /\ DOMAIN Main["booking"] = {"waitDB", "waitRedis", "migrate"}
    /\ Main["booking"]["waitDB"] = "waitRedis" /\ Main["booking"]["waitRedis"] = "migrate"
    /\ Main["booking"]["migrate"] = "serve"
  BY DEF Main, BookingMain

LEMMA PaymentMainIs ==
    ASSUME NEW s \in {"payment", "notification"}
    PROVE  /\ DOMAIN Main[s] = {"waitDB", "waitRabbitMQ", "migrate", "connect"}
           /\ Main[s]["waitDB"] = "waitRabbitMQ" /\ Main[s]["waitRabbitMQ"] = "migrate"
           /\ Main[s]["migrate"] = "connect" /\ Main[s]["connect"] = "serve"
  BY DEF Main, PaymentMain, NotificationMain

LEMMA GatewayMainIs ==
    DOMAIN Main["gateway"] = {"waitBackends"} /\ Main["gateway"]["waitBackends"] = "serve"
  BY DEF Main, GatewayMain

\* A wait is followed by another wait or by the migrations.
LEMMA AfterWait ==
    ASSUME NEW s \in Services, NEW pc \in {"waitDB", "waitRedis", "waitRabbitMQ"},
           pc \in DOMAIN Main[s]
    PROVE  /\ s \in Backends
           /\ Main[s][pc] \in DOMAIN Main[s]
           /\ Main[s][pc] \in {"waitRedis", "waitRabbitMQ", "migrate"}
  BY MovieMainIs, BookingMainIs, PaymentMainIs, GatewayMainIs DEF Services, Backends

\* The migrations are followed by the server, in notification-service by "connect".
LEMMA AfterMigrate ==
    ASSUME NEW s \in Services, "migrate" \in DOMAIN Main[s]
    PROVE  /\ s \in Backends
           /\ Main[s]["migrate"] = "serve" \/ Main[s]["migrate"] \in DOMAIN Main[s]
           /\ Main[s]["migrate"] \in {"connect", "serve"}
           /\ s = "notification" => Main[s]["migrate"] = "connect"
  BY MovieMainIs, BookingMainIs, PaymentMainIs, GatewayMainIs DEF Services, Backends

LEMMA WhoConnects ==
    ASSUME NEW s \in Services, "connect" \in DOMAIN Main[s]
    PROVE  s \in {"payment", "notification"}
  BY MovieMainIs, BookingMainIs, GatewayMainIs DEF Services, Backends

LEMMA WhoWaitsForBackends ==
    ASSUME NEW s \in Services, "waitBackends" \in DOMAIN Main[s]
    PROVE  s = "gateway"
  BY MovieMainIs, BookingMainIs, PaymentMainIs DEF Services, Backends
-----------------------------------------------------------------------------
(* A pod stays good. *)

\* Tables stay, and so does the queue, there or lost.
LEMMA GoodStays ==
    ASSUME NEW s, NEW d, NEW sch, NEW top, NEW sch2, NEW top2,
           Good(s, d, sch, top), sch \subseteq sch2, "queue" \in top => "queue" \in top2
    PROVE  Good(s, d, sch2, top2)
  BY DEF Good

LEMMA FreshIsGood ==
    ASSUME NEW s \in Services, NEW sch, NEW top
    PROVE  Good(s, Fresh(s), sch, top)
  <1>1. Fresh(s) \in Pod /\ Fresh(s).pc = FirstStep(s) /\ Fresh(s).seen = {}
    BY DEF Fresh, FirstStep, Pod, Steps
  <1>2. FirstStep(s) \in DOMAIN Main[s] /\ FirstStep(s) \notin {"connect", "serve"}
    BY MovieMainIs, BookingMainIs, PaymentMainIs, GatewayMainIs DEF FirstStep, Services, Backends
  <1> QED
    BY <1>1, <1>2 DEF Good

\* A container of the server that is started again.
LEMMA RestartIsGood ==
    ASSUME NEW s \in Services, NEW d, NEW sch, NEW top, Good(s, d, sch, top),
           d.pc \in {"connect", "serve"}
    PROVE  Good(s, [Fresh(s) EXCEPT !.pc = ServerStep(s)], sch, top)
  <1> DEFINE e == [Fresh(s) EXCEPT !.pc = ServerStep(s)]
  <1>1. e \in Pod /\ e.pc = ServerStep(s) /\ e.seen = {}
    BY DEF Fresh, FirstStep, ServerStep, Pod, Steps
  <1>2. /\ ServerStep(s) = "serve" \/ ServerStep(s) \in DOMAIN Main[s]
        /\ s = "notification" => ServerStep(s) = "connect"
    BY PaymentMainIs DEF ServerStep
  <1>3. s = "gateway" => d.pc = "serve"
    BY GatewayMainIs DEF Good
  <1> HIDE DEF e
  <1>4. Good(s, e, sch, top)
    BY <1>1, <1>2, <1>3 DEF Good
  <1> QED
    BY <1>4 DEF e

LEMMA AdvanceIsGood ==
    ASSUME NEW s \in Services, NEW d, NEW sch, NEW top, Good(s, d, sch, top),
           d.pc \in {"waitDB", "waitRedis", "waitRabbitMQ"}
    PROVE  Good(s, [d EXCEPT !.pc = Main[s][d.pc]], sch, top)
  <1> DEFINE n == Main[s][d.pc]
             e == [d EXCEPT !.pc = n]
  <1>1. d.pc \in DOMAIN Main[s]
    BY DEF Good
  <1>2. s \in Backends /\ n \in DOMAIN Main[s] /\ n \in {"waitRedis", "waitRabbitMQ", "migrate"}
    BY <1>1, AfterWait
  <1> HIDE DEF n
  <1>3. e \in Pod /\ e.pc = n /\ e.seen = d.seen
    BY <1>2 DEF Good, Pod, Steps
  <1>4. s # "gateway"
    BY <1>2 DEF Backends
  <1> HIDE DEF e
  <1>5. Good(s, e, sch, top)
    BY <1>2, <1>3, <1>4 DEF Good
  <1> QED
    BY <1>5 DEF e, n

LEMMA MigratedIsGood ==
    ASSUME NEW s \in Services, NEW d, NEW sch, NEW top, Good(s, d, sch, top),
           d.pc = "migrate"
    PROVE  Good(s, [d EXCEPT !.pc = Main[s][d.pc]], sch \cup {s}, top)
  <1> DEFINE n == Main[s]["migrate"]
             e == [d EXCEPT !.pc = n]
  <1>1. d.pc \in DOMAIN Main[s]
    BY DEF Good
  <1>2. /\ s \in Backends /\ (n = "serve" \/ n \in DOMAIN Main[s])
        /\ n \in {"connect", "serve"}
        /\ s = "notification" => n = "connect"
    BY <1>1, AfterMigrate
  <1>3. s # "gateway"
    BY <1>1, AfterMigrate DEF Backends
  <1> HIDE DEF n
  <1>4. e \in Pod /\ e.pc = n
    BY <1>2 DEF Good, Pod, Steps
  <1> HIDE DEF e
  <1>5. Good(s, e, sch \cup {s}, top)
    BY <1>2, <1>3, <1>4 DEF Good
  <1> QED
    BY <1>5 DEF e, n

LEMMA ConnectedIsGood ==
    ASSUME NEW s \in Services, NEW d, NEW sch, NEW top, Good(s, d, sch, top),
           d.pc = "connect"
    PROVE  Good(s, [pc |-> "serve", open |-> TRUE, seen |-> {}], sch, top \cup Declared(s))
  <1> DEFINE e == [pc |-> "serve", open |-> TRUE, seen |-> {}]
  <1>1. s \in {"payment", "notification"} /\ s \in sch
    BY WhoConnects DEF Good, Backends
  <1>2. e \in Pod /\ e.pc = "serve"
    BY DEF Pod, Steps
  <1> HIDE DEF e
  <1>3. s = "notification" => "queue" \in Declared(s)
    BY DEF Declared
  <1>4. s # "gateway"
    BY <1>1
  <1>5. Good(s, e, sch, top \cup Declared(s))
    BY <1>1, <1>2, <1>3, <1>4 DEF Good
  <1> QED
    BY <1>5 DEF e

\* The gateway has found one more backend, or the last one.
LEMMA PolledIsGood ==
    ASSUME NEW d, NEW sch, NEW top, Good("gateway", d, sch, top), NEW b \in Backends,
           d.pc = "waitBackends", b = "notification" => "queue" \in top
    PROVE  Good("gateway", IF d.seen \cup {b} = Backends
                           THEN [Fresh("gateway") EXCEPT !.pc = Main.gateway[@]]
                           ELSE [d EXCEPT !.seen = d.seen \cup {b}], sch, top)
  <1>1. CASE d.seen \cup {b} = Backends
    <2> DEFINE e == [Fresh("gateway") EXCEPT !.pc = Main.gateway[@]]
    <2>1. e \in Pod /\ e.pc = "serve"
      BY GatewayMainIs DEF Fresh, FirstStep, Pod, Steps
    <2>2. "queue" \in top
      BY <1>1 DEF Good, Backends
    <2> HIDE DEF e
    <2>3. Good("gateway", e, sch, top)
      BY <2>1, <2>2 DEF Good, Backends
    <2> QED
      BY <1>1, <2>3 DEF e
  <1>2. CASE d.seen \cup {b} # Backends
    <2> DEFINE e == [d EXCEPT !.seen = d.seen \cup {b}]
    <2>1. e \in Pod /\ e.pc = "waitBackends" /\ e.seen = d.seen \cup {b}
      BY DEF Good, Pod
    <2>2. "notification" \in e.seen => "queue" \in top
      BY <2>1 DEF Good
    <2> HIDE DEF e
    <2>3. Good("gateway", e, sch, top)
      BY <2>1, <2>2, GatewayMainIs DEF Good
    <2> QED
      BY <1>2, <2>3 DEF e
  <1> QED
    BY <1>1, <1>2

\* The channel to RabbitMQ is closed.
LEMMA ClosedIsGood ==
    ASSUME NEW s, NEW d, NEW sch, NEW top, Good(s, d, sch, top)
    PROVE  Good(s, [d EXCEPT !.open = FALSE], sch, top)
  <1> DEFINE e == [d EXCEPT !.open = FALSE]
  <1>1. e \in Pod /\ e.pc = d.pc /\ e.seen = d.seen
    BY DEF Good, Pod
  <1> HIDE DEF e
  <1>2. Good(s, e, sch, top)
    BY <1>1 DEF Good
  <1> QED
    BY <1>2 DEF e
-----------------------------------------------------------------------------
(* A step keeps the invariant. *)

\* The queue is not lost without our knowing.
QueueStays == "queue" \in Queue => "queue" \in Queue'

LEMMA SameQueue ==
    ASSUME topology \subseteq topology', UNCHANGED lost
    PROVE  QueueStays
  BY DEF QueueStays, Queue

\* The service of a pod.
LEMMA PodService == \A p \in Pods : ServiceOf[p] \in Services
  BY ServiceAssumption

\* One pod changes.
LEMMA OneChanges ==
    ASSUME PodsOK, NEW p \in Pods, NEW e, pod' = [pod EXCEPT ![p] = e],
           schema \subseteq schema', QueueStays,
           Good(ServiceOf[p], e, schema', Queue')
    PROVE  PodsOK'
  <1>1. pod' \in [Pods -> Pod]
    BY DEF PodsOK, Good
  <1>2. ASSUME NEW q \in Pods PROVE Good(ServiceOf[q], pod'[q], schema', Queue')
    <2>1. CASE q = p
      BY <2>1 DEF PodsOK
    <2>2. CASE q # p
      <3>1. pod'[q] = pod[q] /\ Good(ServiceOf[q], pod[q], schema, Queue)
        BY <2>2 DEF PodsOK
      <3> QED
        BY <3>1, GoodStays DEF QueueStays
    <2> QED
      BY <2>1, <2>2
  <1> QED
    BY <1>1, <1>2 DEF PodsOK

\* No pod changes.
LEMMA NoneChanges ==
    ASSUME PodsOK, UNCHANGED pod, schema \subseteq schema', QueueStays
    PROVE  PodsOK'
  <1>1. ASSUME NEW q \in Pods PROVE Good(ServiceOf[q], pod[q], schema', Queue')
    <2>1. Good(ServiceOf[q], pod[q], schema, Queue)
      BY DEF PodsOK
    <2> QED
      BY <2>1, GoodStays DEF QueueStays
  <1> QED
    BY <1>1 DEF PodsOK

\* The init container, or the whole pod, starts again.
LEMMA InitAgainIsOK ==
    ASSUME PodsOK, NEW p \in Pods, pod' = InitAgain(p),
           schema \subseteq schema', QueueStays
    PROVE  PodsOK'
  <1>1. Good(ServiceOf[p], Fresh(ServiceOf[p]), schema', Queue')
    BY FreshIsGood, PodService
  <1> QED
    BY <1>1, OneChanges DEF InitAgain

\* The container of the server starts again.
LEMMA RestartIsOK ==
    ASSUME PodsOK, NEW p \in Pods, pod[p].pc \in {"connect", "serve"},
           pod' = [pod EXCEPT ![p] = [Fresh(ServiceOf[p]) EXCEPT !.pc = ServerStep(ServiceOf[p])]],
           UNCHANGED <<schema, topology, lost>>
    PROVE  PodsOK'
  <1>1. Good(ServiceOf[p], pod[p], schema, Queue)
    BY DEF PodsOK
  <1>2. Good(ServiceOf[p], [Fresh(ServiceOf[p]) EXCEPT !.pc = ServerStep(ServiceOf[p])],
             schema, Queue)
    BY <1>1, PodService, RestartIsGood
  <1> QED
    BY <1>2, SameQueue, OneChanges DEF Queue

\* A wait that ends.
LEMMA WaitIsOK ==
    ASSUME PodsOK, NEW p \in Pods, pod[p].pc \in {"waitDB", "waitRedis", "waitRabbitMQ"},
           Advance(p), UNCHANGED <<schema, topology, lost>>
    PROVE  PodsOK'
  <1> DEFINE e == [pod[p] EXCEPT !.pc = Main[ServiceOf[p]][pod[p].pc]]
  <1>1. Good(ServiceOf[p], pod[p], schema, Queue)
    BY DEF PodsOK
  <1>2. Good(ServiceOf[p], e, schema, Queue)
    BY <1>1, PodService, AdvanceIsGood
  <1>3. pod' = [pod EXCEPT ![p] = e]
    BY DEF Advance
  <1> HIDE DEF e
  <1> QED
    BY <1>2, <1>3, SameQueue, OneChanges DEF Queue

\* Migrations run, and their losers start again.
LEMMA MigrationsAreOK ==
    ASSUME PodsOK, NEW p \in Pods, RunMigrations(p)
    PROVE  PodsOK'
  <1> DEFINE e == [pod[p] EXCEPT !.pc = Main[ServiceOf[p]][pod[p].pc]]
  <1>1. PICK losers \in SUBSET Rivals(p) :
            pod' = [q \in Pods |-> IF q = p THEN e
                                   ELSE IF q \in losers THEN Fresh(ServiceOf[q]) ELSE pod[q]]
    BY DEF RunMigrations
  <1>2. schema' = schema \cup {ServiceOf[p]} /\ Queue' = Queue /\ pod[p].pc = "migrate"
    BY DEF RunMigrations, At, Queue
  <1>3. Good(ServiceOf[p], pod[p], schema, Queue)
    BY DEF PodsOK
  <1>4. Good(ServiceOf[p], e, schema', Queue')
    BY <1>2, <1>3, PodService, MigratedIsGood
  <1> HIDE DEF e
  <1>5. ASSUME NEW q \in Pods PROVE Good(ServiceOf[q], pod'[q], schema', Queue')
    <2>1. CASE q = p
      BY <1>1, <1>4, <2>1
    <2>2. CASE q # p /\ q \in losers
      <3>1. pod'[q] = Fresh(ServiceOf[q])
        BY <1>1, <2>2
      <3> QED
        BY <3>1, FreshIsGood, PodService
    <2>3. CASE q # p /\ q \notin losers
      <3>1. pod'[q] = pod[q] /\ Good(ServiceOf[q], pod[q], schema, Queue)
        BY <1>1, <2>3 DEF PodsOK
      <3> QED
        BY <1>2, <3>1, GoodStays
    <2> QED
      BY <2>1, <2>2, <2>3
  <1>6. pod' \in [Pods -> Pod]
    <2>1. \A q \in Pods : pod'[q] \in Pod
      BY <1>5 DEF Good
    <2> QED
      BY <1>1, <2>1
  <1> QED
    BY <1>5, <1>6 DEF PodsOK

LEMMA ConnectIsOK ==
    ASSUME PodsOK, NEW p \in Pods, ConnectAndDeclare(p)
    PROVE  PodsOK'
  <1> DEFINE e == [pc |-> "serve", open |-> TRUE, seen |-> {}]
  <1>1. /\ pod[p].pc = "connect" /\ pod' = [pod EXCEPT ![p] = e]
        /\ topology' = topology \cup Declared(ServiceOf[p]) /\ schema' = schema
        /\ lost' = (lost /\ ServiceOf[p] # "notification")
    BY DEF ConnectAndDeclare, At
  <1>2. Good(ServiceOf[p], pod[p], schema, Queue)
    BY DEF PodsOK
  <1>3. "queue" \in Queue \cup Declared(ServiceOf[p]) => "queue" \in Queue'
    BY <1>1 DEF Queue, Declared
  <1>4. Good(ServiceOf[p], e, schema, Queue \cup Declared(ServiceOf[p]))
    BY <1>1, <1>2, PodService, ConnectedIsGood
  <1> HIDE DEF e
  <1>5. Good(ServiceOf[p], e, schema', Queue')
    BY <1>1, <1>3, <1>4, GoodStays
  <1>6. QueueStays
    BY <1>3 DEF QueueStays
  <1> QED
    BY <1>1, <1>5, <1>6, OneChanges

LEMMA PollIsOK ==
    ASSUME PodsOK, NEW p \in Pods, NEW s \in Backends, PollBackend(p, s)
    PROVE  PodsOK'
  <1> DEFINE e == IF pod[p].seen \cup {s} = Backends
                  THEN [Fresh("gateway") EXCEPT !.pc = Main.gateway[@]]
                  ELSE [pod[p] EXCEPT !.seen = pod[p].seen \cup {s}]
  <1>1. pod[p].pc = "waitBackends" /\ pod' = [pod EXCEPT ![p] = e]
    BY DEF PollBackend, At
  <1>2. Good(ServiceOf[p], pod[p], schema, Queue)
    BY DEF PodsOK
  <1>3. ServiceOf[p] = "gateway"
    <2>1. "waitBackends" \in DOMAIN Main[ServiceOf[p]]
      BY <1>1, <1>2 DEF Good
    <2> QED
      BY <2>1, PodService, WhoWaitsForBackends
  <1>4. s = "notification" => "queue" \in Queue
    <2>1. PICK q \in Pods : ServiceOf[q] = s /\ pod[q].pc = "serve"
      BY DEF PollBackend, At
    <2>2. Good(s, pod[q], schema, Queue)
      BY <2>1 DEF PodsOK
    <2> QED
      BY <2>1, <2>2 DEF Good
  <1>5. Good(ServiceOf[p], e, schema, Queue)
    BY <1>1, <1>2, <1>3, <1>4, PolledIsGood
  <1> HIDE DEF e
  <1>6. schema' = schema /\ Queue' = Queue /\ QueueStays
    BY DEF PollBackend, Queue, QueueStays
  <1> QED
    BY <1>1, <1>5, <1>6, OneChanges

\* When RabbitMQ goes away every channel is closed.
LEMMA DisconnectedIsOK ==
    ASSUME PodsOK, pod' = Disconnected, schema' = schema, QueueStays
    PROVE  PodsOK'
  <1>1. ASSUME NEW q \in Pods PROVE Good(ServiceOf[q], pod'[q], schema', Queue')
    <2>1. Good(ServiceOf[q], pod[q], schema, Queue)
      BY DEF PodsOK
    <2>2. Good(ServiceOf[q], [pod[q] EXCEPT !.open = FALSE], schema, Queue)
      BY <2>1, ClosedIsGood
    <2>3. pod'[q] = [pod[q] EXCEPT !.open = FALSE]
      BY DEF Disconnected
    <2> QED
      BY <2>2, <2>3, GoodStays DEF QueueStays
  <1>2. \A q \in Pods : pod'[q] \in Pod
    BY <1>1 DEF Good
  <1>3. pod' \in [Pods -> Pod]
    BY <1>2 DEF Disconnected
  <1> QED
    BY <1>1, <1>3 DEF PodsOK

LEMMA StoreFailsIsOK ==
    ASSUME PodsOK, NEW i \in Stores, StoreFails(i)
    PROVE  PodsOK'
  <1>1. schema' = schema /\ topology' = topology /\ QueueStays
    BY SameQueue DEF StoreFails
  <1>2. CASE i # "rabbitmq"
    BY <1>1, <1>2, NoneChanges DEF StoreFails
  <1>3. CASE i = "rabbitmq"
    BY <1>1, <1>3, DisconnectedIsOK DEF StoreFails
  <1> QED
    BY <1>2, <1>3

\* A new node has no queue, and lost says so.
LEMMA BrokerReplacedIsOK ==
    ASSUME PodsOK, BrokerReplaced
    PROVE  PodsOK'
  <1>1. schema' = schema /\ pod' = Disconnected /\ QueueStays
    BY DEF BrokerReplaced, QueueStays, Queue
  <1> QED
    BY <1>1, DisconnectedIsOK

\* What a step of pod p does to the pods.
LEMMA PodStepIsOK ==
    ASSUME PodsOK, NEW p \in Pods,
           \/ Step(p) \/ WaitExpires(p) \/ MigrationFails(p) \/ ConnectFails(p)
           \/ LivenessFails(p) \/ Crash(p) \/ Replace(p)
    PROVE  PodsOK'
  <1>1. CASE WaitForDB(p) \/ WaitForRedis(p) \/ WaitForRabbitMQ(p)
    <2>1. /\ pod[p].pc \in {"waitDB", "waitRedis", "waitRabbitMQ"}
          /\ Advance(p) /\ UNCHANGED <<schema, topology, lost>>
      BY <1>1 DEF WaitForDB, WaitForRedis, WaitForRabbitMQ, At
    <2> QED
      BY <2>1, WaitIsOK
  <1>2. CASE RunMigrations(p)
    BY <1>2, MigrationsAreOK
  <1>3. CASE ConnectAndDeclare(p)
    BY <1>3, ConnectIsOK
  <1>4. CASE \E s \in Backends : PollBackend(p, s)
    BY <1>4, PollIsOK
  <1>5. CASE WaitExpires(p)
    BY <1>5, SameQueue, InitAgainIsOK DEF WaitExpires
  <1>6. CASE MigrationFails(p)
    BY <1>6, SameQueue, InitAgainIsOK DEF MigrationFails
  <1>7. CASE ConnectFails(p)
    BY <1>7, SameQueue, NoneChanges DEF ConnectFails
  <1>8. CASE LivenessFails(p)
    BY <1>8, RestartIsOK DEF LivenessFails, At
  <1>9. CASE Crash(p)
    <2>1. CASE pod[p].pc \in {"connect", "serve"}
      BY <1>9, <2>1, RestartIsOK DEF Crash
    <2>2. CASE pod[p].pc \notin {"connect", "serve"}
      BY <1>9, <2>2, SameQueue, InitAgainIsOK DEF Crash
    <2> QED
      BY <2>1, <2>2
  <1>10. CASE Replace(p)
    BY <1>10, SameQueue, InitAgainIsOK DEF Replace
  <1> QED
    BY <1>1, <1>2, <1>3, <1>4, <1>5, <1>6, <1>7, <1>8, <1>9, <1>10 DEF Step

LEMMA PodStepKeepsStores ==
    ASSUME StoresOK, NEW p \in Pods, ServiceOf[p] \in Services, PodsOK,
           \/ Step(p) \/ WaitExpires(p) \/ MigrationFails(p) \/ ConnectFails(p)
           \/ LivenessFails(p) \/ Crash(p) \/ Replace(p)
    PROVE  StoresOK'
  <1>1. At(p, "migrate") => ServiceOf[p] \in Backends
    <2>1. Good(ServiceOf[p], pod[p], schema, Queue)
      BY DEF PodsOK
    <2> QED
      BY <2>1, AfterMigrate DEF Good, At
  <1>2. CASE WaitForDB(p) \/ WaitForRedis(p) \/ WaitForRabbitMQ(p)
    BY <1>2 DEF StoresOK, WaitForDB, WaitForRedis, WaitForRabbitMQ
  <1>3. CASE RunMigrations(p)
    BY <1>1, <1>3 DEF StoresOK, RunMigrations
  <1>4. CASE ConnectAndDeclare(p)
    BY <1>4 DEF StoresOK, ConnectAndDeclare, Declared
  <1>5. CASE \E s \in Backends : PollBackend(p, s)
    BY <1>5 DEF StoresOK, PollBackend
  <1>6. CASE WaitExpires(p) \/ LivenessFails(p)
    BY <1>6 DEF StoresOK, WaitExpires, LivenessFails
  <1>7. CASE MigrationFails(p)
    BY <1>1, <1>7 DEF StoresOK, MigrationFails
  <1>8. CASE ConnectFails(p)
    BY <1>8 DEF StoresOK, ConnectFails
  <1>9. CASE Crash(p) \/ Replace(p)
    BY <1>9, FaultsAssumption DEF StoresOK, Crash, Replace
  <1> QED
    BY <1>2, <1>3, <1>4, <1>5, <1>6, <1>7, <1>8, <1>9 DEF Step

LEMMA InitOK == Init => IInv
  <1> SUFFICES ASSUME Init PROVE IInv
    OBVIOUS
  <1>1. StoresOK
    BY FaultsAssumption DEF Init, StoresOK
  <1>2. ASSUME NEW p \in Pods PROVE Good(ServiceOf[p], pod[p], schema, Queue)
    BY FreshIsGood, PodService DEF Init
  <1>3. pod \in [Pods -> Pod]
    BY <1>2 DEF Init, Good
  <1> QED
    BY <1>1, <1>2, <1>3 DEF Init, PodsOK, IInv

LEMMA LostOK ==
    ASSUME lost \in BOOLEAN, [Next]_vars
    PROVE  lost' \in BOOLEAN
  <1>1. \/ lost' = lost \/ lost' = TRUE
        \/ \E p \in Pods : lost' = (lost /\ ServiceOf[p] # "notification")
    BY DEF Next, Step, WaitForDB, WaitForRedis, WaitForRabbitMQ, RunMigrations,
           ConnectAndDeclare, PollBackend, WaitExpires, MigrationFails, ConnectFails,
           LivenessFails, Crash, Replace, StoreFails, StoreStarts, BrokerReplaced, vars
  <1> QED
    BY <1>1

LEMMA StepOK == IInv /\ [Next]_vars => IInv'
  <1> SUFFICES ASSUME IInv, [Next]_vars PROVE IInv'
    OBVIOUS
  <1> USE DEF IInv
  <1>0. lost' \in BOOLEAN
    BY LostOK
  <1>1. CASE \E p \in Pods : \/ Step(p) \/ WaitExpires(p) \/ MigrationFails(p)
                             \/ ConnectFails(p) \/ LivenessFails(p)
                             \/ Crash(p) \/ Replace(p)
    <2>1. PICK p \in Pods : \/ Step(p) \/ WaitExpires(p) \/ MigrationFails(p)
                            \/ ConnectFails(p) \/ LivenessFails(p)
                            \/ Crash(p) \/ Replace(p)
      BY <1>1
    <2>2. StoresOK'
      BY <2>1, PodService, PodStepKeepsStores
    <2>3. PodsOK'
      BY <2>1, PodStepIsOK
    <2> QED
      BY <1>0, <2>2, <2>3
  <1>2. CASE (\E i \in Stores : StoreFails(i)) \/ BrokerReplaced
    <2>1. StoresOK'
      <3>1. CASE \E i \in Stores : StoreFails(i)
        BY <3>1, FaultsAssumption DEF StoreFails, StoresOK
      <3>2. CASE BrokerReplaced
        BY <3>2, FaultsAssumption DEF BrokerReplaced, StoresOK
      <3> QED
        BY <1>2, <3>1, <3>2
    <2>2. PodsOK'
      BY <1>2, StoreFailsIsOK, BrokerReplacedIsOK
    <2> QED
      BY <1>0, <2>1, <2>2
  <1>3. CASE \E i \in Stores : StoreStarts(i)
    <2>1. StoresOK'
      BY <1>3 DEF StoreStarts, StoresOK
    <2>2. PodsOK'
      BY <1>3, SameQueue, NoneChanges DEF StoreStarts
    <2> QED
      BY <1>0, <2>1, <2>2
  <1>4. CASE UNCHANGED vars
    <2>1. PodsOK'
      BY <1>4, SameQueue, NoneChanges DEF vars
    <2> QED
      BY <1>0, <1>4, <2>1 DEF vars, StoresOK
  <1> QED
    BY <1>0, <1>1, <1>2, <1>3, <1>4 DEF Next

LEMMA Invariant == Spec => []IInv
  BY InitOK, StepOK, PTL DEF Spec

\* The state is well typed, and a pod is only at steps of the main of its service.
THEOREM TypeCorrect == Spec => []TypeOK
  <1>1. IInv => TypeOK
    BY DEF IInv, StoresOK, PodsOK, Good, TypeOK, At, Pod
  <1> QED
    BY Invariant, <1>1, PTL

\* No server runs before the tables of its service exist: for any number of pods
\* that migrate at the same time, and whatever is started again in which order.
THEOREM ServersHaveTables == Spec => []ServesWithTables
  <1>1. IInv => ServesWithTables
    BY DEF IInv, PodsOK, Good, ServesWithTables
  <1> QED
    BY Invariant, <1>1, PTL

\* No event of a payment that came through the gateway is dropped for want of a
\* queue, whatever is started again in which order; only on a new node of RabbitMQ,
\* before notification-service has started again.
THEOREM NothingIsDropped == Spec => []NoEventIsDropped
  <1>1. IInv => NoEventIsDropped
    <2> SUFFICES ASSUME IInv, NEW p \in Pods, PublishPaymentSuccess(p)
                 PROVE  "queue" \in topology \/ lost
      BY DEF NoEventIsDropped
    <2>1. PICK g \in Pods : ServiceOf[g] = "gateway" /\ pod[g].pc = "serve"
      BY DEF PublishPaymentSuccess, At
    <2>2. Good("gateway", pod[g], schema, Queue)
      BY <2>1 DEF IInv, PodsOK
    <2> QED
      BY <2>1, <2>2 DEF Good, Queue
  <1> QED
    BY Invariant, <1>1, PTL
=============================================================================
