------------------------------ MODULE StartUp ------------------------------
(***************************************************************************)
(* How the five services come up, and come back.  The init container of a  *)
(* pod waits for what its service needs, runs the migrations and exits;    *)
(* then the kubelet starts the server.  What fails ends in log.Fatalf, and *)
(* the kubelet starts the same container again.  The gateway waits for the *)
(* other four.                                                             *)
(*                                                                         *)
(* Postgres and RabbitMQ keep their data on volumes.  But RabbitMQ names   *)
(* its data after its node, and the node after its pod: in a new pod it is *)
(* a new node that has declared nothing.  The failures of stores and pods  *)
(* are bounded in number by MaxFaults.                                     *)
(***************************************************************************)
EXTENDS Naturals

CONSTANTS
    Pods,        \* the pods; a service has one, or several
    ServiceOf,   \* the service that each pod runs
    MaxFaults    \* Bound: how often something fails

Backends == {"movie", "booking", "payment", "notification"}
Services == Backends \cup {"gateway"}

\* The Postgres of a service has the name of the service.
Stores == Backends \cup {"redis", "rabbitmq"}

ASSUME ServiceAssumption ==
    /\ ServiceOf \in [Pods -> Services]
    /\ \A s \in Services : \E p \in Pods : ServiceOf[p] = s
ASSUME FaultsAssumption == MaxFaults \in Nat

VARIABLES
    up,         \* the stores that answer
    schema,     \* the services whose tables exist
    topology,   \* what RabbitMQ has declared: the exchange, the queue bound to it
    pod,        \* what each pod is doing
    lost,       \* history: RabbitMQ is a new node, which notification-service has not met
    faults      \* how often something has failed

vars == <<up, schema, topology, pod, lost, faults>>

\* What main does after each of its steps.  Everything up to "migrate", or up to
\* "waitBackends", runs in the init container.
MovieMain   == [waitDB |-> "migrate", migrate |-> "serve"]
BookingMain == [waitDB |-> "waitRedis", waitRedis |-> "migrate", migrate |-> "serve"]
PaymentMain == [waitDB |-> "waitRabbitMQ", waitRabbitMQ |-> "migrate",
                migrate |-> "connect", connect |-> "serve"]
NotificationMain == [waitDB |-> "waitRabbitMQ", waitRabbitMQ |-> "migrate",
                     migrate |-> "connect", connect |-> "serve"]
GatewayMain == [waitBackends |-> "serve"]

Main == [movie |-> MovieMain, booking |-> BookingMain, payment |-> PaymentMain,
         notification |-> NotificationMain, gateway |-> GatewayMain]

FirstStep(s) == IF s = "gateway" THEN "waitBackends" ELSE "waitDB"

\* Mutant of ServerStep: every server begins with RabbitMQ.
ServerStepConnect(s) == "connect"

ServerStep(s) == IF s \in {"payment", "notification"} THEN "connect" ELSE "serve"

\* pc    the step of main that comes next     open  its channel to RabbitMQ is open
\* seen  the backends whose /healthz has answered 200
Fresh(s) == [pc |-> FirstStep(s), open |-> FALSE, seen |-> {}]

Init ==
    /\ up = {}
    /\ schema = {}
    /\ topology = {}
    /\ pod = [p \in Pods |-> Fresh(ServiceOf[p])]
    /\ lost = FALSE
    /\ faults = 0
-----------------------------------------------------------------------------
At(p, pc) == pod[p].pc = pc
Advance(p) == pod' = [pod EXCEPT ![p].pc = Main[ServiceOf[p]][@]]

\* The step ends in log.Fatalf: the init container starts from its first step.
InitAgain(p) == [pod EXCEPT ![p] = Fresh(ServiceOf[p])]

\* A pod is Ready.  Postgres and Redis connections are made when needed, the
\* channel to RabbitMQ only once.
MovieReady == "movie" \in up
BookingReady == {"booking", "redis"} \subseteq up
PaymentReady(p) == "payment" \in up /\ pod[p].open
NotificationReady == "notification" \in up

Ready(p) ==
    /\ At(p, "serve")
    /\ CASE ServiceOf[p] = "movie"        -> MovieReady
         [] ServiceOf[p] = "booking"      -> BookingReady
         [] ServiceOf[p] = "payment"      -> PaymentReady(p)
         [] ServiceOf[p] = "notification" -> NotificationReady
         [] OTHER                         -> TRUE

\* Mutant of Live: payment-service is asked for /healthz like the others.
LiveIfRunning(p) == TRUE

\* livenessProbe: /healthz always answers 200, so that only a process that is gone
\* is started again; payment-service is asked for /ready instead.
Live(p) == ServiceOf[p] = "payment" => Ready(p)
-----------------------------------------------------------------------------
WaitForDB(p) ==
    /\ At(p, "waitDB") /\ ServiceOf[p] \in up
    /\ Advance(p)
    /\ UNCHANGED <<up, schema, topology, lost, faults>>

WaitForRedis(p) ==
    /\ At(p, "waitRedis") /\ "redis" \in up
    /\ Advance(p)
    /\ UNCHANGED <<up, schema, topology, lost, faults>>

WaitForRabbitMQ(p) ==
    /\ At(p, "waitRabbitMQ") /\ "rabbitmq" \in up
    /\ Advance(p)
    /\ UNCHANGED <<up, schema, topology, lost, faults>>

\* What a waiting pod has not found yet.
Missing(p) ==
    \/ At(p, "waitDB") /\ ServiceOf[p] \notin up
    \/ At(p, "waitRedis") /\ "redis" \notin up
    \/ At(p, "waitRabbitMQ") /\ "rabbitmq" \notin up
    \/ /\ At(p, "waitBackends")
       /\ \E s \in Backends \ pod[p].seen : \A q \in Pods : ServiceOf[q] = s => ~Ready(q)

\* Sixty seconds are over.
WaitExpires(p) ==
    /\ Missing(p)
    /\ pod' = InitAgain(p)
    /\ UNCHANGED <<up, schema, topology, lost, faults>>

\* The pods of the same service that are running the same migration.
Rivals(p) == {q \in Pods \ {p} : ServiceOf[q] = ServiceOf[p] /\ At(q, "migrate")}

\* One file of CREATE ... IF NOT EXISTS, sent as one statement.  When the tables
\* are new, a rival that was creating them too may meet them at its commit and
\* fail.
RunMigrations(p) ==
    /\ At(p, "migrate") /\ ServiceOf[p] \in up
    /\ \E losers \in SUBSET Rivals(p) :
          /\ ServiceOf[p] \in schema => losers = {}
          /\ pod' = [q \in Pods |->
                       IF q = p THEN [pod[p] EXCEPT !.pc = Main[ServiceOf[p]][@]]
                       ELSE IF q \in losers THEN Fresh(ServiceOf[q]) ELSE pod[q]]
    /\ schema' = schema \cup {ServiceOf[p]}
    /\ UNCHANGED <<up, topology, lost, faults>>

\* Mutant of MigrationFails: the error is logged only.
MigrationFailsUnseen(p) ==
    /\ At(p, "migrate") /\ ServiceOf[p] \notin up
    /\ Advance(p)
    /\ UNCHANGED <<up, schema, topology, lost, faults>>

\* Postgres goes away, before or after it has committed.
MigrationFails(p) ==
    /\ At(p, "migrate") /\ ServiceOf[p] \notin up
    /\ schema' = schema \/ schema' = schema \cup {ServiceOf[p]}
    /\ pod' = InitAgain(p)
    /\ UNCHANGED <<up, topology, lost, faults>>

\* What the server declares in RabbitMQ before it listens.
Declared(s) == IF s = "notification" THEN {"exchange", "queue"} ELSE {"exchange"}

\* Connect, then DeclareExchange or SetupConsumerTopology, and runServer.
ConnectAndDeclare(p) ==
    /\ At(p, "connect") /\ "rabbitmq" \in up
    /\ topology' = topology \cup Declared(ServiceOf[p])
    /\ pod' = [pod EXCEPT ![p] = [pc |-> "serve", open |-> TRUE, seen |-> {}]]
    /\ lost' = (lost /\ ServiceOf[p] # "notification")
    /\ UNCHANGED <<up, schema, faults>>

\* RabbitMQ goes away in the middle; the kubelet starts the server again.
ConnectFails(p) ==
    /\ At(p, "connect") /\ "rabbitmq" \in up
    /\ topology' = topology \cup {"exchange"}
    /\ UNCHANGED <<up, schema, pod, lost, faults>>

\* Mutant of PollBackend: one backend that answers is enough.
PollAnyBackend(p, s) ==
    /\ At(p, "waitBackends") /\ s \in Backends
    /\ \E q \in Pods : ServiceOf[q] = s /\ At(q, "serve")
    /\ pod' = [pod EXCEPT ![p].pc = "serve"]
    /\ UNCHANGED <<up, schema, topology, lost, faults>>

\* waitForBackends comes to a backend that answers; it goes through them in the
\* random order of a map.  The Service may lead to a pod that was Ready lately.
PollBackend(p, s) ==
    /\ At(p, "waitBackends") /\ s \in Backends \ pod[p].seen
    /\ \E q \in Pods : ServiceOf[q] = s /\ At(q, "serve")
    /\ LET seen == pod[p].seen \cup {s}
       IN  pod' = [pod EXCEPT ![p] =
                     IF seen = Backends THEN [Fresh("gateway") EXCEPT !.pc = Main.gateway[@]]
                                        ELSE [pod[p] EXCEPT !.seen = seen]]
    /\ UNCHANGED <<up, schema, topology, lost, faults>>

\* The livenessProbe has failed: the server is started again.
LivenessFails(p) ==
    /\ At(p, "serve") /\ ~Live(p)
    /\ pod' = [pod EXCEPT ![p] = [Fresh(ServiceOf[p]) EXCEPT !.pc = ServerStep(ServiceOf[p])]]
    /\ UNCHANGED <<up, schema, topology, lost, faults>>
-----------------------------------------------------------------------------
Disconnected == [p \in Pods |-> [pod[p] EXCEPT !.open = FALSE]]

\* A store goes away.  The connections to RabbitMQ end, and nobody opens them again.
StoreFails(i) ==
    /\ i \in up /\ faults < MaxFaults
    /\ up' = up \ {i}
    /\ pod' = IF i = "rabbitmq" THEN Disconnected ELSE pod
    /\ faults' = faults + 1
    /\ UNCHANGED <<schema, topology, lost>>

\* The pod of RabbitMQ is replaced; the new node finds nothing under its own name.
BrokerReplaced ==
    /\ faults < MaxFaults
    /\ up' = up \ {"rabbitmq"}
    /\ topology' = {} /\ lost' = TRUE
    /\ pod' = Disconnected
    /\ faults' = faults + 1
    /\ UNCHANGED schema

StoreStarts(i) ==
    /\ i \in Stores \ up
    /\ up' = up \cup {i}
    /\ UNCHANGED <<schema, topology, pod, lost, faults>>

\* A container dies: the kubelet starts it again, an init container from its first
\* step, a server without the init container.
Crash(p) ==
    /\ faults < MaxFaults
    /\ pod' = IF pod[p].pc \in {"connect", "serve"}
              THEN [pod EXCEPT ![p] = [Fresh(ServiceOf[p]) EXCEPT !.pc = ServerStep(ServiceOf[p])]]
              ELSE InitAgain(p)
    /\ faults' = faults + 1
    /\ UNCHANGED <<up, schema, topology, lost>>

\* A pod is replaced by a new one: a rollout, an eviction, the autoscaler.
Replace(p) ==
    /\ faults < MaxFaults
    /\ pod' = InitAgain(p)
    /\ faults' = faults + 1
    /\ UNCHANGED <<up, schema, topology, lost>>

Step(p) ==
    \/ WaitForDB(p) \/ WaitForRedis(p) \/ WaitForRabbitMQ(p)
    \/ RunMigrations(p) \/ ConnectAndDeclare(p)
    \/ \E s \in Backends : PollBackend(p, s)

Next ==
    \/ \E p \in Pods : \/ Step(p) \/ WaitExpires(p) \/ MigrationFails(p) \/ ConnectFails(p)
                       \/ LivenessFails(p) \/ Crash(p) \/ Replace(p)
    \/ \E i \in Stores : StoreFails(i) \/ StoreStarts(i)
    \/ BrokerReplaced

Spec == Init /\ [][Next]_vars

\* The kubelet starts what has stopped, stores included, and a loop that polls
\* finds what has come up.
FairSpec ==
    /\ Spec
    /\ \A p \in Pods : WF_vars(Step(p)) /\ WF_vars(LivenessFails(p))
    /\ \A i \in Stores : WF_vars(StoreStarts(i))
-----------------------------------------------------------------------------
Steps == {"waitDB", "waitRedis", "waitRabbitMQ", "migrate", "waitBackends", "connect", "serve"}

\* The values every variable takes; a pod is only at steps of its own main.
TypeOK ==
    /\ up \subseteq Stores /\ schema \subseteq Backends
    /\ topology \subseteq {"exchange", "queue"}
    /\ pod \in [Pods -> [pc : Steps, open : BOOLEAN, seen : SUBSET Backends]]
    /\ lost \in BOOLEAN /\ faults \in 0 .. MaxFaults
    /\ \A p \in Pods : At(p, "serve") \/ pod[p].pc \in DOMAIN Main[ServiceOf[p]]

\* Whatever fails and whoever migrates at the same time, a server runs only over
\* tables that exist: neither a restart nor a lost race skips the migrations.
ServesWithTables ==
    \A p \in Pods : ServiceOf[p] \in Backends /\ pod[p].pc \in {"connect", "serve"}
                        => ServiceOf[p] \in schema

\* A payment that came through the gateway can publish its event: RabbitMQ takes it
\* on an open channel, and drops it when no queue is bound.
PublishPaymentSuccess(p) ==
    /\ ServiceOf[p] = "payment" /\ At(p, "serve") /\ pod[p].open
    /\ \E g \in Pods : ServiceOf[g] = "gateway" /\ At(g, "serve")

\* No event of a payment that came through the gateway is dropped for want of a
\* queue, in whatever order the services came up or came back: waiting for /healthz
\* of notification-service is waiting for its queue.  Only a new node of RabbitMQ
\* has none, and only until notification-service starts the next time.
NoEventIsDropped ==
    \A p \in Pods : PublishPaymentSuccess(p) => "queue" \in topology \/ lost

\* When the failures end, every pod becomes Ready and stays Ready.
EverythingIsReady == <>[](\A p \in Pods : Ready(p))
=============================================================================
