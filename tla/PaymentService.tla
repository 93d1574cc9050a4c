--------------------------- MODULE PaymentService ---------------------------
(***************************************************************************)
(* payment-service: POST /payments/process writes a row of the Postgres    *)
(* table payments, asks the payment gateway, has booking-service confirm   *)
(* the booking over HTTP, stores the outcome and publishes the event       *)
(* payment.success.                                                        *)
(*                                                                         *)
(* The call to Confirm has two ends.  The caller may give up (a timeout of *)
(* five seconds, a client that has left, a pod that dies) while the call   *)
(* is still running in booking-service.  There Confirm, Cancel and the     *)
(* CronJob have one form: read that the booking is HOLD, and store another *)
(* status later with no condition.  The module keeps these two steps of    *)
(* each, of the calls of payment-service and of everybody else's;          *)
(* BookingService has the rest, the seats.                                 *)
(***************************************************************************)
EXTENDS Naturals

CONSTANTS
    Bookings,    \* the bookings on hold
    Payments,    \* the ids of the payments rows; one for each request
    Others,      \* the handlers of booking-service that serve somebody else
    Env          \* what may happen, a subset of Conduct

\* crash       a pod dies, of payment-service or of booking-service
\* leave       a client disconnects and the context of its request ends
\* timeout     the answer to Confirm takes longer than the client waits
\* dbFault     a Postgres call fails, in either service
\* brokerFault the channel to RabbitMQ is closed
\* concurrent  a booking is paid again before the first request was answered
Conduct == {"crash", "leave", "timeout", "dbFault", "brokerFault", "concurrent"}

None == "none"

ASSUME NoneAssumption == None \notin Bookings
ASSUME EnvAssumption  == Env \subseteq Conduct

VARIABLES
    booking,    \* booking-service: the status of each booking
    late,       \* the bookings whose expires_at has passed
    rows,       \* Postgres: the status of each payment
    task,       \* what the handler of each request is doing
    call,       \* the request to Confirm that each handler has sent
    other,      \* the booking each of Others has read, and what it will store
    events      \* the payments whose event has reached RabbitMQ

vars == <<booking, late, rows, task, call, other, events>>

\* pc       the call that comes next        b     the booking that is paid
\* outcome  the status it will store        gone  the request's context has ended
Unborn == [pc |-> "new", b |-> None, outcome |-> None, gone |-> FALSE]
Idle == [b |-> None, to |-> None]

Init ==
    /\ booking = [b \in Bookings |-> "HOLD"]
    /\ late = {}
    /\ rows = [p \in Payments |-> None]
    /\ task = [p \in Payments |-> Unborn]
    /\ call = [p \in Payments |-> "none"]
    /\ other = [o \in Others |-> Idle]
    /\ events = {}
-----------------------------------------------------------------------------
At(p, pc) == task[p].pc = pc
Goto(p, pc) == task' = [task EXCEPT ![p].pc = pc]
Store(p, outcome) ==
    task' = [task EXCEPT ![p] = [[@ EXCEPT !.pc = "update"] EXCEPT !.outcome = outcome]]

\* Without "concurrent" a client pays for a booking one request at a time.
MayPay(b) ==
    "concurrent" \in Env \/ \A q \in Payments : task[q].b = b => At(q, "done")

\* 1. INSERT ... 'PENDING' RETURNING id; on an error, or when the
\* client has left already, the 500.
Begin(p, b) ==
    /\ At(p, "new") /\ MayPay(b)
    /\ \/ /\ rows' = [rows EXCEPT ![p] = "PENDING"]
          /\ task' = [task EXCEPT ![p] = [Unborn EXCEPT !.pc = "gateway", !.b = b]]
       \/ /\ {"dbFault", "leave"} \cap Env # {}
          /\ rows' = [rows EXCEPT ![p] = "PENDING"] \/ UNCHANGED rows
          /\ task' = [task EXCEPT ![p] = [Unborn EXCEPT !.pc = "done", !.b = b]]
    /\ UNCHANGED <<booking, late, call, other, events>>

\* 2. simulatePaymentGateway declines, or accepts and Confirm is called.  Under
\* a context that has ended the call is not sent.
Gateway(p) ==
    /\ At(p, "gateway")
    /\ \/ Store(p, "FAILED") /\ UNCHANGED call
       \/ /\ ~task[p].gone
          /\ Goto(p, "wait")
          /\ call' = [call EXCEPT ![p] = "sent"]
    /\ UNCHANGED <<booking, late, rows, other, events>>

\* Mutant of ConfirmLoad: a booking that is CONFIRMED is answered 200 again.
ConfirmLoadAgain(p) ==
    /\ call[p] = "sent"
    /\ call' = [call EXCEPT ![p] = IF booking[task[p].b] = "HOLD" THEN "loaded"
                                   ELSE IF booking[task[p].b] = "CONFIRMED" THEN "ok"
                                   ELSE "refused"]
    /\ UNCHANGED <<booking, late, rows, task, other, events>>

\* booking-service reads the booking: 409 unless it is HOLD, 500 on an error.  One
\* that is late it will make EXPIRED, and answer 409.
ConfirmLoad(p) ==
    /\ call[p] = "sent"
    /\ \/ call' = [call EXCEPT ![p] = IF booking[task[p].b] # "HOLD" THEN "refused"
                                      ELSE IF task[p].b \in late THEN "expired" ELSE "loaded"]
       \/ "dbFault" \in Env /\ call' = [call EXCEPT ![p] = "refused"]
    /\ UNCHANGED <<booking, late, rows, task, other, events>>

\* The UPDATE to CONFIRMED and the 200; on an error the 500.
ConfirmStore(p) ==
    /\ call[p] = "loaded"
    /\ \/ /\ booking' = [booking EXCEPT ![task[p].b] = "CONFIRMED"]
          /\ call' = [call EXCEPT ![p] = "ok"]
       \/ /\ "dbFault" \in Env
          /\ booking' = [booking EXCEPT ![task[p].b] = "CONFIRMED"] \/ UNCHANGED booking
          /\ call' = [call EXCEPT ![p] = "refused"]
    /\ UNCHANGED <<late, rows, task, other, events>>

\* The UPDATE to EXPIRED, whose error is ignored, and the 409.
ConfirmExpires(p) ==
    /\ call[p] = "expired"
    /\ \/ booking' = [booking EXCEPT ![task[p].b] = "EXPIRED"]
       \/ "dbFault" \in Env /\ UNCHANGED booking
    /\ call' = [call EXCEPT ![p] = "refused"]
    /\ UNCHANGED <<late, rows, task, other, events>>

\* The call dies in booking-service: its pod does, perhaps when all that is missing
\* is the answer, or its caller gave up and the context of the call has ended.
ConfirmDies(p) ==
    /\ \/ call[p] \in {"sent", "loaded", "expired"} /\ ("crash" \in Env \/ ~At(p, "wait"))
       \/ call[p] = "ok" /\ "crash" \in Env /\ At(p, "wait")
    /\ call' = [call EXCEPT ![p] = "refused"]
    /\ UNCHANGED <<booking, late, rows, task, other, events>>

\* The answer of Confirm.
Answer(p) ==
    /\ At(p, "wait") /\ call[p] \in {"ok", "refused"}
    /\ Store(p, IF call[p] = "ok" THEN "SUCCESS" ELSE "FAILED")
    /\ UNCHANGED <<booking, late, rows, call, other, events>>

\* Mutant of GiveUp: the reason is noted, the status is not set.
GiveUpUndecided(p) ==
    /\ At(p, "wait") /\ ("timeout" \in Env \/ task[p].gone)
    /\ Goto(p, "update")
    /\ UNCHANGED <<booking, late, rows, call, other, events>>

\* httpClient.Do fails: the timeout, or the end of the request's context.
GiveUp(p) ==
    /\ At(p, "wait") /\ ("timeout" \in Env \/ task[p].gone)
    /\ Store(p, "FAILED")
    /\ UNCHANGED <<booking, late, rows, call, other, events>>

\* Mutant of UpdateStatus: the event is published whatever the outcome.
UpdateStatusThenPublish(p) ==
    /\ At(p, "update")
    /\ \/ ~task[p].gone /\ rows' = [rows EXCEPT ![p] = task[p].outcome]
       \/ (task[p].gone \/ "dbFault" \in Env) /\ UNCHANGED rows
    /\ Goto(p, "publish")
    /\ UNCHANGED <<booking, late, call, other, events>>

\* updatePaymentStatus; its error is ignored.
UpdateStatus(p) ==
    /\ At(p, "update")
    /\ \/ ~task[p].gone /\ rows' = [rows EXCEPT ![p] = task[p].outcome]
       \/ (task[p].gone \/ "dbFault" \in Env) /\ UNCHANGED rows
    /\ Goto(p, IF task[p].outcome = "SUCCESS" THEN "publish" ELSE "done")
    /\ UNCHANGED <<booking, late, call, other, events>>

\* PublishPaymentSuccess; its error is ignored too.
Publish(p) ==
    /\ At(p, "publish")
    /\ \/ events' = events \cup {p}
       \/ (task[p].gone \/ "brokerFault" \in Env) /\ UNCHANGED events
    /\ Goto(p, "done")
    /\ UNCHANGED <<booking, late, rows, call, other>>
-----------------------------------------------------------------------------
Running(p) == ~At(p, "new") /\ ~At(p, "done")

\* The client disconnects.
ClientLeaves(p) ==
    /\ "leave" \in Env /\ Running(p) /\ ~task[p].gone
    /\ task' = [task EXCEPT ![p].gone = TRUE]
    /\ UNCHANGED <<booking, late, rows, call, other, events>>

\* The pod dies, and with it the handler.
Crash(p) ==
    /\ "crash" \in Env /\ Running(p)
    /\ Goto(p, "done")
    /\ UNCHANGED <<booking, late, rows, call, other, events>>

\* expires_at of the booking passes.
Expire(b) ==
    /\ b \notin late
    /\ late' = late \cup {b}
    /\ UNCHANGED <<booking, rows, task, call, other, events>>

\* One of Others reads that the booking is HOLD, and will store status.
Reads(o, b, status) ==
    /\ other[o] = Idle /\ booking[b] = "HOLD"
    /\ other' = [other EXCEPT ![o] = [b |-> b, to |-> status]]
    /\ UNCHANGED <<booking, late, rows, task, call, events>>

\* A client sends Confirm itself, through the API gateway, and has not paid.
ClientConfirm(o, b) == Reads(o, b, IF b \in late THEN "EXPIRED" ELSE "CONFIRMED")

\* Mutant of Cancel: a booking that is already CONFIRMED is cancelled too.
CancelSold(o, b) ==
    /\ other[o] = Idle /\ booking[b] \in {"HOLD", "CONFIRMED"}
    /\ other' = [other EXCEPT ![o] = [b |-> b, to |-> "CANCELLED"]]
    /\ UNCHANGED <<booking, late, rows, task, call, events>>

\* A client cancels; Cancel does not look at expires_at.
Cancel(o, b) == Reads(o, b, "CANCELLED")

\* The CronJob finds the booking among those that are HOLD and late.
CleanUp(o, b) == b \in late /\ Reads(o, b, "EXPIRED")

\* The UPDATE, which has no condition; or it fails, or the handler or the
\* context of its request ends before it.
OtherStore(o) ==
    /\ other[o] # Idle
    /\ \/ booking' = [booking EXCEPT ![other[o].b] = other[o].to]
       \/ {"crash", "leave", "dbFault"} \cap Env # {} /\ UNCHANGED booking
    /\ other' = [other EXCEPT ![o] = Idle]
    /\ UNCHANGED <<late, rows, task, call, events>>

Process(p) == Gateway(p) \/ Answer(p) \/ UpdateStatus(p) \/ Publish(p)
Confirm(p) == ConfirmLoad(p) \/ ConfirmStore(p) \/ ConfirmExpires(p)
Elsewhere(o) ==
    \/ \E b \in Bookings : ClientConfirm(o, b) \/ Cancel(o, b) \/ CleanUp(o, b)
    \/ OtherStore(o)

Next ==
    \/ \E p \in Payments, b \in Bookings : Begin(p, b)
    \/ \E p \in Payments : \/ Process(p) \/ Confirm(p) \/ GiveUp(p)
                           \/ ConfirmDies(p) \/ ClientLeaves(p) \/ Crash(p)
    \/ \E b \in Bookings : Expire(b)
    \/ \E o \in Others : Elsewhere(o)

Spec == Init /\ [][Next]_vars
-----------------------------------------------------------------------------
Task == [pc : {"new", "gateway", "wait", "update", "publish", "done"},
         b : Bookings \cup {None}, outcome : {None, "SUCCESS", "FAILED"}, gone : BOOLEAN]
Status == {"HOLD", "CONFIRMED", "CANCELLED", "EXPIRED"}

\* The values every variable takes; a handler that will store a status has one.
TypeOK ==
    /\ booking \in [Bookings -> Status]
    /\ late \subseteq Bookings
    /\ rows \in [Payments -> {None, "PENDING", "SUCCESS", "FAILED"}]
    /\ task \in [Payments -> Task]
    /\ call \in [Payments -> {"none", "sent", "loaded", "expired", "ok", "refused"}]
    /\ other \in [Others -> {Idle} \cup [b : Bookings, to : Status \ {"HOLD"}]]
    /\ events \subseteq Payments
    /\ \A p \in Payments : At(p, "update") => task[p].outcome # None

\* A booking has at most one successful payment (migrations/001_init.sql:26),
\* though a call to Confirm that was given up may still take effect.
OneSuccessPerBooking ==
    \A p, q \in Payments :
        p # q /\ rows[p] = "SUCCESS" /\ rows[q] = "SUCCESS" => task[p].b # task[q].b
=============================================================================
