------------------------- MODULE NotificationService -------------------------
(***************************************************************************)
(* notification-service: consumers of the durable queue notification.email *)
(* turn every payment.success event into an e-mail with a ticket and one   *)
(* row of the Postgres table notifications.                                *)
(*                                                                         *)
(* Acks are manual with a prefetch of one.  RabbitMQ gives a message back  *)
(* to the queue when the connection of its consumer ends before the ack,   *)
(* also when the consumer is still working on it: handleMessage does not   *)
(* notice, goes on, and its ack then has no effect.                        *)
(***************************************************************************)
EXTENDS Naturals

CONSTANTS
    Messages,    \* the messages that reach the exchange booking.events
    Payments,    \* the payment ids
    PaymentOf,   \* the payment_id in the body of each message, or Unreadable
    Unreadable,  \* a body that is not the JSON of a PaymentSuccessEvent
    Consumers,   \* the pods of notification-service
    Env          \* what may go wrong, a subset of Conduct

\* crash      a pod dies or is replaced; the kubelet starts it again
\* connLost   a connection to RabbitMQ ends (its pod restarts, the network fails)
\* qrFault    GeneratePNG fails, smtpFault: SendMail fails, dbFault: the INSERT does
Conduct == {"crash", "connLost", "qrFault", "smtpFault", "dbFault"}

None == "none"

ASSUME UnreadableAssumption == Unreadable \notin Payments
ASSUME PaymentOfAssumption  == PaymentOf \in [Messages -> Payments \cup {Unreadable}]
ASSUME MessagesAssumption   == None \notin Messages
ASSUME EnvAssumption        == Env \subseteq Conduct

VARIABLES
    bound,      \* the queue exists and is bound to the exchange
    place,      \* where RabbitMQ has each message
    rows,       \* Postgres: the status of the notification of each payment
    mails,      \* the e-mails that the SMTP server has accepted for each payment
    cons        \* what each consumer is doing

vars == <<bound, place, rows, mails, cons>>

\* pc        the step that comes next     m       the message in hand
\* conn      its channel is open          failed  status = StatusFailed
Down == [pc |-> "down", m |-> None, conn |-> FALSE, failed |-> FALSE]
Listening == [pc |-> "listen", m |-> None, conn |-> TRUE, failed |-> FALSE]

Init ==
    /\ bound = FALSE
    /\ place = [m \in Messages |-> "unpublished"]
    /\ rows = [p \in Payments |-> None]
    /\ mails = [p \in Payments |-> 0]
    /\ cons = [c \in Consumers |-> Down]
-----------------------------------------------------------------------------
At(c, pc) == cons[c].pc = pc
Payment(c) == PaymentOf[cons[c].m]
Move(c, t) == cons' = [cons EXCEPT ![c] = t]
Goto(c, pc) == [cons[c] EXCEPT !.pc = pc]
Failed(c) == [Goto(c, "insert") EXCEPT !.failed = TRUE]

\* payment-service publishes; mandatory is false, so that a message for which
\* no queue is bound is dropped.
Publish(m) ==
    /\ place[m] = "unpublished"
    /\ place' = [place EXCEPT ![m] = IF bound THEN "ready" ELSE "lost"]
    /\ UNCHANGED <<bound, rows, mails, cons>>

\* main: Connect, SetupConsumerTopology, then go c.Run(ch).
Start(c) ==
    /\ At(c, "down")
    /\ bound' = TRUE
    /\ Move(c, Listening)
    /\ UNCHANGED <<place, rows, mails>>

\* The next message of the range over deliveries.
Deliver(c, m) ==
    /\ At(c, "listen") /\ place[m] = "ready"
    /\ place' = [place EXCEPT ![m] = "unacked"]
    /\ Move(c, [Listening EXCEPT !.pc = "prepare", !.m = m])
    /\ UNCHANGED <<bound, rows, mails>>

\* json.Unmarshal, then the QR code.  A body that cannot be read is acked at
\* once; without a QR code no e-mail is sent.
Prepare(c) ==
    /\ At(c, "prepare")
    /\ \/ Payment(c) = Unreadable /\ Move(c, Goto(c, "ack"))
       \/ Payment(c) # Unreadable /\ Move(c, Goto(c, "mail"))
       \/ /\ Payment(c) # Unreadable /\ "qrFault" \in Env
          /\ Move(c, Failed(c))
    /\ UNCHANGED <<bound, place, rows, mails>>

\* Bound: two e-mails stand for any number above one.
OneMore(n) == IF n = 2 THEN 2 ELSE n + 1

\* Mutant of SendMail: the error of SendMail is not looked at.
SendMailBlind(c) ==
    /\ At(c, "mail")
    /\ \/ mails' = [mails EXCEPT ![Payment(c)] = OneMore(@)]
       \/ "smtpFault" \in Env /\ UNCHANGED mails
    /\ Move(c, Goto(c, "insert"))
    /\ UNCHANGED <<bound, place, rows>>

\* SendTicketEmail.  An error may come after the server took the message.
SendMail(c) ==
    /\ At(c, "mail")
    /\ \/ /\ mails' = [mails EXCEPT ![Payment(c)] = OneMore(@)]
          /\ Move(c, Goto(c, "insert"))
       \/ /\ "smtpFault" \in Env
          /\ \/ mails' = [mails EXCEPT ![Payment(c)] = OneMore(@)]
             \/ UNCHANGED mails
          /\ Move(c, Failed(c))
    /\ UNCHANGED <<bound, place, rows>>

Outcome(c) == IF cons[c].failed THEN "FAILED" ELSE "SENT"

\* Mutant of Written: the status is left to the DEFAULT of its column.
WrittenByDefault(c) ==
    rows' = [rows EXCEPT ![Payment(c)] = IF @ = None THEN "PENDING" ELSE @]

\* INSERT ... ON CONFLICT (payment_id) DO NOTHING.
Written(c) ==
    rows' = [rows EXCEPT ![Payment(c)] = IF @ = None THEN Outcome(c) ELSE @]

\* Mutant of Insert: the message is acked whether or not the row was written.
InsertAckAnyway(c) ==
    /\ At(c, "insert")
    /\ \/ Written(c)
       \/ "dbFault" \in Env /\ UNCHANGED rows
    /\ Move(c, Goto(c, "ack"))
    /\ UNCHANGED <<bound, place, mails>>

Insert(c) ==
    /\ At(c, "insert")
    /\ \/ Written(c) /\ Move(c, Goto(c, "ack"))
       \/ /\ "dbFault" \in Env
          /\ Written(c) \/ UNCHANGED rows
          /\ Move(c, Goto(c, "nack"))
    /\ UNCHANGED <<bound, place, mails>>

\* The handler returns; the loop ends with its channel.
Returned(c) == IF cons[c].conn THEN Listening ELSE [Down EXCEPT !.pc = "stopped"]

\* msg.Ack(false): without a connection only an error that nobody looks at.
Ack(c) ==
    /\ At(c, "ack")
    /\ place' = IF cons[c].conn THEN [place EXCEPT ![cons[c].m] = "acked"] ELSE place
    /\ Move(c, Returned(c))
    /\ UNCHANGED <<bound, rows, mails>>

\* Mutant of Nack: requeue is false.
NackDiscards(c) ==
    /\ At(c, "nack")
    /\ place' = IF cons[c].conn THEN [place EXCEPT ![cons[c].m] = "lost"] ELSE place
    /\ Move(c, Returned(c))
    /\ UNCHANGED <<bound, rows, mails>>

\* msg.Nack(false, true): RabbitMQ puts the message back.
Nack(c) ==
    /\ At(c, "nack")
    /\ place' = IF cons[c].conn THEN [place EXCEPT ![cons[c].m] = "ready"] ELSE place
    /\ Move(c, Returned(c))
    /\ UNCHANGED <<bound, rows, mails>>

\* What RabbitMQ does with the unacked message of a consumer that is gone.
Requeued(c) ==
    place' = IF cons[c].conn /\ cons[c].m # None
             THEN [place EXCEPT ![cons[c].m] = "ready"] ELSE place

\* The connection ends.  A loop that waits for a message ends with it, and
\* nothing starts it again: /healthz and /ready look at Postgres only.
LoseConnection(c) ==
    /\ "connLost" \in Env /\ cons[c].conn
    /\ Requeued(c)
    /\ Move(c, IF At(c, "listen") THEN [Down EXCEPT !.pc = "stopped"]
               ELSE [cons[c] EXCEPT !.conn = FALSE])
    /\ UNCHANGED <<bound, rows, mails>>

\* The pod dies, or is replaced.
Crash(c) ==
    /\ "crash" \in Env /\ ~At(c, "down")
    /\ Requeued(c)
    /\ Move(c, Down)
    /\ UNCHANGED <<bound, rows, mails>>

Next ==
    \/ \E m \in Messages : Publish(m)
    \/ \E c \in Consumers, m \in Messages : Deliver(c, m)
    \/ \E c \in Consumers : \/ Start(c) \/ Prepare(c) \/ SendMail(c) \/ Insert(c)
                            \/ Ack(c) \/ Nack(c) \/ LoseConnection(c) \/ Crash(c)

Spec == Init /\ [][Next]_vars

HandleStep(c) == Prepare(c) \/ SendMail(c) \/ Insert(c) \/ Ack(c) \/ Nack(c)
Handling(m)  == {c \in Consumers : cons[c].m = m}
Records(c)   == Insert(c) /\ cons'[c].pc = "ack"

\* The kubelet starts pods again, handleMessage goes on, RabbitMQ comes to every
\* message of its queue, and it is not at the same step of the same message that
\* pods die, connections end or Postgres refuses the row, time after time.
FairSpec ==
    /\ Spec
    /\ \A c \in Consumers : WF_vars(Start(c)) /\ WF_vars(HandleStep(c))
    /\ \A m \in Messages :
          /\ SF_vars(\E c \in Consumers : Deliver(c, m))
          /\ SF_vars(\E c \in Handling(m) : Prepare(c))
          /\ SF_vars(\E c \in Handling(m) : SendMail(c))
          /\ SF_vars(\E c \in Handling(m) : Records(c))
-----------------------------------------------------------------------------
Events == {m \in Messages : PaymentOf[m] # Unreadable}

Task == [pc : {"down", "listen", "prepare", "mail", "insert", "ack", "nack", "stopped"},
         m : Messages \cup {None}, conn : BOOLEAN, failed : BOOLEAN]

\* The values every variable takes; a message in hand is unacked as long as the
\* connection lives.
TypeOK ==
    /\ bound \in BOOLEAN
    /\ place \in [Messages -> {"unpublished", "lost", "ready", "unacked", "acked"}]
    /\ rows \in [Payments -> {None, "SENT", "FAILED"}]
    /\ mails \in [Payments -> 0 .. 2]
    /\ cons \in [Consumers -> Task]
    /\ \A c \in Consumers : cons[c].conn /\ cons[c].m # None => place[cons[c].m] = "unacked"

\* A message leaves the queue only when its payment has a row, so that no event
\* is forgotten: not by a crash, a lost connection or a failed INSERT, nor by two
\* consumers that work on the same message.
AckedIsRecorded ==
    \A m \in Events : place[m] = "acked" => rows[PaymentOf[m]] # None

\* A row says SENT only when an e-mail has left, whoever sent it and whoever
\* wrote the row.
SentIsMailed == \A p \in Payments : rows[p] = "SENT" => mails[p] >= 1

\* A message that is in the queue is recorded in the end, or there is no
\* consumer left whose loop has not stopped.
EveryTicketIsRecorded ==
    \A m \in Events :
        place[m] = "ready" ~> rows[PaymentOf[m]] # None \/ \A c \in Consumers : At(c, "stopped")

\* consumer.go:37-39 says that a message which is delivered again because its
\* consumer crashed before the ack sends no second e-mail.
NoDuplicateEmail == \A p \in Payments : mails[p] <= 1
=============================================================================
