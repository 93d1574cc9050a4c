---------------------- MODULE NotificationServiceProofs ----------------------
(***************************************************************************)
(* Proofs about NotificationService, for any messages, payments and pods,  *)
(* in any environment: the state is well typed (TypeCorrect), no event     *)
(* leaves the queue without a row (AckedMeansRecorded), and no row says    *)
(* SENT without an e-mail (SentMeansMailed).                               *)
(*                                                                         *)
(* The argument: a message in hand is unacked as long as its connection    *)
(* lives, so that no two live connections share one (Exclusive); rows are  *)
(* never removed and e-mails never taken back, so that what a consumer has *)
(* done for its message (InHand) stays done whatever the others do.        *)
(***************************************************************************)
EXTENDS NotificationService, TLAPS

\* What a consumer with the task t has done for its message, when r are the rows
\* of the table and q the e-mails that have left.
InHand(t, r, q) ==
    /\ t.pc \in {"prepare", "mail", "insert", "ack", "nack"} => t.m # None
    /\ t.pc \in {"mail", "insert"} => PaymentOf[t.m] # Unreadable
    /\ t.pc = "ack" /\ t.m \in Events => r[PaymentOf[t.m]] # None
    /\ t.pc = "insert" /\ ~t.failed => q[PaymentOf[t.m]] >= 1

\* A message is in hand on one live connection.
Exclusive ==
    \A c, d \in Consumers :
        cons[c].conn /\ cons[d].conn /\ cons[c].m = cons[d].m /\ cons[c].m # None => c = d

IInv ==
    /\ TypeOK /\ AckedIsRecorded /\ SentIsMailed /\ Exclusive
    /\ \A c \in Consumers : InHand(cons[c], rows, mails)
-----------------------------------------------------------------------------
(* What a task is after a step. *)

LEMMA EventHasPayment ==
    ASSUME NEW m \in Messages, PaymentOf[m] # Unreadable
    PROVE  PaymentOf[m] \in Payments
  BY PaymentOfAssumption

\* Goto changes the place in the handler only.
LEMMA GotoKeeps ==
    ASSUME NEW c \in Consumers, cons[c] \in Task,
           NEW pc \in {"prepare", "mail", "insert", "ack", "nack"}
    PROVE  /\ Goto(c, pc) \in Task /\ Goto(c, pc).pc = pc
           /\ Goto(c, pc).m = cons[c].m /\ Goto(c, pc).conn = cons[c].conn
           /\ Goto(c, pc).failed = cons[c].failed
  BY DEF Goto, Task

\* Failed also notes that the row will say FAILED.
LEMMA FailedKeeps ==
    ASSUME NEW c \in Consumers, cons[c] \in Task
    PROVE  /\ Failed(c) \in Task /\ Failed(c).pc = "insert" /\ Failed(c).failed
           /\ Failed(c).m = cons[c].m /\ Failed(c).conn = cons[c].conn
  <1> DEFINE g == Goto(c, "insert")
  <1>1. g \in Task /\ g.pc = "insert" /\ g.m = cons[c].m /\ g.conn = cons[c].conn
    BY GotoKeeps
  <1>2. Failed(c) = [g EXCEPT !.failed = TRUE]
    BY DEF Failed
  <1> HIDE DEF g
  <1> QED
    BY <1>1, <1>2 DEF Task

\* A task without a message in hand keeps every promise.
LEMMA FreeHands ==
    ASSUME NEW t \in {Down, Listening, [Down EXCEPT !.pc = "stopped"]}, NEW r, NEW q
    PROVE  t \in Task /\ t.m = None /\ InHand(t, r, q)
  <1>1. Down \in Task /\ Down.m = None /\ Down.pc = "down"
    BY DEF Down, Task
  <1>2. Listening \in Task /\ Listening.m = None /\ Listening.pc = "listen"
    BY DEF Listening, Task
  <1>3. LET s == [Down EXCEPT !.pc = "stopped"] IN s \in Task /\ s.m = None /\ s.pc = "stopped"
    BY DEF Down, Task
  <1>4. t \in Task /\ t.m = None /\ t.pc \in {"down", "listen", "stopped"}
    BY <1>1, <1>2, <1>3
  <1> QED
    BY <1>4 DEF InHand

\* As long as no row and no e-mail is taken away a promise is kept.
LEMMA InHandStays ==
    ASSUME NEW t \in Task, NEW r, NEW q, NEW rr, NEW qq, InHand(t, r, q),
           \A p \in Payments :
              /\ r[p] # None => rr[p] # None
              /\ q[p] >= 1 => qq[p] >= 1
    PROVE  InHand(t, rr, qq)
  <1>1. t.m \in Messages \/ t.m = None
    BY DEF Task
  <1>2. t.m \in Messages /\ PaymentOf[t.m] # Unreadable => PaymentOf[t.m] \in Payments
    BY EventHasPayment
  <1> QED
    BY <1>1, <1>2 DEF InHand, Events
-----------------------------------------------------------------------------
(* A step of one consumer, to the task t, that moves no message on a live *)
(* connection and forgets nothing, keeps the invariant.                   *)

LEMMA InitCorrect == Init => IInv
  <1> SUFFICES ASSUME Init PROVE IInv
    OBVIOUS
  <1>1. \A c \in Consumers : cons[c] = Down /\ Down \in Task /\ Down.m = None
                                   /\ InHand(Down, rows, mails)
    BY FreeHands DEF Init
  <1>2. TypeOK
    <2>1. cons \in [Consumers -> Task]
      BY <1>1 DEF Init
    <2>2. rows \in [Payments -> {None, "SENT", "FAILED"}] /\ mails \in [Payments -> 0 .. 2]
      BY DEF Init
    <2> QED
      BY <1>1, <2>1, <2>2 DEF Init, TypeOK
  <1>3. AckedIsRecorded /\ SentIsMailed /\ Exclusive
    BY DEF Init, AckedIsRecorded, SentIsMailed, Exclusive, Events, Down, None
  <1> QED
    BY <1>1, <1>2, <1>3 DEF IInv

\* What consumer c changes when it goes to t without a new message in hand.
LEMMA OneMoves ==
    ASSUME IInv, NEW c \in Consumers, NEW t \in Task, Move(c, t),
           InHand(t, rows', mails'), bound' \in BOOLEAN,
           t.m # None => t.m = cons[c].m /\ (t.conn => cons[c].conn),
           place' \in [Messages -> {"unpublished", "lost", "ready", "unacked", "acked"}],
           \A m \in Messages : place'[m] # place[m] => cons[c].m = m /\ cons[c].conn,
           t.conn /\ t.m # None => place'[t.m] = place[t.m],
           rows' \in [Payments -> {None, "SENT", "FAILED"}],
           mails' \in [Payments -> 0 .. 2],
           \A p \in Payments :
              /\ rows[p] # None => rows'[p] = rows[p]
              /\ mails[p] >= 1 => mails'[p] >= 1,
           AckedIsRecorded', SentIsMailed'
    PROVE  IInv'
  <1>1. /\ \A d \in Consumers : cons[d] \in Task /\ cons'[d] = (IF d = c THEN t ELSE cons[d])
        /\ cons' \in [Consumers -> Task]
    BY DEF IInv, TypeOK, Move
  <1>2. Exclusive'
    BY <1>1 DEF IInv, Exclusive
  <1>3. ASSUME NEW d \in Consumers, cons'[d].conn, cons'[d].m # None
        PROVE  place'[cons'[d].m] = "unacked"
    <2>1. CASE d = c
      BY <1>1, <1>3, <2>1 DEF IInv, TypeOK
    <2>2. CASE d # c
      <3>1. cons[d].conn /\ cons[d].m # None /\ cons[d].m \in Messages
        BY <1>1, <1>3, <2>2 DEF Task
      <3>2. ~(cons[c].m = cons[d].m /\ cons[c].conn)
        BY <2>2, <3>1 DEF IInv, Exclusive
      <3> QED
        BY <1>1, <2>2, <3>1, <3>2 DEF IInv, TypeOK
    <2> QED
      BY <2>1, <2>2
  <1>4. TypeOK'
    BY <1>1, <1>3 DEF TypeOK
  <1>5. \A d \in Consumers : InHand(cons'[d], rows', mails')
    <2> SUFFICES ASSUME NEW d \in Consumers, d # c
                 PROVE  InHand(cons[d], rows', mails')
      BY <1>1
    <2>1. InHand(cons[d], rows, mails) /\ cons[d] \in Task
      BY <1>1 DEF IInv
    <2> QED
      BY <2>1, InHandStays
  <1> QED
    BY <1>2, <1>4, <1>5 DEF IInv
-----------------------------------------------------------------------------
(* Every action keeps the invariant. *)

\* What the invariant says of a consumer, and of the message it has in hand.
LEMMA Facts ==
    ASSUME IInv, NEW c \in Consumers
    PROVE  /\ cons[c] \in Task /\ InHand(cons[c], rows, mails)
           /\ cons[c].m # None => cons[c].m \in Messages
           /\ cons[c].pc \in {"mail", "insert"} => Payment(c) \in Payments
  <1>1. cons[c] \in Task /\ InHand(cons[c], rows, mails)
    BY DEF IInv, TypeOK
  <1>2. cons[c].m # None => cons[c].m \in Messages
    BY <1>1 DEF Task
  <1> QED
    BY <1>1, <1>2, EventHasPayment DEF InHand, Payment

LEMMA PublishKeeps ==
    ASSUME IInv, NEW m \in Messages, Publish(m)
    PROVE  IInv'
  <1>1. \A c \in Consumers : cons'[c] = cons[c] /\ (cons[c].conn => cons[c].m # m)
    BY MessagesAssumption DEF Publish, IInv, TypeOK
  <1>2. TypeOK'
    BY <1>1 DEF Publish, IInv, TypeOK
  <1>3. AckedIsRecorded' /\ SentIsMailed' /\ Exclusive'
    BY <1>1 DEF Publish, IInv, TypeOK, AckedIsRecorded, SentIsMailed, Exclusive, Events
  <1>4. \A c \in Consumers : InHand(cons'[c], rows', mails')
    BY <1>1 DEF Publish, IInv
  <1> QED
    BY <1>2, <1>3, <1>4 DEF IInv

LEMMA DeliverKeeps ==
    ASSUME IInv, NEW c \in Consumers, NEW m \in Messages, Deliver(c, m)
    PROVE  IInv'
  <1> DEFINE t == [Listening EXCEPT !.pc = "prepare", !.m = m]
  <1>1. t \in Task /\ t.pc = "prepare" /\ t.m = m
    BY DEF Listening, Task
  <1>2. InHand(t, rows, mails)
    BY <1>1, MessagesAssumption DEF InHand
  <1> HIDE DEF t
  <1>3. /\ \A d \in Consumers : cons[d] \in Task /\ cons'[d] = (IF d = c THEN t ELSE cons[d])
        /\ cons' \in [Consumers -> Task]
    BY <1>1 DEF Deliver, Move, IInv, TypeOK, t
  <1>4. \A d \in Consumers : d # c /\ cons[d].conn => cons[d].m # m
    BY MessagesAssumption DEF Deliver, IInv, TypeOK
  <1>5. /\ place \in [Messages -> {"unpublished", "lost", "ready", "unacked", "acked"}]
        /\ place' = [place EXCEPT ![m] = "unacked"]
    BY DEF Deliver, IInv, TypeOK
  <1>6. ASSUME NEW d \in Consumers, cons'[d].conn, cons'[d].m # None
        PROVE  place'[cons'[d].m] = "unacked"
    <2>1. CASE d = c
      BY <1>1, <1>3, <1>5, <2>1
    <2>2. CASE d # c
      <3>1. cons[d].m \in Messages /\ place[cons[d].m] = "unacked"
        BY <1>3, <1>6, <2>2 DEF IInv, TypeOK, Task
      <3> QED
        BY <1>3, <1>5, <2>2, <3>1
    <2> QED
      BY <2>1, <2>2
  <1>7. TypeOK'
    BY <1>3, <1>5, <1>6 DEF Deliver, IInv, TypeOK
  <1>8. Exclusive'
    BY <1>1, <1>3, <1>4 DEF IInv, Exclusive
  <1>9. AckedIsRecorded' /\ SentIsMailed'
    BY <1>5 DEF Deliver, IInv, AckedIsRecorded, SentIsMailed, Events
  <1>10. \A d \in Consumers : InHand(cons'[d], rows', mails')
    BY <1>2, <1>3 DEF Deliver, IInv
  <1> QED
    BY <1>7, <1>8, <1>9, <1>10 DEF IInv

\* A step that only moves one consumer on with the message it has.
LEMMA OnlyMoves ==
    ASSUME IInv, NEW c \in Consumers, NEW t \in Task, Move(c, t),
           InHand(t, rows, mails), t.m = cons[c].m, t.conn = cons[c].conn,
           UNCHANGED <<bound, place, rows, mails>>
    PROVE  IInv'
  BY OneMoves DEF IInv, TypeOK, AckedIsRecorded, SentIsMailed, Events

LEMMA PrepareKeeps ==
    ASSUME IInv, NEW c \in Consumers, Prepare(c)
    PROVE  IInv'
  <1> USE Facts, GotoKeeps, FailedKeeps
  <1>1. cons[c].m # None /\ UNCHANGED <<bound, place, rows, mails>>
    BY DEF Prepare, At, InHand
  <1>2. CASE Payment(c) = Unreadable /\ Move(c, Goto(c, "ack"))
    <2>1. InHand(Goto(c, "ack"), rows, mails)
      BY <1>1, <1>2 DEF InHand, Payment, Events
    <2> QED
      BY <1>1, <1>2, <2>1, OnlyMoves
  <1>3. CASE Payment(c) # Unreadable /\ Move(c, Goto(c, "mail"))
    <2>1. InHand(Goto(c, "mail"), rows, mails)
      BY <1>1, <1>3 DEF InHand, Payment
    <2> QED
      BY <1>1, <1>3, <2>1, OnlyMoves
  <1>4. CASE Payment(c) # Unreadable /\ Move(c, Failed(c))
    <2>1. InHand(Failed(c), rows, mails)
      BY <1>1, <1>4 DEF InHand, Payment
    <2> QED
      BY <1>1, <1>4, <2>1, OnlyMoves
  <1> QED
    BY <1>2, <1>3, <1>4 DEF Prepare

\* Another e-mail is counted.
LEMMA MailCounts ==
    ASSUME IInv, NEW c \in Consumers, Payment(c) \in Payments,
           mails' = [mails EXCEPT ![Payment(c)] = OneMore(@)]
    PROVE  /\ mails' \in [Payments -> 0 .. 2] /\ mails'[Payment(c)] >= 1
           /\ \A p \in Payments : mails[p] >= 1 => mails'[p] >= 1
  <1>1. \A n \in 0 .. 2 : OneMore(n) \in 1 .. 2
    BY DEF OneMore
  <1> QED
    BY <1>1 DEF IInv, TypeOK

LEMMA SendMailKeeps ==
    ASSUME IInv, NEW c \in Consumers, SendMail(c)
    PROVE  IInv'
  <1> USE Facts, GotoKeeps, FailedKeeps
  <1>1. /\ cons[c].m # None /\ Payment(c) # Unreadable /\ Payment(c) \in Payments
        /\ UNCHANGED <<bound, place, rows>>
    BY DEF SendMail, At, InHand, Payment
  <1>2. ASSUME NEW t \in {Goto(c, "insert"), Failed(c)}, Move(c, t),
               mails' \in [Payments -> 0 .. 2],
               \A p \in Payments : mails[p] >= 1 => mails'[p] >= 1,
               t.failed \/ mails'[Payment(c)] >= 1
        PROVE  IInv'
    <2>1. t \in Task /\ t.pc = "insert" /\ t.m = cons[c].m /\ t.conn = cons[c].conn
      BY <1>2
    <2>2. InHand(t, rows', mails')
      BY <1>1, <1>2, <2>1 DEF InHand, Payment
    <2>3. AckedIsRecorded' /\ SentIsMailed'
      BY <1>1, <1>2 DEF IInv, AckedIsRecorded, SentIsMailed, Events
    <2> QED
      BY <1>1, <1>2, <2>1, <2>2, <2>3, OneMoves DEF IInv, TypeOK
  <1>3. CASE mails' = [mails EXCEPT ![Payment(c)] = OneMore(@)] /\ Move(c, Goto(c, "insert"))
    BY <1>1, <1>2, <1>3, MailCounts
  <1>4. CASE mails' = [mails EXCEPT ![Payment(c)] = OneMore(@)] /\ Move(c, Failed(c))
    BY <1>1, <1>2, <1>4, MailCounts
  <1>5. CASE UNCHANGED mails /\ Move(c, Failed(c))
    BY <1>2, <1>5 DEF IInv, TypeOK
  <1> QED
    BY <1>3, <1>4, <1>5 DEF SendMail

\* The INSERT leaves a row, which says SENT only after an e-mail, and no other
\* row is changed.
LEMMA WrittenRecords ==
    ASSUME IInv, NEW c \in Consumers, cons[c].pc = "insert", Written(c)
    PROVE  /\ rows' \in [Payments -> {None, "SENT", "FAILED"}]
           /\ rows'[Payment(c)] # None
           /\ \A p \in Payments : rows[p] # None => rows'[p] = rows[p]
           /\ \A p \in Payments : rows'[p] = "SENT" => mails[p] >= 1
  <1>1. Payment(c) \in Payments /\ rows \in [Payments -> {None, "SENT", "FAILED"}]
    BY Facts DEF IInv, TypeOK
  <1>2. Outcome(c) \in {"SENT", "FAILED"} /\ (Outcome(c) = "SENT" => mails[Payment(c)] >= 1)
    BY Facts DEF Outcome, InHand, Payment
  <1>3. \A p \in Payments : rows[p] = "SENT" => mails[p] >= 1
    BY DEF IInv, SentIsMailed
  <1>4. rows' = [rows EXCEPT ![Payment(c)] = IF rows[Payment(c)] = None THEN Outcome(c)
                                             ELSE rows[Payment(c)]]
    BY DEF Written
  <1> HIDE DEF Outcome
  <1> QED
    BY <1>1, <1>2, <1>3, <1>4 DEF None

LEMMA InsertKeeps ==
    ASSUME IInv, NEW c \in Consumers, Insert(c)
    PROVE  IInv'
  <1> USE Facts, GotoKeeps
  <1>1. /\ cons[c].pc = "insert" /\ cons[c].m # None /\ Payment(c) \in Payments
        /\ UNCHANGED <<bound, place, mails>>
    BY DEF Insert, At, InHand
  <1>2. CASE Written(c)
    <2>1. PICK t \in {Goto(c, "ack"), Goto(c, "nack")} : Move(c, t)
      BY <1>2 DEF Insert
    <2>2. t \in Task /\ t.pc \in {"ack", "nack"} /\ t.m = cons[c].m /\ t.conn = cons[c].conn
      BY <2>1
    <2>3. InHand(t, rows', mails')
      BY <1>1, <1>2, <2>2, WrittenRecords DEF InHand, Payment
    <2>4. AckedIsRecorded' /\ SentIsMailed'
      <3>1. \A m \in Events : PaymentOf[m] \in Payments
        BY EventHasPayment DEF Events
      <3>2. AckedIsRecorded'
        BY <1>1, <1>2, <3>1, WrittenRecords DEF IInv, AckedIsRecorded, Events
      <3>3. SentIsMailed'
        BY <1>1, <1>2, WrittenRecords DEF SentIsMailed
      <3> QED
        BY <3>2, <3>3
    <2> QED
      BY <1>1, <1>2, <2>1, <2>2, <2>3, <2>4, WrittenRecords, OneMoves DEF IInv, TypeOK
  <1>3. CASE UNCHANGED rows /\ Move(c, Goto(c, "nack"))
    <2>1. InHand(Goto(c, "nack"), rows, mails)
      BY <1>1 DEF InHand
    <2> QED
      BY <1>1, <1>3, <2>1, OnlyMoves
  <1> QED
    BY <1>2, <1>3 DEF Insert

\* A consumer that lets go of its message: only the place of that message
\* changes, and not to "acked" before its row is written.
LEMMA LettingGo ==
    ASSUME IInv, NEW c \in Consumers,
           NEW t \in {Down, Listening, [Down EXCEPT !.pc = "stopped"]}, Move(c, t),
           NEW to \in {"ready", "acked"}, bound' \in BOOLEAN, UNCHANGED <<rows, mails>>,
           \/ place' = place
           \/ cons[c].conn /\ cons[c].m # None /\ place' = [place EXCEPT ![cons[c].m] = to],
           to = "acked" => cons[c].pc = "ack"
    PROVE  IInv'
  <1>1. t \in Task /\ t.m = None /\ InHand(t, rows', mails')
    BY FreeHands
  <1>2. /\ place' \in [Messages -> {"unpublished", "lost", "ready", "unacked", "acked"}]
        /\ \A m \in Messages : place'[m] # place[m] =>
              cons[c].m = m /\ cons[c].conn /\ (place'[m] = "acked" => cons[c].pc = "ack")
    BY Facts DEF IInv, TypeOK
  <1>3. AckedIsRecorded'
    <2> SUFFICES ASSUME NEW m \in Events, place'[m] = "acked"
                 PROVE  rows[PaymentOf[m]] # None
      BY DEF AckedIsRecorded, Events
    <2>1. CASE place[m] = "acked"
      BY <2>1 DEF IInv, AckedIsRecorded
    <2>2. CASE place[m] # "acked"
      BY <1>2, <2>2, Facts DEF InHand, Events
    <2> QED
      BY <2>1, <2>2
  <1>4. SentIsMailed'
    BY DEF IInv, SentIsMailed
  <1> QED
    BY <1>1, <1>2, <1>3, <1>4, OneMoves DEF IInv, TypeOK

LEMMA ReturnedIsFree ==
    ASSUME NEW c \in Consumers
    PROVE  Returned(c) \in {Down, Listening, [Down EXCEPT !.pc = "stopped"]}
  BY DEF Returned

LEMMA AckKeeps ==
    ASSUME IInv, NEW c \in Consumers, Ack(c)
    PROVE  IInv'
  <1>1. cons[c].pc = "ack" /\ cons[c].m # None /\ Move(c, Returned(c))
    BY Facts DEF Ack, At, InHand
  <1> QED
    BY <1>1, ReturnedIsFree, LettingGo DEF Ack, IInv, TypeOK

LEMMA NackKeeps ==
    ASSUME IInv, NEW c \in Consumers, Nack(c)
    PROVE  IInv'
  <1>1. cons[c].m # None /\ Move(c, Returned(c))
    BY Facts DEF Nack, At, InHand
  <1> QED
    BY <1>1, ReturnedIsFree, LettingGo DEF Nack, IInv, TypeOK

LEMMA StartKeeps ==
    ASSUME IInv, NEW c \in Consumers, Start(c)
    PROVE  IInv'
  BY LettingGo DEF Start

LEMMA CrashKeeps ==
    ASSUME IInv, NEW c \in Consumers, Crash(c)
    PROVE  IInv'
  BY LettingGo DEF Crash, Requeued, IInv, TypeOK

LEMMA LoseConnectionKeeps ==
    ASSUME IInv, NEW c \in Consumers, LoseConnection(c)
    PROVE  IInv'
  <1>1. CASE At(c, "listen")
    BY <1>1, LettingGo DEF LoseConnection, Requeued, IInv, TypeOK
  <1>2. CASE ~At(c, "listen")
    <2> DEFINE t == [cons[c] EXCEPT !.conn = FALSE]
    <2>1. t \in Task /\ t.pc = cons[c].pc /\ t.m = cons[c].m /\ ~t.conn /\ t.failed = cons[c].failed
      BY Facts DEF Task
    <2>2. InHand(t, rows, mails)
      BY <2>1, Facts DEF InHand
    <2> HIDE DEF t
    <2>3. Move(c, t) /\ UNCHANGED <<bound, rows, mails>> /\ cons[c].conn
      BY <1>2 DEF LoseConnection, t
    <2>4. /\ place' \in [Messages -> {"unpublished", "lost", "ready", "unacked", "acked"}]
          /\ \A m \in Messages : place'[m] # place[m] => cons[c].m = m /\ place'[m] = "ready"
      BY Facts DEF LoseConnection, Requeued, IInv, TypeOK
    <2>5. AckedIsRecorded' /\ SentIsMailed'
      BY <2>3, <2>4 DEF IInv, AckedIsRecorded, SentIsMailed, Events
    <2> QED
      BY <2>1, <2>2, <2>3, <2>4, <2>5, OneMoves DEF IInv, TypeOK
  <1> QED
    BY <1>1, <1>2

LEMMA StepCorrect == IInv /\ [Next]_vars => IInv'
  <1> SUFFICES ASSUME IInv, [Next]_vars PROVE IInv'
    OBVIOUS
  <1>1. ASSUME NEW m \in Messages, Publish(m) PROVE IInv'
    BY <1>1, PublishKeeps
  <1>2. ASSUME NEW c \in Consumers, NEW m \in Messages, Deliver(c, m) PROVE IInv'
    BY <1>2, DeliverKeeps
  <1>3. ASSUME NEW c \in Consumers, Start(c) \/ LoseConnection(c) \/ Crash(c) PROVE IInv'
    BY <1>3, StartKeeps, LoseConnectionKeeps, CrashKeeps
  <1>4. ASSUME NEW c \in Consumers, Prepare(c) \/ SendMail(c) \/ Insert(c) PROVE IInv'
    BY <1>4, PrepareKeeps, SendMailKeeps, InsertKeeps
  <1>5. ASSUME NEW c \in Consumers, Ack(c) \/ Nack(c) PROVE IInv'
    BY <1>5, AckKeeps, NackKeeps
  <1>6. CASE UNCHANGED vars
    BY <1>6 DEF vars, IInv, TypeOK, AckedIsRecorded, SentIsMailed, Exclusive, Events
  <1> QED
    BY <1>1, <1>2, <1>3, <1>4, <1>5, <1>6 DEF Next

LEMMA Invariance == Spec => []IInv
  BY InitCorrect, StepCorrect, PTL DEF Spec

\* Every reachable state of notification-service is well typed, and the message
\* of a consumer is unacked as long as its connection lives.
THEOREM TypeCorrect == Spec => []TypeOK
  <1>1. IInv => TypeOK
    BY DEF IInv
  <1> QED
    BY <1>1, Invariance, PTL

\* No event leaves the queue before its payment has a row, whatever crashes,
\* connections and failures there are and however many consumers: consumer.go
\* acks only after the INSERT.
THEOREM AckedMeansRecorded == Spec => []AckedIsRecorded
  <1>1. IInv => AckedIsRecorded
    BY DEF IInv
  <1> QED
    BY <1>1, Invariance, PTL

\* No row says SENT for an e-mail that never left: consumer.go computes the
\* status from the error of SendMail, and ON CONFLICT DO NOTHING keeps the row
\* of the first consumer that wrote one.
THEOREM SentMeansMailed == Spec => []SentIsMailed
  <1>1. IInv => SentIsMailed
    BY DEF IInv
  <1> QED
    BY <1>1, Invariance, PTL
=============================================================================
