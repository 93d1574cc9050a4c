------------------------ MODULE PaymentServiceProofs ------------------------
(***************************************************************************)
(* Proofs about PaymentService, for any bookings, payments and handlers    *)
(* elsewhere, and in any environment: the state is well typed              *)
(* (TypeCorrect), one payment of a booking succeeds (OneSuccess), only     *)
(* calls that crossed undo a sale that was paid for or whose ticket is out *)
(* (SuccessIsSold, EventIsSold), and only faults lose a payment or a       *)
(* ticket (OnlyFaults).                                                    *)
(*                                                                         *)
(* The argument: a SUCCESS goes back to the 200 of Confirm (Fits), and     *)
(* from then on the booking is not HOLD, so that nobody reads HOLD again.  *)
(* Who has read it before and will store something else has crossed        *)
(* (CrossInv, on the histories of PaymentOutcome).                         *)
(***************************************************************************)
EXTENDS PaymentOutcome, TLAPS

\* What is known of a payment when its handler is at t, its call to Confirm at
\* c, and its row is r.
Fits(t, c, r) ==
    /\ t.pc = "new" => c = "none" /\ r = None
    /\ t.pc # "new" => t.b \in Bookings
    /\ t.pc \in {"new", "gateway", "wait"} => t.outcome = None
    /\ t.pc \in {"gateway", "wait", "update"} => r = "PENDING"
    /\ t.pc = "publish" => t.outcome = "SUCCESS" /\ r # "FAILED"
    /\ t.pc = "update" => t.outcome # None
    /\ t.outcome = "SUCCESS" \/ r = "SUCCESS" => c = "ok"

IInv ==
    /\ TypeOK
    /\ \A p \in events : task[p].pc = "done" /\ call[p] = "ok" /\ rows[p] # "FAILED"
    /\ \A p \in Payments : Fits(task[p], call[p], rows[p])
    /\ \A p \in Payments : call[p] = "ok" => booking[task[p].b] # "HOLD"

Calls == {"none", "sent", "loaded", "expired", "ok", "refused"}
PCs == {"new", "gateway", "wait", "update", "publish", "done"}
-----------------------------------------------------------------------------
(* What the helpers do to a handler. *)

\* Goto changes the place in the handler only.
LEMMA GotoKeeps ==
    ASSUME task \in [Payments -> Task], NEW p \in Payments, NEW pc \in PCs, Goto(p, pc)
    PROVE  /\ task' \in [Payments -> Task] /\ task'[p].pc = pc
           /\ task'[p].b = task[p].b /\ task'[p].outcome = task[p].outcome
           /\ task'[p].gone = task[p].gone
           /\ \A q \in Payments : q # p => task'[q] = task[q]
  BY DEF Goto, Task, PCs

\* Store sets the outcome too.
LEMMA StoreKeeps ==
    ASSUME task \in [Payments -> Task], NEW p \in Payments,
           NEW outcome \in {"SUCCESS", "FAILED"}, Store(p, outcome)
    PROVE  /\ task' \in [Payments -> Task] /\ task'[p].pc = "update"
           /\ task'[p].b = task[p].b /\ task'[p].outcome = outcome
           /\ task'[p].gone = task[p].gone
           /\ \A q \in Payments : q # p => task'[q] = task[q]
  <1> DEFINE t == [task[p] EXCEPT !.pc = "update"]
  <1>1. t \in Task /\ t.pc = "update" /\ t.b = task[p].b /\ t.gone = task[p].gone
    BY DEF Task
  <1>2. task' = [task EXCEPT ![p] = [t EXCEPT !.outcome = outcome]]
    BY DEF Store
  <1> HIDE DEF t
  <1>3. LET u == [t EXCEPT !.outcome = outcome]
        IN  /\ u \in Task /\ u.pc = "update" /\ u.b = task[p].b
            /\ u.outcome = outcome /\ u.gone = task[p].gone
    BY <1>1 DEF Task
  <1> QED
    BY <1>2, <1>3

\* The step of one handler, or of its call.
LEMMA OneHandler ==
    ASSUME IInv, NEW p \in Payments,
           booking' \in [Bookings -> Status],
           rows' \in [Payments -> {None, "PENDING", "SUCCESS", "FAILED"}],
           task' \in [Payments -> Task], call' \in [Payments -> Calls],
           \A q \in Payments : q # p =>
              task'[q] = task[q] /\ rows'[q] = rows[q] /\ call'[q] = call[q],
           \A b \in Bookings : booking'[b] = "HOLD" => booking[b] = "HOLD",
           Fits(task'[p], call'[p], rows'[p]),
           call'[p] = "ok" => booking'[task'[p].b] # "HOLD",
           p \in events => /\ task'[p].pc = "done" /\ rows'[p] = rows[p]
                           /\ call'[p] = call[p],
           events' = events
              \/ /\ events' = events \cup {p}
                 /\ task'[p].pc = "done" /\ call'[p] = "ok" /\ rows'[p] # "FAILED",
           UNCHANGED <<late, other>>
    PROVE  IInv'
  <1>1. \A q \in Payments : Fits(task'[q], call'[q], rows'[q])
    BY DEF IInv
  <1>2. \A q \in Payments : call'[q] = "ok" => booking'[task'[q].b] # "HOLD"
    <2> SUFFICES ASSUME NEW q \in Payments, q # p, call[q] = "ok"
                 PROVE  booking'[task[q].b] # "HOLD"
      OBVIOUS
    <2>1. task[q].b \in Bookings /\ booking[task[q].b] # "HOLD"
      BY DEF IInv, Fits
    <2> QED
      BY <2>1
  <1>3. \A q \in events' : task'[q].pc = "done" /\ call'[q] = "ok" /\ rows'[q] # "FAILED"
    BY DEF IInv, TypeOK
  <1>4. TypeOK'
    BY <1>1 DEF IInv, TypeOK, At, Fits, Calls
  <1> QED
    BY <1>1, <1>2, <1>3, <1>4 DEF IInv
-----------------------------------------------------------------------------
(* Every action keeps the invariant. *)

LEMMA InitCorrect == Init => IInv
  <1> SUFFICES ASSUME Init PROVE IInv
    OBVIOUS
  <1>1. Unborn \in Task /\ Unborn.pc = "new" /\ Unborn.outcome = None
    BY DEF Unborn, Task
  <1>2. TypeOK
    BY <1>1 DEF Init, TypeOK, At, Status
  <1> QED
    BY <1>1, <1>2 DEF Init, IInv, Fits, None

\* What the invariant says of one payment.
LEMMA Facts ==
    ASSUME IInv, NEW p \in Payments
    PROVE  /\ task[p] \in Task /\ Fits(task[p], call[p], rows[p])
           /\ p \in events => task[p].pc = "done" /\ call[p] = "ok"
           /\ task[p].outcome \in {None, "SUCCESS", "FAILED"}
           /\ call[p] = "ok" => booking[task[p].b] # "HOLD"
           /\ booking \in [Bookings -> Status]
           /\ rows \in [Payments -> {None, "PENDING", "SUCCESS", "FAILED"}]
           /\ task \in [Payments -> Task]
           /\ call \in [Payments -> Calls]
  BY DEF IInv, TypeOK, Task, Calls

LEMMA BeginKeeps ==
    ASSUME IInv, NEW p \in Payments, NEW b \in Bookings, Begin(p, b)
    PROVE  IInv'
  <1>1. task[p].pc = "new" /\ call[p] = "none" /\ rows[p] = None /\ p \notin events
    BY Facts DEF Begin, At, Fits
  <1>2. PICK pc \in {"gateway", "done"} :
           /\ task' = [task EXCEPT ![p] = [Unborn EXCEPT !.pc = pc, !.b = b]]
           /\ pc = "gateway" => rows' = [rows EXCEPT ![p] = "PENDING"]
           /\ rows' = [rows EXCEPT ![p] = "PENDING"] \/ UNCHANGED rows
           /\ UNCHANGED <<booking, late, call, other, events>>
    BY DEF Begin
  <1> DEFINE t == [Unborn EXCEPT !.pc = pc, !.b = b]
  <1>3. t \in Task /\ t.pc = pc /\ t.b = b /\ t.outcome = None
    BY DEF Unborn, Task
  <1>4. task' = [task EXCEPT ![p] = t]
    BY <1>2
  <1> HIDE DEF t
  <1>5. Fits(t, call'[p], rows'[p])
    BY <1>1, <1>2, <1>3, Facts DEF Fits, None
  <1>6. /\ task' \in [Payments -> Task] /\ task'[p] = t
        /\ rows' \in [Payments -> {None, "PENDING", "SUCCESS", "FAILED"}]
        /\ \A q \in Payments : q # p =>
              task'[q] = task[q] /\ rows'[q] = rows[q] /\ call'[q] = call[q]
    BY <1>2, <1>3, <1>4, Facts
  <1> QED
    BY <1>1, <1>2, <1>5, <1>6, Facts, OneHandler

\* The handler goes on, and neither its row nor its call changes.
LEMMA OnlyMoves ==
    ASSUME IInv, NEW p \in Payments, p \notin events, task' \in [Payments -> Task],
           \A q \in Payments : q # p => task'[q] = task[q],
           Fits(task'[p], call[p], rows[p]),
           task[p].b \in Bookings => task'[p].b = task[p].b,
           UNCHANGED <<booking, late, rows, call, other, events>>
    PROVE  IInv'
  <1>1. call[p] = "ok" => booking'[task'[p].b] # "HOLD"
    BY Facts DEF Fits
  <1> QED
    BY <1>1, Facts, OneHandler

LEMMA GatewayKeeps ==
    ASSUME IInv, NEW p \in Payments, Gateway(p)
    PROVE  IInv'
  <1>1. /\ task[p].pc = "gateway" /\ rows[p] = "PENDING" /\ task[p].b \in Bookings
        /\ p \notin events /\ UNCHANGED <<booking, late, rows, other, events>>
    BY Facts DEF Gateway, At, Fits
  <1>2. CASE Store(p, "FAILED") /\ UNCHANGED call
    <2>1. Fits(task'[p], call[p], rows[p])
      BY <1>1, <1>2, Facts, StoreKeeps DEF Fits, None
    <2> QED
      BY <1>1, <1>2, <2>1, Facts, StoreKeeps, OnlyMoves
  <1>3. CASE Goto(p, "wait") /\ call' = [call EXCEPT ![p] = "sent"]
    <2>1. Fits(task'[p], call'[p], rows[p])
      BY <1>1, <1>3, Facts, GotoKeeps DEF Fits, PCs, None
    <2>2. /\ call' \in [Payments -> Calls] /\ call'[p] = "sent"
          /\ \A q \in Payments : q # p => call'[q] = call[q]
      BY <1>3, Facts DEF Calls
    <2> QED
      BY <1>1, <1>3, <2>1, <2>2, Facts, GotoKeeps, OneHandler DEF PCs
  <1> QED
    BY <1>2, <1>3 DEF Gateway

\* The call to Confirm goes on, and of the bookings only its own may change.
LEMMA CallKeeps ==
    ASSUME IInv, NEW p \in Payments, NEW c \in {"loaded", "expired", "ok", "refused"},
           NEW status \in {"CONFIRMED", "EXPIRED"},
           call[p] \in {"sent", "loaded", "expired"} \/ (call[p] = "ok" /\ At(p, "wait")),
           call' = [call EXCEPT ![p] = c],
           booking' = booking \/ booking' = [booking EXCEPT ![task[p].b] = status],
           c = "ok" => booking' = [booking EXCEPT ![task[p].b] = status],
           UNCHANGED <<late, rows, task, other, events>>
    PROVE  IInv'
  <1>1. task[p].pc # "new" /\ task[p].b \in Bookings /\ p \notin events
    BY Facts DEF Fits, At
  <1>2. /\ booking' \in [Bookings -> Status]
        /\ \A b \in Bookings : booking'[b] = "HOLD" => booking[b] = "HOLD"
        /\ c = "ok" => booking'[task[p].b] # "HOLD"
    BY <1>1, Facts DEF Status
  <1>3. /\ call' \in [Payments -> Calls]
        /\ call'[p] = c /\ \A q \in Payments : q # p => call'[q] = call[q]
    BY Facts DEF Calls
  <1>4. Fits(task[p], c, rows[p])
    BY <1>1, Facts DEF Fits, At, None
  <1> QED
    BY <1>1, <1>2, <1>3, <1>4, Facts, OneHandler

LEMMA ConfirmKeeps ==
    ASSUME IInv, NEW p \in Payments, Confirm(p) \/ ConfirmDies(p)
    PROVE  IInv'
  <1>1. CASE ConfirmLoad(p)
    <2>1. PICK c \in {"loaded", "expired", "refused"} : call' = [call EXCEPT ![p] = c]
      BY <1>1 DEF ConfirmLoad
    <2> QED
      BY <1>1, <2>1, CallKeeps DEF ConfirmLoad
  <1>2. CASE ConfirmStore(p)
    <2>1. PICK c \in {"ok", "refused"} :
             /\ call' = [call EXCEPT ![p] = c]
             /\ booking' = booking \/ booking' = [booking EXCEPT ![task[p].b] = "CONFIRMED"]
             /\ c = "ok" => booking' = [booking EXCEPT ![task[p].b] = "CONFIRMED"]
      BY <1>2 DEF ConfirmStore
    <2> QED
      BY <1>2, <2>1, CallKeeps DEF ConfirmStore
  <1>3. CASE ConfirmExpires(p)
    BY <1>3, CallKeeps DEF ConfirmExpires
  <1>4. CASE ConfirmDies(p)
    BY <1>4, CallKeeps DEF ConfirmDies
  <1> QED
    BY <1>1, <1>2, <1>3, <1>4 DEF Confirm

\* The answer, or giving up: SUCCESS is stored only after a 200.
LEMMA DecideKeeps ==
    ASSUME IInv, NEW p \in Payments, Answer(p) \/ GiveUp(p)
    PROVE  IInv'
  <1>1. /\ task[p].pc = "wait" /\ rows[p] = "PENDING" /\ task[p].b \in Bookings
        /\ p \notin events /\ UNCHANGED <<booking, late, rows, call, other, events>>
    BY Facts DEF Answer, GiveUp, At, Fits
  <1>2. PICK o \in {"SUCCESS", "FAILED"} :
           Store(p, o) /\ (o = "SUCCESS" => call[p] = "ok")
    BY DEF Answer, GiveUp
  <1>3. Fits(task'[p], call[p], rows[p])
    BY <1>1, <1>2, Facts, StoreKeeps DEF Fits, None
  <1> QED
    BY <1>1, <1>2, <1>3, Facts, StoreKeeps, OnlyMoves

LEMMA UpdateStatusKeeps ==
    ASSUME IInv, NEW p \in Payments, UpdateStatus(p)
    PROVE  IInv'
  <1>1. /\ task[p].pc = "update" /\ rows[p] = "PENDING" /\ task[p].b \in Bookings
        /\ task[p].outcome \in {"SUCCESS", "FAILED"}
        /\ p \notin events /\ UNCHANGED <<booking, late, call, other, events>>
    BY Facts DEF UpdateStatus, At, Fits
  <1>2. PICK pc \in {"publish", "done"} :
           Goto(p, pc) /\ (pc = "publish" => task[p].outcome = "SUCCESS")
    BY DEF UpdateStatus
  <1>3. /\ rows' \in [Payments -> {None, "PENDING", "SUCCESS", "FAILED"}]
        /\ rows'[p] = task[p].outcome \/ rows'[p] = "PENDING"
        /\ \A q \in Payments : q # p => rows'[q] = rows[q]
    BY <1>1, Facts DEF UpdateStatus
  <1>4. Fits(task'[p], call[p], rows'[p])
    BY <1>1, <1>2, <1>3, Facts, GotoKeeps DEF Fits, None, PCs
  <1> QED
    BY <1>1, <1>2, <1>3, <1>4, Facts, GotoKeeps, OneHandler DEF PCs

LEMMA PublishKeeps ==
    ASSUME IInv, NEW p \in Payments, Publish(p)
    PROVE  IInv'
  <1>1. /\ task[p].pc = "publish" /\ task[p].outcome = "SUCCESS" /\ rows[p] # "FAILED"
        /\ p \notin events /\ UNCHANGED <<booking, late, rows, call, other>>
    BY Facts DEF Publish, At, Fits
  <1>2. Goto(p, "done") /\ (events' = events \cup {p} \/ events' = events)
    BY DEF Publish
  <1>3. Fits(task'[p], call[p], rows[p])
    BY <1>1, <1>2, Facts, GotoKeeps DEF Fits, PCs
  <1>4. call[p] = "ok" /\ booking[task'[p].b] # "HOLD"
    BY <1>1, <1>2, Facts, GotoKeeps DEF Fits, PCs
  <1> QED
    BY <1>1, <1>2, <1>3, <1>4, Facts, GotoKeeps, OneHandler DEF PCs

LEMMA ClientLeavesKeeps ==
    ASSUME IInv, NEW p \in Payments, ClientLeaves(p)
    PROVE  IInv'
  <1> DEFINE t == [task[p] EXCEPT !.gone = TRUE]
  <1>1. t \in Task /\ t.pc = task[p].pc /\ t.b = task[p].b /\ t.outcome = task[p].outcome
    BY Facts DEF Task
  <1>2. task' = [task EXCEPT ![p] = t]
    BY DEF ClientLeaves
  <1> HIDE DEF t
  <1>3. p \notin events
    BY Facts DEF ClientLeaves, Running, At
  <1>4. Fits(t, call[p], rows[p])
    BY <1>1, Facts DEF Fits
  <1>5. /\ task' \in [Payments -> Task] /\ task'[p] = t
        /\ \A q \in Payments : q # p => task'[q] = task[q]
    BY <1>1, <1>2, Facts
  <1>6. UNCHANGED <<booking, late, rows, call, other, events>>
    BY DEF ClientLeaves
  <1> QED
    BY <1>1, <1>3, <1>4, <1>5, <1>6, OnlyMoves

LEMMA CrashKeeps ==
    ASSUME IInv, NEW p \in Payments, Crash(p)
    PROVE  IInv'
  <1>1. /\ p \notin events /\ task[p].pc # "new" /\ Goto(p, "done")
        /\ UNCHANGED <<booking, late, rows, call, other, events>>
    BY Facts DEF Crash, Running, At
  <1>2. Fits(task'[p], call[p], rows[p])
    BY <1>1, Facts, GotoKeeps DEF Fits, PCs
  <1> QED
    BY <1>1, <1>2, Facts, GotoKeeps, OnlyMoves DEF PCs

\* A handler that has begun keeps to its booking.
LEMMA BookingStays ==
    ASSUME IInv, NEW p \in Payments,
           Process(p) \/ GiveUp(p) \/ ClientLeaves(p) \/ Crash(p)
    PROVE  \A q \in Payments : task'[q].b = task[q].b
  <1>1. CASE Gateway(p) \/ Answer(p) \/ GiveUp(p)
    <2>1. (\E o \in {"SUCCESS", "FAILED"} : Store(p, o)) \/ Goto(p, "wait")
      BY <1>1 DEF Gateway, Answer, GiveUp
    <2> QED
      BY <2>1, Facts, StoreKeeps, GotoKeeps DEF PCs
  <1>2. CASE UpdateStatus(p) \/ Publish(p) \/ Crash(p)
    <2>1. \E pc \in {"publish", "done"} : Goto(p, pc)
      BY <1>2 DEF UpdateStatus, Publish, Crash
    <2> QED
      BY <2>1, Facts, GotoKeeps DEF PCs
  <1>3. CASE ClientLeaves(p)
    BY <1>3, Facts DEF ClientLeaves, Task
  <1> QED
    BY <1>1, <1>2, <1>3 DEF Process

\* Expiry, and the handlers elsewhere: no booking becomes HOLD again.
LEMMA ElsewhereKeeps ==
    ASSUME IInv, (\E b \in Bookings : Expire(b)) \/ (\E o \in Others : Elsewhere(o))
    PROVE  IInv'
  <1>1. UNCHANGED <<rows, task, call, events>> /\ late' \subseteq Bookings
    BY DEF Expire, Elsewhere, ClientConfirm, Cancel, CleanUp, Reads, OtherStore, IInv, TypeOK
  <1> DEFINE Kept ==
        /\ booking' \in [Bookings -> Status]
        /\ \A b \in Bookings : booking'[b] = "HOLD" => booking[b] = "HOLD"
        /\ other' \in [Others -> {Idle} \cup [b : Bookings, to : Status \ {"HOLD"}]]
  <1>2. Kept
    <2>1. CASE \E b \in Bookings : Expire(b)
      BY <2>1 DEF Expire, IInv, TypeOK
    <2>2. ASSUME NEW o \in Others, NEW b \in Bookings, NEW status \in Status \ {"HOLD"},
                 Reads(o, b, status)
          PROVE  Kept
      BY <2>2 DEF Reads, IInv, TypeOK
    <2>3. ASSUME NEW o \in Others, OtherStore(o)
          PROVE  Kept
      <3>1. other[o] \in [b : Bookings, to : Status \ {"HOLD"}]
        BY <2>3 DEF OtherStore, IInv, TypeOK
      <3>2. other' \in [Others -> {Idle} \cup [b : Bookings, to : Status \ {"HOLD"}]]
        BY <2>3 DEF OtherStore, IInv, TypeOK
      <3>3. other[o].b \in Bookings /\ other[o].to \in Status \ {"HOLD"}
        BY <3>1
      <3> QED
        BY <2>3, <3>2, <3>3 DEF OtherStore, IInv, TypeOK
    <2> QED
      BY <2>1, <2>2, <2>3 DEF Elsewhere, ClientConfirm, Cancel, CleanUp, Status
  <1>3. \A p \in Payments : call[p] = "ok" => task[p].b \in Bookings
    BY DEF IInv, Fits
  <1> QED
    BY <1>1, <1>2, <1>3 DEF IInv, TypeOK, At

LEMMA StepCorrect == IInv /\ [Next]_vars => IInv'
  <1> SUFFICES ASSUME IInv, [Next]_vars PROVE IInv'
    OBVIOUS
  <1>1. ASSUME NEW p \in Payments, NEW b \in Bookings, Begin(p, b) PROVE IInv'
    BY <1>1, BeginKeeps
  <1>2. ASSUME NEW p \in Payments, Process(p) PROVE IInv'
    BY <1>2, GatewayKeeps, DecideKeeps, UpdateStatusKeeps, PublishKeeps DEF Process
  <1>3. ASSUME NEW p \in Payments, Confirm(p) \/ ConfirmDies(p) PROVE IInv'
    BY <1>3, ConfirmKeeps
  <1>4. ASSUME NEW p \in Payments, GiveUp(p) \/ ClientLeaves(p) \/ Crash(p) PROVE IInv'
    BY <1>4, DecideKeeps, ClientLeavesKeeps, CrashKeeps
  <1>5. CASE (\E b \in Bookings : Expire(b)) \/ (\E o \in Others : Elsewhere(o))
    BY <1>5, ElsewhereKeeps
  <1>6. CASE UNCHANGED vars
    BY <1>6 DEF vars, IInv, TypeOK, At
  <1> QED
    BY <1>1, <1>2, <1>3, <1>4, <1>5, <1>6 DEF Next

LEMMA Invariance == Spec => []IInv
  BY InitCorrect, StepCorrect, PTL DEF Spec

\* Every reachable state of payment-service is well typed, and no handler stores
\* a status that was never set.
THEOREM TypeCorrect == Spec => []TypeOK
  <1>1. IInv => TypeOK
    BY DEF IInv
  <1> QED
    BY <1>1, Invariance, PTL

-----------------------------------------------------------------------------
(* One payment of a booking succeeds, when its client pays one request at  *)
(* a time.  A call to Confirm that was given up may still take effect, so  *)
(* that it is not the bookings that tell, but who still listens.           *)

Wins(p) == task[p].outcome = "SUCCESS" \/ (At(p, "wait") /\ call[p] = "ok")
MayWin(p) == Wins(p) \/ (At(p, "wait") /\ call[p] = "loaded")
Together(p, q) == p # q /\ task[p].b = task[q].b /\ task[p].b \in Bookings

OneInv ==
    /\ \A p \in Payments : rows[p] = "SUCCESS" => task[p].outcome = "SUCCESS"
    /\ \A p, q \in Payments : Together(p, q) => At(p, "done") \/ At(q, "done")
    /\ \A p, q \in Payments : Together(p, q) /\ Wins(p) => ~MayWin(q)

\* A payment moves on, and comes no nearer to success than it was.
LEMMA NoNearer ==
    ASSUME OneInv, NEW p \in Payments,
           \A q \in Payments : q # p =>
              task'[q] = task[q] /\ rows'[q] = rows[q] /\ call'[q] = call[q],
           task'[p].b = task[p].b, At(p, "done") => At(p, "done")',
           rows'[p] = "SUCCESS" => task'[p].outcome = "SUCCESS",
           Wins(p)' => Wins(p), MayWin(p)' => MayWin(p)
    PROVE  OneInv'
  <1>1. \A q \in Payments :
           /\ Wins(q)' => Wins(q)
           /\ MayWin(q)' => MayWin(q)
           /\ At(q, "done") => At(q, "done")'
           /\ task'[q].b = task[q].b
    BY DEF Wins, MayWin, At
  <1>2. \A q, r \in Payments : Together(q, r)' => Together(q, r)
    BY <1>1 DEF Together
  <1>3. \A q \in Payments : rows'[q] = "SUCCESS" => task'[q].outcome = "SUCCESS"
    BY DEF OneInv
  <1> QED
    BY <1>1, <1>2, <1>3 DEF OneInv

\* The new payment is alone: the others of its booking are done.
LEMMA BeginIsAlone ==
    ASSUME IInv, OneInv, "concurrent" \notin Env,
           NEW p \in Payments, NEW b \in Bookings, Begin(p, b)
    PROVE  OneInv'
  <1>1. /\ task[p].pc = "new" /\ call[p] = "none" /\ rows[p] = None
        /\ \A q \in Payments : task[q].b = b => At(q, "done")
    BY Facts DEF Begin, At, Fits, MayPay
  <1>2. PICK pc \in {"gateway", "done"} :
           /\ task' = [task EXCEPT ![p] = [Unborn EXCEPT !.pc = pc, !.b = b]]
           /\ rows' = [rows EXCEPT ![p] = "PENDING"] \/ UNCHANGED rows
           /\ UNCHANGED call
    BY DEF Begin
  <1> DEFINE t == [Unborn EXCEPT !.pc = pc, !.b = b]
  <1>3. t.pc = pc /\ t.b = b /\ t.outcome = None
    BY DEF Unborn
  <1>4. task' = [task EXCEPT ![p] = t]
    BY <1>2
  <1> HIDE DEF t
  <1>5. /\ task'[p] = t
        /\ \A q \in Payments : q # p =>
              task'[q] = task[q] /\ rows'[q] = rows[q] /\ call'[q] = call[q]
    BY <1>2, <1>4, Facts
  <1>6. ~MayWin(p)' /\ ~Wins(p)' /\ rows'[p] # "SUCCESS"
    BY <1>1, <1>2, <1>3, <1>5, Facts DEF MayWin, Wins, At, None
  <1>7. \A q \in Payments : q # p =>
           /\ Wins(q)' <=> Wins(q)
           /\ MayWin(q)' <=> MayWin(q)
           /\ At(q, "done")' <=> At(q, "done")
    BY <1>5 DEF Wins, MayWin, At
  <1>8. \A q, r \in Payments : q # p /\ r # p /\ Together(q, r)' => Together(q, r)
    BY <1>5 DEF Together
  <1>9. \A q \in Payments : Together(q, p)' \/ Together(p, q)' => q # p /\ At(q, "done")
    BY <1>1, <1>3, <1>5 DEF Together
  <1>10. \A q \in Payments : rows'[q] = "SUCCESS" => task'[q].outcome = "SUCCESS"
    BY <1>5, <1>6 DEF OneInv
  <1>11. \A q, r \in Payments : Together(q, r)' => At(q, "done")' \/ At(r, "done")'
    BY <1>7, <1>8, <1>9 DEF OneInv
  <1>12. \A q, r \in Payments : Together(q, r)' /\ Wins(q)' => ~MayWin(r)'
    BY <1>6, <1>7, <1>8, <1>9 DEF OneInv
  <1> QED
    BY <1>10, <1>11, <1>12 DEF OneInv

\* A payment whose Confirm has read HOLD: nobody has won the booking yet.
LEMMA ConfirmLoadIsOpen ==
    ASSUME IInv, OneInv, NEW p \in Payments, ConfirmLoad(p)
    PROVE  OneInv'
  <1>1. /\ UNCHANGED <<booking, rows, task>>
        /\ task[p].b \in Bookings /\ call'[p] \in {"loaded", "expired", "refused"}
        /\ call[p] = "sent" /\ (call'[p] = "loaded" => booking[task[p].b] = "HOLD")
        /\ \A q \in Payments : q # p => call'[q] = call[q]
    BY Facts DEF ConfirmLoad, Fits
  <1>2. CASE call'[p] = "loaded"
    <2>1. call'[p] = "loaded" /\ booking[task[p].b] = "HOLD"
      BY <1>1, <1>2
    <2>2. \A q \in Payments : Together(q, p) => ~Wins(q)
      BY <2>1, Facts DEF Together, Wins, Fits
    <2>3. \A q \in Payments : Wins(q)' <=> Wins(q)
      BY <1>1, <2>1 DEF Wins, At
    <2>4. \A q \in Payments : q # p => (MayWin(q)' <=> MayWin(q))
      BY <1>1, <2>3 DEF MayWin, At
    <2>5. \A q, r \in Payments : Together(q, r)' <=> Together(q, r)
      BY <1>1 DEF Together
    <2>6. \A q, r \in Payments : Together(q, r)' /\ Wins(q)' => ~MayWin(r)'
      BY <2>2, <2>3, <2>4, <2>5 DEF OneInv
    <2> QED
      BY <1>1, <2>5, <2>6 DEF OneInv, At
  <1>3. CASE call'[p] # "loaded"
    <2>2. (Wins(p)' => Wins(p)) /\ (MayWin(p)' => MayWin(p))
      BY <1>1, <1>3 DEF Wins, MayWin, At
    <2> QED
      BY <1>1, <2>2, NoNearer DEF OneInv, At
  <1> QED
    BY <1>2, <1>3

\* Of the payments of one booking only one listens when CONFIRMED is stored.
LEMMA ConfirmStoreIsHeard ==
    ASSUME IInv, OneInv, NEW p \in Payments, ConfirmStore(p)
    PROVE  OneInv'
  <1>1. /\ UNCHANGED <<rows, task>>
        /\ call[p] = "loaded" /\ call'[p] \in {"ok", "refused"}
        /\ \A q \in Payments : q # p => call'[q] = call[q]
    BY Facts DEF ConfirmStore
  <1>2. CASE ~At(p, "wait") \/ call'[p] = "refused"
    <2>1. (Wins(p)' => Wins(p)) /\ (MayWin(p)' => MayWin(p))
      BY <1>1, <1>2 DEF Wins, MayWin, At
    <2> QED
      BY <1>1, <2>1, NoNearer DEF OneInv, At
  <1>3. CASE At(p, "wait") /\ call'[p] = "ok"
    <2>1. MayWin(p)
      BY <1>1, <1>3 DEF MayWin
    <2>2. \A q \in Payments : Together(q, p) \/ Together(p, q) => ~MayWin(q)
      <3> SUFFICES ASSUME NEW q \in Payments, Together(q, p) \/ Together(p, q)
                   PROVE  ~MayWin(q)
        OBVIOUS
      <3>1. Together(q, p) /\ At(q, "done")
        BY <1>3 DEF Together, OneInv, At
      <3>2. ~Wins(q)
        BY <2>1, <3>1 DEF OneInv
      <3> QED
        BY <3>1, <3>2 DEF MayWin, At
    <2>3. \A q \in Payments : q # p => (Wins(q)' <=> Wins(q)) /\ (MayWin(q)' <=> MayWin(q))
      BY <1>1 DEF Wins, MayWin, At
    <2>4. \A q, r \in Payments : Together(q, r)' <=> Together(q, r)
      BY <1>1 DEF Together
    <2>5. \A q \in Payments : Wins(q) => MayWin(q)
      BY DEF MayWin
    <2>6. \A q, r \in Payments : Together(q, r)' /\ Wins(q)' => ~MayWin(r)'
      <3> SUFFICES ASSUME NEW q \in Payments, NEW r \in Payments, Together(q, r), Wins(q)'
                   PROVE  ~MayWin(r)'
        BY <2>4
      <3>1. q # r
        BY DEF Together
      <3>2. CASE q = p
        BY <2>2, <2>3, <3>1, <3>2
      <3>3. CASE r = p
        BY <2>2, <2>3, <2>5, <3>1, <3>3
      <3>4. CASE q # p /\ r # p
        BY <2>3, <3>4 DEF OneInv
      <3> QED
        BY <3>2, <3>3, <3>4
    <2> QED
      BY <1>1, <2>4, <2>6 DEF OneInv, At
  <1> QED
    BY <1>1, <1>2, <1>3

\* Every other step brings its payment no nearer to success.
LEMMA OthersComeNoNearer ==
    ASSUME IInv, OneInv, NEW p \in Payments,
           \/ Process(p) \/ GiveUp(p) \/ ClientLeaves(p) \/ Crash(p)
           \/ ConfirmExpires(p) \/ ConfirmDies(p)
    PROVE  OneInv'
  <1> USE Facts
  <1>1. CASE Gateway(p)
    <2>1. CASE Store(p, "FAILED") /\ UNCHANGED call
      <3>1. ~Wins(p)' /\ ~MayWin(p)'
        BY <2>1, StoreKeeps DEF Wins, MayWin, At
      <3> QED
        BY <1>1, <2>1, <3>1, StoreKeeps, NoNearer DEF Gateway, At, Fits, None
    <2>2. CASE Goto(p, "wait") /\ call' = [call EXCEPT ![p] = "sent"]
      <3>1. /\ call'[p] = "sent" /\ task'[p].outcome = task[p].outcome
            /\ \A q \in Payments : q # p => call'[q] = call[q]
        BY <2>2, GotoKeeps DEF PCs
      <3>2. (Wins(p)' => Wins(p)) /\ (MayWin(p)' => MayWin(p))
        BY <3>1 DEF Wins, MayWin, At
      <3> QED
        BY <1>1, <2>2, <3>1, <3>2, GotoKeeps, NoNearer DEF Gateway, At, PCs, OneInv
    <2> QED
      BY <1>1, <2>1, <2>2 DEF Gateway
  <1>2. CASE Answer(p) \/ GiveUp(p)
    <2>1. PICK o \in {"SUCCESS", "FAILED"} :
             Store(p, o) /\ (o = "SUCCESS" => call[p] = "ok")
      BY <1>2 DEF Answer, GiveUp
    <2>2. At(p, "wait") /\ rows[p] = "PENDING" /\ UNCHANGED <<rows, call>>
      BY <1>2 DEF Answer, GiveUp, Fits, At
    <2>3. (Wins(p)' => Wins(p)) /\ (MayWin(p)' => MayWin(p))
      BY <2>1, <2>2, StoreKeeps DEF Wins, MayWin, At
    <2> QED
      BY <2>1, <2>2, <2>3, StoreKeeps, NoNearer DEF At
  <1>3. CASE UpdateStatus(p) \/ Publish(p) \/ Crash(p)
    <2>1. PICK pc \in {"publish", "done"} : Goto(p, pc) /\ (At(p, "done") => pc = "done")
      BY <1>3 DEF UpdateStatus, Publish, Crash, Running, At
    <2>2. /\ rows' = rows \/ rows' = [rows EXCEPT ![p] = task[p].outcome]
          /\ UNCHANGED call
      BY <1>3 DEF UpdateStatus, Publish, Crash
    <2>3. /\ \A q \in Payments : q # p => rows'[q] = rows[q]
          /\ rows'[p] \in {rows[p], task[p].outcome}
      BY <2>2
    <2>4. (Wins(p)' => Wins(p)) /\ (MayWin(p)' => MayWin(p))
      BY <2>1, <2>2, GotoKeeps DEF Wins, MayWin, At, PCs
    <2> QED
      BY <2>1, <2>2, <2>3, <2>4, GotoKeeps, NoNearer DEF At, PCs, OneInv
  <1>4. CASE ConfirmExpires(p) \/ ConfirmDies(p)
    <2>1. /\ call'[p] = "refused" /\ UNCHANGED <<rows, task>>
          /\ \A q \in Payments : q # p => call'[q] = call[q]
      BY <1>4 DEF ConfirmExpires, ConfirmDies
    <2>2. (Wins(p)' => Wins(p)) /\ (MayWin(p)' => MayWin(p))
      BY <2>1 DEF Wins, MayWin, At
    <2> QED
      BY <2>1, <2>2, NoNearer DEF OneInv, At
  <1>5. CASE ClientLeaves(p)
    <2> DEFINE t == [task[p] EXCEPT !.gone = TRUE]
    <2>1. t.pc = task[p].pc /\ t.b = task[p].b /\ t.outcome = task[p].outcome
      BY DEF Task
    <2>2. task' = [task EXCEPT ![p] = t] /\ UNCHANGED <<rows, call>>
      BY <1>5 DEF ClientLeaves
    <2> HIDE DEF t
    <2>3. task'[p] = t /\ \A q \in Payments : q # p => task'[q] = task[q]
      BY <2>2
    <2>4. (Wins(p)' => Wins(p)) /\ (MayWin(p)' => MayWin(p))
      BY <2>1, <2>2, <2>3 DEF Wins, MayWin, At
    <2> QED
      BY <2>1, <2>2, <2>3, <2>4, NoNearer DEF OneInv, At
  <1> QED
    BY <1>1, <1>2, <1>3, <1>4, <1>5 DEF Process

\* When a client pays for a booking one request at a time, one payment of it
\* succeeds at most: though calls to Confirm that were given up still take effect,
\* the payment that hears of it is the only one that listens.
THEOREM OneSuccess ==
    ASSUME "concurrent" \notin Env
    PROVE  Spec => []OneSuccessPerBooking
  <1>1. Init => OneInv
    <2> SUFFICES ASSUME Init PROVE OneInv
      OBVIOUS
    <2>1. Unborn.b = None /\ Unborn.outcome = None /\ Unborn.pc = "new"
      BY DEF Unborn
    <2> QED
      BY <2>1, NoneAssumption DEF Init, OneInv, Together, Wins, At, None
  <1>2. IInv /\ OneInv /\ [Next]_vars => OneInv'
    <2> SUFFICES ASSUME IInv, OneInv, [Next]_vars PROVE OneInv'
      OBVIOUS
    <2>1. CASE \E p \in Payments, b \in Bookings : Begin(p, b)
      BY <2>1, BeginIsAlone
    <2>2. ASSUME NEW p \in Payments, Confirm(p) PROVE OneInv'
      BY <2>2, ConfirmLoadIsOpen, ConfirmStoreIsHeard, OthersComeNoNearer DEF Confirm
    <2>3. ASSUME NEW p \in Payments,
                 Process(p) \/ GiveUp(p) \/ ConfirmDies(p) \/ ClientLeaves(p) \/ Crash(p)
          PROVE  OneInv'
      BY <2>3, OthersComeNoNearer
    <2>4. CASE \/ \E b \in Bookings : Expire(b)
               \/ \E o \in Others : Elsewhere(o)
               \/ UNCHANGED vars
      <3>1. UNCHANGED <<rows, task, call>>
        BY <2>4 DEF Expire, Elsewhere, ClientConfirm, Cancel, CleanUp, Reads, OtherStore, vars
      <3> QED
        BY <3>1 DEF OneInv, Together, Wins, MayWin, At
    <2> QED
      BY <2>1, <2>2, <2>3, <2>4 DEF Next
  <1>3. IInv /\ OneInv => OneSuccessPerBooking
    <2> SUFFICES ASSUME IInv, OneInv, NEW p \in Payments, NEW q \in Payments, p # q,
                        rows[p] = "SUCCESS", rows[q] = "SUCCESS", task[p].b = task[q].b
                 PROVE  FALSE
      BY DEF OneSuccessPerBooking
    <2>1. task[p].b \in Bookings
      BY Facts DEF Fits, None
    <2>2. Together(p, q) /\ Wins(p) /\ MayWin(q)
      BY <2>1 DEF OneInv, Together, Wins, MayWin
    <2> QED
      BY <2>2 DEF OneInv
  <1> QED
    BY <1>1, <1>2, <1>3, Invariance, PTL DEF Spec
-----------------------------------------------------------------------------
(* Only calls that crossed undo a sale.  The argument: a booking on which  *)
(* none has crossed and that is CONFIRMED is about to be made nothing else *)
(* of, because whoever reads it as HOLD reads it before (CrossInv).        *)

CrossInv ==
    /\ \A b \in Bookings : Crossing(b) => b \in crossed
    /\ \A b \in Bookings \ crossed :
          booking[b] = "CONFIRMED" => Deciding(b) \subseteq {"CONFIRMED"}
    /\ \A p \in Payments :
          call[p] = "ok" /\ task[p].b \notin crossed => booking[task[p].b] = "CONFIRMED"

\* A step that decides anew only what is HOLD, and stores only what was decided.
LEMMA CrossStep ==
    ASSUME IInv, CrossInv, History,
           \A b \in Bookings : booking[b] = "HOLD" \/ Deciding(b)' \subseteq Deciding(b),
           \A b \in Bookings :
              \/ booking'[b] = booking[b]
              \/ booking'[b] \in Deciding(b) /\ Deciding(b)' \subseteq Deciding(b),
           \A p \in Payments : call'[p] = "ok" =>
              \/ call[p] = "ok" /\ task'[p].b = task[p].b
              \/ task'[p].b \in Bookings /\ booking'[task'[p].b] = "CONFIRMED"
    PROVE  CrossInv'
  <1>1. \A b \in Bookings : b \notin crossed' => b \notin crossed /\ ~Crossing(b)
    BY DEF CrossInv, History
  <1>2. \A b \in Bookings : Crossing(b)' => b \in crossed'
    BY DEF History
  <1>3. ASSUME NEW b \in Bookings, b \notin crossed', booking'[b] = "CONFIRMED"
        PROVE  Deciding(b)' \subseteq {"CONFIRMED"}
    <2>1. CASE booking'[b] = booking[b]
      BY <1>1, <1>3, <2>1 DEF CrossInv
    <2>2. CASE "CONFIRMED" \in Deciding(b) /\ Deciding(b)' \subseteq Deciding(b)
      BY <1>1, <1>3, <2>2 DEF Crossing
    <2> QED
      BY <1>3, <2>1, <2>2
  <1>4. ASSUME NEW p \in Payments, call'[p] = "ok", task'[p].b \notin crossed'
        PROVE  booking'[task'[p].b] = "CONFIRMED"
    <2>1. CASE call[p] = "ok" /\ task'[p].b = task[p].b
      <3> DEFINE b == task[p].b
      <3>1. b \in Bookings
        BY <2>1, Facts DEF Fits
      <3>2. b \notin crossed /\ ~Crossing(b) /\ booking[b] = "CONFIRMED"
        BY <1>1, <1>4, <2>1, <3>1 DEF CrossInv
      <3>3. booking'[b] = booking[b] \/ booking'[b] \in {"CONFIRMED"}
        BY <3>1, <3>2 DEF CrossInv
      <3> QED
        BY <2>1, <3>2, <3>3
    <2> QED
      BY <1>4, <2>1
  <1> QED
    BY <1>2, <1>3, <1>4 DEF CrossInv

\* Who decides anew: a call that has just read HOLD.
LEMMA NothingDecided ==
    ASSUME NEW b \in Bookings,
           \A p \in Payments : call'[p] \in {"loaded", "expired"} /\ task'[p].b = b =>
              call[p] = call'[p] /\ task[p].b = b,
           \A o \in Others : other'[o].b = b => other[o] = other'[o]
    PROVE  Deciding(b)' \subseteq Deciding(b)
  <1> SUFFICES ASSUME NEW status \in Deciding(b)' PROVE status \in Deciding(b)
    OBVIOUS
  <1>1. status \in Status
    BY DEF Deciding
  <1>2. CASE \E p \in Payments : /\ task'[p].b = b
                                 /\ \/ call'[p] = "loaded" /\ status = "CONFIRMED"
                                    \/ call'[p] = "expired" /\ status = "EXPIRED"
    BY <1>1, <1>2 DEF Deciding
  <1>3. CASE \E o \in Others : other'[o] = [b |-> b, to |-> status]
    <2>1. PICK o \in Others : other'[o] = [b |-> b, to |-> status]
      BY <1>3
    <2>2. other'[o].b = b
      BY <2>1
    <2> QED
      BY <1>1, <2>1, <2>2 DEF Deciding
  <1> QED
    BY <1>2, <1>3 DEF Deciding

\* The handlers of payment-service: they send calls, and decide nothing.
LEMMA HandlersDecideNothing ==
    ASSUME IInv, CrossInv, History, NEW p \in Payments,
           \/ \E b \in Bookings : Begin(p, b)
           \/ Process(p) \/ GiveUp(p) \/ ClientLeaves(p) \/ Crash(p)
    PROVE  CrossInv'
  <1>1. UNCHANGED <<booking, other>>
    BY DEF Begin, Process, Gateway, Answer, UpdateStatus, Publish, GiveUp, ClientLeaves, Crash
  <1>2. \A q \in Payments : call'[q] \in {"loaded", "expired", "ok"} => call[q] = call'[q]
    BY Facts DEF Begin, Process, Gateway, Answer, UpdateStatus, Publish, GiveUp, ClientLeaves,
       Crash, Calls
  <1>3. \A q \in Payments : call[q] # "none" => task'[q].b = task[q].b
    <2>1. CASE \E b \in Bookings : Begin(p, b)
      BY <2>1, Facts DEF Begin, At, Fits
    <2>2. CASE Process(p) \/ GiveUp(p) \/ ClientLeaves(p) \/ Crash(p)
      BY <2>2, BookingStays
    <2> QED
      BY <2>1, <2>2
  <1>4. \A b \in Bookings : Deciding(b)' \subseteq Deciding(b)
    BY <1>1, <1>2, <1>3, NothingDecided
  <1> QED
    BY <1>1, <1>2, <1>3, <1>4, CrossStep

\* The call of payment-service to Confirm.
LEMMA CallDecidesOnHold ==
    ASSUME IInv, CrossInv, History, NEW p \in Payments, Confirm(p) \/ ConfirmDies(p)
    PROVE  CrossInv'
  <1>1. /\ UNCHANGED <<task, other>> /\ call'[p] # "none"
        /\ task[p].b \in Bookings
        /\ \A q \in Payments : q # p => call'[q] = call[q]
    BY Facts DEF Confirm, ConfirmLoad, ConfirmStore, ConfirmExpires, ConfirmDies, Fits
  <1>2. \A b \in Bookings : b # task[p].b =>
           booking'[b] = booking[b] /\ Deciding(b)' \subseteq Deciding(b)
    <2>1. \A b \in Bookings : b # task[p].b => booking'[b] = booking[b]
      BY Facts DEF Confirm, ConfirmLoad, ConfirmStore, ConfirmExpires, ConfirmDies
    <2>2. \A b \in Bookings : b # task[p].b => Deciding(b)' \subseteq Deciding(b)
      BY <1>1, NothingDecided
    <2> QED
      BY <2>1, <2>2
  <1>3. CASE ConfirmLoad(p) /\ call'[p] \in {"loaded", "expired"}
    <2>1. booking[task[p].b] = "HOLD" /\ UNCHANGED booking
      BY <1>3, Facts DEF ConfirmLoad
    <2> QED
      BY <1>1, <1>2, <1>3, <2>1, CrossStep
  <1>4. CASE call'[p] \in {"ok", "refused"}
    <2>1. \A b \in Bookings : Deciding(b)' \subseteq Deciding(b)
      BY <1>1, <1>4, NothingDecided
    <2>2. \/ UNCHANGED booking
          \/ booking' = [booking EXCEPT ![task[p].b] = "CONFIRMED"] /\ call[p] = "loaded"
          \/ booking' = [booking EXCEPT ![task[p].b] = "EXPIRED"] /\ call[p] = "expired"
      BY DEF Confirm, ConfirmLoad, ConfirmStore, ConfirmExpires, ConfirmDies
    <2>3. booking'[task[p].b] \in {booking[task[p].b]} \cup Deciding(task[p].b)
      BY <1>1, <2>2, Facts DEF Deciding, Status
    <2>4. call'[p] = "ok" => booking' = [booking EXCEPT ![task[p].b] = "CONFIRMED"]
      BY <1>1, Facts DEF Confirm, ConfirmLoad, ConfirmStore, ConfirmExpires, ConfirmDies
    <2>5. call'[p] = "ok" => booking'[task[p].b] = "CONFIRMED"
      BY <1>1, <2>4, Facts
    <2> QED
      BY <1>1, <1>2, <2>1, <2>3, <2>5, CrossStep
  <1>5. call'[p] \in {"ok", "refused"} \/ (ConfirmLoad(p) /\ call'[p] \in {"loaded", "expired"})
    BY Facts DEF Confirm, ConfirmLoad, ConfirmStore, ConfirmExpires, ConfirmDies
  <1> QED
    BY <1>3, <1>4, <1>5

\* Everybody else's calls.
LEMMA OthersDecideOnHold ==
    ASSUME IInv, CrossInv, History, NEW o \in Others, Elsewhere(o)
    PROVE  CrossInv'
  <1>1. UNCHANGED <<task, call>> /\ \A u \in Others : u # o => other'[u] = other[u]
    BY DEF Elsewhere, ClientConfirm, Cancel, CleanUp, Reads, OtherStore, IInv, TypeOK
  <1>2. ASSUME NEW a \in Bookings, NEW status \in Status \ {"HOLD"}, Reads(o, a, status)
        PROVE  CrossInv'
    <2>1. booking[a] = "HOLD" /\ UNCHANGED booking /\ other'[o] = [b |-> a, to |-> status]
      BY <1>2 DEF Reads, IInv, TypeOK
    <2>2. \A b \in Bookings : b # a => Deciding(b)' \subseteq Deciding(b)
      BY <1>1, <2>1, NothingDecided
    <2> QED
      BY <1>1, <2>1, <2>2, CrossStep
  <1>3. CASE OtherStore(o)
    <2>1. PICK a \in Bookings, status \in Status : other[o] = [b |-> a, to |-> status]
      BY <1>3 DEF OtherStore, IInv, TypeOK
    <2>2. other'[o] = Idle /\ (booking' = [booking EXCEPT ![a] = status] \/ UNCHANGED booking)
      BY <1>3, <2>1 DEF OtherStore, IInv, TypeOK
    <2>3. \A b \in Bookings : other'[o].b # b
      BY <2>2, NoneAssumption DEF Idle
    <2>4. \A b \in Bookings : Deciding(b)' \subseteq Deciding(b)
      BY <1>1, <2>3, NothingDecided
    <2>5. status \in Deciding(a)
      BY <2>1 DEF Deciding
    <2>6. \A b \in Bookings : booking'[b] = booking[b] \/ booking'[b] \in Deciding(b)
      BY <2>2, <2>5, Facts DEF IInv, TypeOK
    <2> QED
      BY <1>1, <2>4, <2>6, CrossStep
  <1> QED
    BY <1>2, <1>3 DEF Elsewhere, ClientConfirm, Cancel, CleanUp, Status

LEMMA CrossSteps == IInv /\ CrossInv /\ [OutcomeNext]_outcomeVars => CrossInv'
  <1> SUFFICES ASSUME IInv, CrossInv, [OutcomeNext]_outcomeVars PROVE CrossInv'
    OBVIOUS
  <1>1. CASE UNCHANGED outcomeVars
    BY <1>1 DEF outcomeVars, vars, CrossInv, Crossing, Deciding
  <1>2. CASE OutcomeNext
    <2>1. Next /\ History
      BY <1>2 DEF OutcomeNext
    <2>2. ASSUME NEW b \in Bookings, Expire(b) PROVE CrossInv'
      <3>1. UNCHANGED <<booking, task, call, other>>
        BY <2>2 DEF Expire
      <3>2. \A a \in Bookings : Deciding(a)' \subseteq Deciding(a)
        BY <3>1, NothingDecided
      <3> QED
        BY <2>1, <3>1, <3>2, CrossStep
    <2> QED
      BY <2>1, <2>2, HandlersDecideNothing, CallDecidesOnHold, OthersDecideOnHold DEF Next
  <1> QED
    BY <1>1, <1>2

LEMMA OutcomeImplies == OutcomeSpec => Spec
  <1>1. OutcomeInit => Init
    BY DEF OutcomeInit
  <1>2. [OutcomeNext]_outcomeVars => [Next]_vars
    BY DEF OutcomeNext, outcomeVars, vars
  <1> QED
    BY <1>1, <1>2, PTL DEF OutcomeSpec, Spec

LEMMA CrossInvariance == OutcomeSpec => [](IInv /\ CrossInv)
  <1>1. OutcomeInit => CrossInv
    <2> SUFFICES ASSUME OutcomeInit PROVE CrossInv
      OBVIOUS
    <2>1. \A b \in Bookings : Deciding(b) = {}
      BY NoneAssumption DEF OutcomeInit, Init, Deciding, Idle
    <2> QED
      BY <2>1 DEF OutcomeInit, Init, CrossInv, Crossing
  <1> QED
    BY <1>1, CrossSteps, OutcomeImplies, Invariance, PTL DEF OutcomeSpec

\* A payment is SUCCESS only for a booking that was sold to it and, unless a call
\* that crossed has stored another status, still is: Process stores SUCCESS after a
\* 200 only, and after the 200 nobody reads HOLD.
THEOREM SuccessIsSold == OutcomeSpec => []SuccessMeansConfirmed
  <1>1. IInv /\ CrossInv => SuccessMeansConfirmed
    BY DEF IInv, Fits, CrossInv, SuccessMeansConfirmed, StaysSold
  <1> QED
    BY <1>1, CrossInvariance, PTL

\* A ticket goes out only for such a booking, and for a payment that is not recorded
\* as failed.
THEOREM EventIsSold == OutcomeSpec => []EventMeansSold
  <1>1. IInv /\ CrossInv => EventMeansSold
    BY DEF IInv, TypeOK, CrossInv, EventMeansSold, StaysSold
  <1> QED
    BY <1>1, CrossInvariance, PTL
-----------------------------------------------------------------------------
(* Only faults lose a payment or a ticket.  The argument: up to its end a payment
   that nothing has touched knows what its call to Confirm has come to (Clean),
   and whoever has made a booking CONFIRMED has heard so or was touched, or is a
   client that has not paid (Explained). *)

\* A payment that nothing has touched, with its handler at t, its call to Confirm
\* at c and its row r; e says whether its event is out.
Clean(t, c, r, e) ==
    /\ t.pc \in {"gateway", "wait", "update", "publish"} => t.gone = FALSE
    /\ t.pc \in {"update", "publish", "done"} => c \in {"none", "ok", "refused"}
    /\ t.pc = "update" => (t.outcome = "SUCCESS" <=> c = "ok")
    /\ t.pc = "publish" => c = "ok" /\ r = "SUCCESS"
    /\ t.pc = "done" => r \in {"SUCCESS", "FAILED"} /\ (c = "ok" <=> r = "SUCCESS")
                        /\ (c = "ok" <=> e)

IsClean(p) == Clean(task[p], call[p], rows[p], p \in events)

\* Who has confirmed the booking.
Explained(b) ==
    \/ b \in bypassed
    \/ \E p \in Payments : task[p].b = b /\ (p \in disturbed \/ call[p] = "ok")

OutcomeInv ==
    /\ \A p \in Payments \ disturbed : IsClean(p)
    /\ \A b \in Bookings : booking[b] = "CONFIRMED" => Explained(b)
    /\ \A b \in Bookings : Bypassing(b) => b \in bypassed
    /\ \A p \in Payments : /\ task[p].pc = "new" => task[p].b \notin Bookings
                           /\ task[p].pc = "gateway" => call[p] = "none"
-----------------------------------------------------------------------------
\* The step of one payment, or of its call.
LEMMA OneMoves ==
    ASSUME IInv, OutcomeInv, NEW p \in Payments,
           History,
           \A q \in Payments : q # p =>
              /\ task'[q] = task[q] /\ rows'[q] = rows[q] /\ call'[q] = call[q]
              /\ q \in events' <=> q \in events,
           p \notin disturbed /\ ~Disturbed(p) => IsClean(p)',
           task[p].b \in Bookings => task'[p].b = task[p].b,
           task'[p].pc = "new" => task'[p] = task[p],
           task'[p].pc = "gateway" => call'[p] = "none",
           call[p] = "ok" => call'[p] = "ok" \/ Disturbed(p),
           \A b \in Bookings : booking'[b] = "CONFIRMED" =>
              \/ booking[b] = "CONFIRMED"
              \/ task'[p].b = b /\ (Disturbed(p) \/ call'[p] = "ok")
    PROVE  OutcomeInv'
  <1>1. ASSUME NEW q \in Payments, q \notin disturbed' PROVE IsClean(q)'
    <2>1. q \notin disturbed /\ ~Disturbed(q)
      BY <1>1 DEF History
    <2>2. CASE q = p
      BY <2>1, <2>2
    <2>3. CASE q # p
      <3>1. Clean(task[q], call[q], rows[q], q \in events)
        BY <2>1 DEF OutcomeInv, IsClean
      <3> QED
        BY <2>3, <3>1 DEF IsClean, Clean
    <2> QED
      BY <2>2, <2>3
  <1>2. ASSUME NEW b \in Bookings, booking'[b] = "CONFIRMED" PROVE Explained(b)'
    <2>1. CASE b \in bypassed
      BY <2>1 DEF Explained, History
    <2>2. CASE booking[b] = "CONFIRMED" /\ b \notin bypassed
      <3>1. PICK q \in Payments : task[q].b = b /\ (q \in disturbed \/ call[q] = "ok")
        BY <2>2 DEF OutcomeInv, Explained
      <3>2. task'[q].b = b /\ (q \in disturbed' \/ call'[q] = "ok")
        BY <3>1 DEF History
      <3> QED
        BY <3>2 DEF Explained
    <2>3. CASE task'[p].b = b /\ (Disturbed(p) \/ call'[p] = "ok")
      <3>1. p \in disturbed' \/ call'[p] = "ok"
        BY <2>3 DEF History
      <3> QED
        BY <2>3, <3>1 DEF Explained
    <2> QED
      BY <1>2, <2>1, <2>2, <2>3
  <1>3. \A q \in Payments : /\ task'[q].pc = "new" => task'[q].b \notin Bookings
                            /\ task'[q].pc = "gateway" => call'[q] = "none"
    BY DEF OutcomeInv
  <1>4. \A b \in Bookings : Bypassing(b)' => b \in bypassed'
    BY DEF History
  <1> QED
    BY <1>1, <1>2, <1>3, <1>4 DEF OutcomeInv

\* What is known of one payment; an event is out when all is done.
LEMMA OutcomeFacts ==
    ASSUME IInv, OutcomeInv, NEW p \in Payments, p \notin disturbed
    PROVE  /\ Clean(task[p], call[p], rows[p], p \in events)
           /\ p \in events => task[p].pc = "done"
  BY DEF OutcomeInv, IsClean, IInv

\* A step that changes none of the bookings, nor the calls.
LEMMA HandlerMoves ==
    ASSUME IInv, OutcomeInv, NEW p \in Payments,
           History,
           \A q \in Payments : q # p =>
              /\ task'[q] = task[q] /\ rows'[q] = rows[q]
              /\ q \in events' <=> q \in events,
           task[p].b \in Bookings => task'[p].b = task[p].b, task'[p].pc # "new",
           task'[p].pc = "gateway" => call[p] = "none",
           p \notin disturbed /\ ~Disturbed(p) => IsClean(p)',
           UNCHANGED <<booking, call>>
    PROVE  OutcomeInv'
  BY OneMoves

LEMMA BeginIsClean ==
    ASSUME IInv, OutcomeInv, NEW p \in Payments, NEW b \in Bookings, Begin(p, b),
           History
    PROVE  OutcomeInv'
  <1>1. /\ task[p].pc = "new" /\ call[p] = "none" /\ task[p].b \notin Bookings
        /\ UNCHANGED <<booking, call, events>>
    BY Facts DEF Begin, At, Fits, OutcomeInv
  <1>2. PICK pc \in {"gateway", "done"} :
           /\ task' = [task EXCEPT ![p] = [Unborn EXCEPT !.pc = pc, !.b = b]]
           /\ rows' = [rows EXCEPT ![p] = "PENDING"] \/ UNCHANGED rows
    BY DEF Begin
  <1> DEFINE t == [Unborn EXCEPT !.pc = pc, !.b = b]
  <1>3. t.pc = pc /\ t.gone = FALSE
    BY DEF Unborn
  <1>4. task' = [task EXCEPT ![p] = t]
    BY <1>2
  <1> HIDE DEF t
  <1>5. /\ task'[p] = t
        /\ \A q \in Payments : q # p => task'[q] = task[q] /\ rows'[q] = rows[q]
    BY <1>2, <1>4, Facts
  <1>6. ASSUME ~Disturbed(p) PROVE IsClean(p)'
    <2>1. pc = "gateway"
      BY <1>1, <1>3, <1>5, <1>6 DEF Disturbed, At
    <2> QED
      BY <1>1, <1>3, <1>5, <2>1 DEF IsClean, Clean
  <1> QED
    BY <1>1, <1>3, <1>5, <1>6, HandlerMoves

LEMMA GatewayIsClean ==
    ASSUME IInv, OutcomeInv, NEW p \in Payments, Gateway(p),
           History
    PROVE  OutcomeInv'
  <1>1. task[p].pc = "gateway" /\ call[p] = "none" /\ UNCHANGED <<booking, rows, events>>
    BY DEF Gateway, At, OutcomeInv
  <1>2. CASE Store(p, "FAILED") /\ UNCHANGED call
    <2>1. /\ task'[p].pc = "update" /\ task'[p].outcome = "FAILED"
          /\ task'[p].b = task[p].b /\ task'[p].gone = task[p].gone
          /\ \A q \in Payments : q # p => task'[q] = task[q]
      BY <1>2, Facts, StoreKeeps
    <2>2. ASSUME p \notin disturbed PROVE IsClean(p)'
      BY <1>1, <1>2, <2>1, <2>2, OutcomeFacts DEF IsClean, Clean
    <2> QED
      BY <1>1, <1>2, <2>1, <2>2, HandlerMoves
  <1>3. CASE Goto(p, "wait") /\ ~task[p].gone /\ call' = [call EXCEPT ![p] = "sent"]
    <2>1. /\ task'[p].pc = "wait" /\ task'[p].b = task[p].b /\ task'[p].gone = task[p].gone
          /\ \A q \in Payments : q # p => task'[q] = task[q] /\ call'[q] = call[q]
      BY <1>3, Facts, GotoKeeps DEF PCs
    <2>2. ASSUME p \notin disturbed PROVE IsClean(p)'
      BY <1>1, <2>1, <2>2, OutcomeFacts DEF IsClean, Clean
    <2> QED
      BY <1>1, <1>3, <2>1, <2>2, OneMoves
  <1> QED
    BY <1>2, <1>3 DEF Gateway

\* The call in booking-service.  CONFIRMED is stored by a call that answers 200, or
\* whose answer is lost.
LEMMA CallIsClean ==
    ASSUME IInv, OutcomeInv, NEW p \in Payments, Confirm(p) \/ ConfirmDies(p), History
    PROVE  OutcomeInv'
  <1> USE DEF Confirm, ConfirmLoad, ConfirmStore, ConfirmExpires, ConfirmDies
  <1>1. /\ call[p] \in {"sent", "loaded", "expired"} \/ (call[p] = "ok" /\ At(p, "wait"))
        /\ UNCHANGED <<rows, task, events>>
        /\ \A q \in Payments : q # p => call'[q] = call[q]
        /\ call'[p] \in {"loaded", "expired", "ok", "refused"}
        /\ call[p] = "ok" => call'[p] = "refused"
    BY Facts
  <1>2. task[p].pc # "new" /\ task[p].pc # "gateway"
    BY <1>1, Facts DEF Fits, OutcomeInv
  <1>3. ASSUME p \notin disturbed PROVE IsClean(p)'
    <2>1. task[p].pc = "wait" /\ task[p].gone = FALSE
      BY <1>1, <1>2, <1>3, OutcomeFacts, Facts DEF Clean, Task, At
    <2> QED
      BY <1>1, <2>1 DEF IsClean, Clean
  <1>4. \A b \in Bookings : booking'[b] = "CONFIRMED" =>
           \/ booking[b] = "CONFIRMED"
           \/ task'[p].b = b /\ (Disturbed(p) \/ call'[p] = "ok")
    <2>1. CASE booking' = booking \/ booking' = [booking EXCEPT ![task[p].b] = "EXPIRED"]
      BY <2>1, Facts
    <2>2. CASE call[p] = "loaded" /\ booking' = [booking EXCEPT ![task[p].b] = "CONFIRMED"]
      <3>1. call'[p] \in {"ok", "refused"}
        BY <2>2, Facts
      <3>2. call'[p] = "refused" => Disturbed(p)
        BY <2>2 DEF Disturbed
      <3>3. \A b \in Bookings : b # task[p].b => booking'[b] = booking[b]
        BY <2>2, Facts
      <3> QED
        BY <1>1, <3>1, <3>2, <3>3
    <2> QED
      BY <2>1, <2>2
  <1>5. call[p] = "ok" => Disturbed(p)
    BY <1>1 DEF Disturbed
  <1> QED
    BY <1>1, <1>2, <1>3, <1>4, <1>5, OneMoves

\* The outcome is what the answer says, if there was one to wait for.
LEMMA DecisionIsClean ==
    ASSUME IInv, OutcomeInv, NEW p \in Payments, Answer(p) \/ GiveUp(p),
           History
    PROVE  OutcomeInv'
  <1>1. task[p].pc = "wait" /\ UNCHANGED <<booking, rows, call, events>>
    BY DEF Answer, GiveUp, At
  <1>2. PICK o \in {"SUCCESS", "FAILED"} : Store(p, o)
    BY DEF Answer, GiveUp
  <1>3. /\ task'[p].pc = "update" /\ task'[p].outcome = o /\ task'[p].b = task[p].b
        /\ task'[p].gone = task[p].gone
        /\ \A q \in Payments : q # p => task'[q] = task[q]
    BY <1>2, Facts, StoreKeeps
  <1>4. ASSUME p \notin disturbed, ~Disturbed(p) PROVE IsClean(p)'
    <2>1. CASE Answer(p)
      <3>1. call[p] \in {"ok", "refused"} /\ (o = "SUCCESS" <=> call[p] = "ok")
        <4>1. Store(p, IF call[p] = "ok" THEN "SUCCESS" ELSE "FAILED")
          BY <2>1 DEF Answer
        <4>2. task'[p].outcome = IF call[p] = "ok" THEN "SUCCESS" ELSE "FAILED"
          BY <4>1, Facts, StoreKeeps
        <4> QED
          BY <1>3, <2>1, <4>2 DEF Answer
      <3> QED
        BY <1>1, <1>3, <1>4, <3>1, OutcomeFacts DEF IsClean, Clean
    <2>2. CASE GiveUp(p)
      <3>1. call[p] = "refused"
        BY <1>4, <2>2 DEF Disturbed
      <3>2. task'[p].outcome = "FAILED"
        BY <2>2, Facts, StoreKeeps DEF GiveUp
      <3> QED
        BY <1>1, <1>3, <1>4, <3>1, <3>2, OutcomeFacts DEF IsClean, Clean
    <2> QED
      BY <2>1, <2>2
  <1> QED
    BY <1>1, <1>3, <1>4, HandlerMoves

LEMMA UpdateIsClean ==
    ASSUME IInv, OutcomeInv, NEW p \in Payments, UpdateStatus(p),
           History
    PROVE  OutcomeInv'
  <1>1. task[p].pc = "update" /\ UNCHANGED <<booking, call, events>>
    BY DEF UpdateStatus, At
  <1> DEFINE pc == IF task[p].outcome = "SUCCESS" THEN "publish" ELSE "done"
  <1>2. Goto(p, pc)
    BY DEF UpdateStatus
  <1>3. /\ task'[p].pc = pc /\ task'[p].outcome = task[p].outcome
        /\ task'[p].b = task[p].b /\ task'[p].gone = task[p].gone
        /\ \A q \in Payments : q # p => task'[q] = task[q]
    BY <1>2, Facts, GotoKeeps DEF PCs
  <1>4. \A q \in Payments : q # p => rows'[q] = rows[q]
    BY Facts DEF UpdateStatus
  <1>5. ASSUME p \notin disturbed, ~Disturbed(p) PROVE IsClean(p)'
    <2>1. rows'[p] = task[p].outcome
      BY <1>1, <1>3, <1>5 DEF Disturbed, At
    <2>2. task[p].outcome \in {"SUCCESS", "FAILED"}
      BY <1>1, Facts DEF Fits
    <2>3. /\ call[p] \in {"none", "ok", "refused"} /\ p \notin events /\ task[p].gone = FALSE
          /\ task[p].outcome = "SUCCESS" <=> call[p] = "ok"
      BY <1>1, <1>5, OutcomeFacts DEF Clean
    <2> QED
      BY <1>1, <1>3, <2>1, <2>2, <2>3 DEF IsClean, Clean
  <1> QED
    BY <1>1, <1>3, <1>4, <1>5, HandlerMoves

LEMMA PublishIsClean ==
    ASSUME IInv, OutcomeInv, NEW p \in Payments, Publish(p),
           History
    PROVE  OutcomeInv'
  <1>1. /\ task[p].pc = "publish" /\ UNCHANGED <<booking, rows, call>>
        /\ Goto(p, "done") /\ (events' = events \cup {p} \/ events' = events)
    BY DEF Publish, At
  <1>2. /\ task'[p].pc = "done" /\ task'[p].b = task[p].b
        /\ \A q \in Payments : q # p => task'[q] = task[q]
    BY <1>1, Facts, GotoKeeps DEF PCs
  <1>3. ASSUME p \notin disturbed, ~Disturbed(p) PROVE IsClean(p)'
    <2>1. p \in events'
      BY <1>1, <1>2, <1>3 DEF Disturbed, At
    <2>2. call[p] = "ok" /\ rows[p] = "SUCCESS"
      BY <1>1, <1>3, OutcomeFacts DEF Clean
    <2> QED
      BY <1>1, <1>2, <2>1, <2>2 DEF IsClean, Clean
  <1> QED
    BY <1>1, <1>2, <1>3, HandlerMoves

LEMMA FaultIsSeen ==
    ASSUME IInv, OutcomeInv, NEW p \in Payments, ClientLeaves(p) \/ Crash(p),
           History
    PROVE  OutcomeInv'
  <1>1. Disturbed(p)
    BY DEF Disturbed
  <1>2. UNCHANGED <<booking, rows, call, events>> /\ task[p].pc # "new"
    BY DEF ClientLeaves, Crash, Running, At
  <1>3. /\ task'[p].b = task[p].b /\ task'[p].pc \in {task[p].pc, "done"}
        /\ \A q \in Payments : q # p => task'[q] = task[q]
    <2>1. CASE Crash(p)
      BY <2>1, Facts, GotoKeeps DEF Crash, PCs
    <2>2. CASE ClientLeaves(p)
      <3> DEFINE t == [task[p] EXCEPT !.gone = TRUE]
      <3>1. t.pc = task[p].pc /\ t.b = task[p].b
        BY Facts DEF Task
      <3>2. task' = [task EXCEPT ![p] = t]
        BY <2>2 DEF ClientLeaves
      <3> HIDE DEF t
      <3> QED
        BY <3>1, <3>2, Facts
    <2> QED
      BY <2>1, <2>2
  <1> QED
    BY <1>1, <1>2, <1>3, HandlerMoves DEF OutcomeInv
-----------------------------------------------------------------------------
\* Everybody else's calls: CONFIRMED is stored by a client that was noted.
LEMMA OthersAreNoted ==
    ASSUME IInv, OutcomeInv, History,
           (\E b \in Bookings : Expire(b)) \/ (\E o \in Others : Elsewhere(o))
    PROVE  OutcomeInv'
  <1>1. UNCHANGED <<rows, task, call, events>>
    BY DEF Expire, Elsewhere, ClientConfirm, Cancel, CleanUp, Reads, OtherStore
  <1>2. \A p \in Payments \ disturbed' : IsClean(p)'
    BY <1>1 DEF OutcomeInv, IsClean, History
  <1>3. \A b \in Bookings : Explained(b) => Explained(b)'
    BY <1>1 DEF Explained, History
  <1>4. \A b \in Bookings : booking'[b] = "CONFIRMED" => booking[b] = "CONFIRMED" \/ Bypassing(b)
    <2>1. CASE UNCHANGED booking
      BY <2>1
    <2>2. ASSUME NEW o \in Others, OtherStore(o),
                 booking' = [booking EXCEPT ![other[o].b] = other[o].to]
          PROVE  \A b \in Bookings :
                    booking'[b] = "CONFIRMED" => booking[b] = "CONFIRMED" \/ Bypassing(b)
      <3>1. PICK a \in Bookings, status \in Status : other[o] = [b |-> a, to |-> status]
        BY <2>2 DEF OtherStore, IInv, TypeOK
      <3>2. booking' = [booking EXCEPT ![a] = status]
        BY <2>2, <3>1
      <3>3. status = "CONFIRMED" => Bypassing(a)
        BY <3>1 DEF Bypassing
      <3> QED
        BY <3>2, <3>3 DEF IInv, TypeOK
    <2>3. \/ UNCHANGED booking
          \/ \E o \in Others : /\ OtherStore(o)
                               /\ booking' = [booking EXCEPT ![other[o].b] = other[o].to]
      BY DEF Expire, Elsewhere, ClientConfirm, Cancel, CleanUp, Reads, OtherStore
    <2> QED
      BY <2>1, <2>2, <2>3
  <1>5. \A b \in Bookings : b \in bypassed => Explained(b)
    BY DEF Explained
  <1>6. \A b \in Bookings : Bypassing(b)' => b \in bypassed'
    BY DEF History
  <1> QED
    BY <1>1, <1>2, <1>3, <1>4, <1>5, <1>6 DEF OutcomeInv

LEMMA OutcomeStarts == OutcomeInit => OutcomeInv
  <1> SUFFICES ASSUME OutcomeInit PROVE OutcomeInv
    OBVIOUS
  <1>1. Unborn.pc = "new" /\ Unborn.b = None
    BY DEF Unborn
  <1>2. \A b \in Bookings : ~Bypassing(b)
    BY NoneAssumption DEF OutcomeInit, Init, Bypassing, Idle
  <1> QED
    BY <1>1, <1>2, NoneAssumption DEF OutcomeInit, Init, OutcomeInv, IsClean, Clean

LEMMA OutcomeSteps == IInv /\ OutcomeInv /\ [OutcomeNext]_outcomeVars => OutcomeInv'
  <1> SUFFICES ASSUME IInv, OutcomeInv, [OutcomeNext]_outcomeVars PROVE OutcomeInv'
    OBVIOUS
  <1>1. CASE UNCHANGED outcomeVars
    BY <1>1 DEF outcomeVars, vars, OutcomeInv, IsClean, Explained, Bypassing
  <1>2. CASE OutcomeNext
    <2>1. Next /\ History
      BY <1>2 DEF OutcomeNext
    <2> QED
      BY <2>1, BeginIsClean, GatewayIsClean, CallIsClean, DecisionIsClean, UpdateIsClean,
         PublishIsClean, FaultIsSeen, OthersAreNoted DEF Next, Process
  <1> QED
    BY <1>1, <1>2

\* A payment that nothing has touched is complete at its end, and a booking that is
\* sold has its payment and its ticket, or one of its payments was touched, or a
\* client confirmed it without paying: what Process ignores is lost by a fault and
\* not by an interleaving.
THEOREM OnlyFaults == OutcomeSpec => []OnlyFaultsLose
  <1>1. IInv /\ OutcomeInv => OnlyFaultsLose
    <2> SUFFICES ASSUME IInv, OutcomeInv PROVE OnlyFaultsLose
      OBVIOUS
    <2>1. ASSUME NEW p \in Payments, p \notin disturbed, At(p, "done") PROVE Complete(p)
      BY <2>1, OutcomeFacts DEF At, Complete, Clean
    <2>2. ASSUME NEW b \in Bookings, b \notin bypassed, booking[b] = "CONFIRMED",
                 \A p \in Payments : task[p].b = b => At(p, "done")
          PROVE  \E p \in Payments : /\ task[p].b = b
                                     /\ p \in disturbed \/ (rows[p] = "SUCCESS" /\ p \in events)
      <3>1. PICK p \in Payments : task[p].b = b /\ (p \in disturbed \/ call[p] = "ok")
        BY <2>2 DEF OutcomeInv, Explained
      <3> QED
        BY <2>1, <2>2, <3>1 DEF Complete
    <2> QED
      BY <2>1, <2>2 DEF OnlyFaultsLose
  <1> QED
    BY <1>1, OutcomeImplies, OutcomeStarts, OutcomeSteps, Invariance, PTL DEF OutcomeSpec
=============================================================================
