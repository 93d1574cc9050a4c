------------------------ MODULE BookingServiceProofs ------------------------
(***************************************************************************)
(* Proofs about BookingService, for any seats, bookings, handlers and      *)
(* CronJob pods.                                                           *)
(*                                                                         *)
(* First that the state is well typed (TypeCorrect), in any environment.   *)
(* Then that the seats of a CONFIRMED booking are in the booked set        *)
(* (ConfirmedMeansSold), when Redis itself does not fail, and that an      *)
(* outcome is never taken back (OutcomesAreFinal), when no booking has two *)
(* deciders at once.  From the latter, that no seat is sold to a booking   *)
(* that is not (NoSeatIsLost), when nothing ends a Confirm half way; and   *)
(* that no key is left behind (NoLockIsOrphaned), when the DELs are sent.  *)
(***************************************************************************)
EXTENDS BookingService, SequenceTheorems, TLAPS

\* A booking in the table has seats.
RowsHaveSeats == \A b \in Bookings : rows[b].status # None => rows[b].seats # <<>>

\* What a handler or a CronJob pod holds fits where it is.
Placed(t) ==
    /\ t.pc \in {"stamp", "insert"} => t.seats # <<>>
    /\ t.pc \in {"sadd", "unlock"} => t.to = "CONFIRMED"
    /\ t.pc = "update" => t.to # None
    /\ t.to # None => t.b # None
    /\ t.pc = "tag" => t.b # None

\* It is placed so, and the bookings it works on are in the table.
TaskFits(t) ==
    /\ Placed(t)
    /\ t.b # None => rows[t.b].status # None
    /\ \A c \in t.batch : rows[c].status # None

TypeInv == TypeOK /\ RowsHaveSeats /\ \A p \in Procs : TaskFits(task[p])

\* A Confirm has the seats of its booking, and unless its context has ended it
\* has sold those it is past.
ConfirmFits(t) ==
    t.to = "CONFIRMED" =>
        /\ t.pc \in {"sadd", "unlock", "update"}
        /\ t.b \in Bookings
        /\ t.seats = rows[t.b].seats
        /\ ~t.gone => \A k \in 1 .. Len(t.seats) :
              t.pc = "update" \/ k < t.i \/ (k = t.i /\ t.pc = "unlock")
              => t.seats[k] \in booked

SoldInv == TypeInv /\ ConfirmedSeatsAreSold /\ \A p \in Procs : ConfirmFits(task[p])
-----------------------------------------------------------------------------
(* What a task is after a step, whatever step it was. *)

InLoop(t) == t.pc \in {"check", "setnx", "tag", "sadd", "unlock", "release"}
Good(t)   == t \in Task /\ (InLoop(t) => t.i <= Len(t.seats)) /\ TaskFits(t)

\* TypeInv says of every task that it is Good.
LEMMA TasksAreGood ==
    ASSUME TypeInv, NEW p \in Procs
    PROVE  Good(task[p])
  BY DEF TypeInv, TypeOK, Good, InLoop

\* A worker or pod that does nothing is Good.
LEMMA IdleIsGood == Good(Idle)
  BY BookingsAssumption, TimeAssumption
  DEF Good, Idle, Start, Task, InLoop, TaskFits, Placed, PCs, None

\* Writing the response, or going on to the next booking of the batch.
LEMMA FinishedIsGood ==
    ASSUME TypeInv, NEW p \in Procs
    PROVE  Good(Finished(p)) /\ Finished(p).to = None
  <1>1. CASE task[p].batch = {}
    BY <1>1, IdleIsGood DEF Finished, Idle, Start
  <1>2. CASE task[p].batch # {}
    <2>. DEFINE t == Finished(p)
    <2>1. task[p] \in Task /\ TaskFits(task[p])
      BY TasksAreGood DEF Good
    <2>2. t = [pc |-> "next", seats |-> <<>>, i |-> 1, b |-> None, to |-> None,
               left |-> 0, batch |-> task[p].batch, age |-> task[p].age, gone |-> FALSE]
      BY <1>2 DEF Finished, Idle, Start
    <2>3. t \in Task
      BY <2>1, <2>2, TimeAssumption DEF Task, PCs
    <2>4. TaskFits(t) /\ ~InLoop(t)
      BY <2>1, <2>2 DEF TaskFits, Placed, InLoop, None
    <2>. QED BY <2>2, <2>3, <2>4 DEF Good
  <1>. QED BY <1>1, <1>2

\* rollbackHolds gets a prefix of the seats and releases each of them.
LEMMA RollbackIsGood ==
    ASSUME TypeInv, NEW p \in Procs, NEW n \in 0 .. Len(task[p].seats)
    PROVE  Good(Rollback(p, n)) /\ Rollback(p, n).to = None
  <1>1. CASE n = 0
    BY <1>1, FinishedIsGood DEF Rollback
  <1>2. CASE n # 0
    <2>1. task[p] \in Task /\ TaskFits(task[p])
      BY TasksAreGood DEF Good
    <2>2. /\ SubSeq(task[p].seats, 1, n) \in Seq(Seats)
          /\ Len(SubSeq(task[p].seats, 1, n)) = n
      BY <2>1, <1>2, SubSeqProperties DEF Task
    <2>. DEFINE t == Rollback(p, n)
    <2>3. t = [pc |-> "release", seats |-> SubSeq(task[p].seats, 1, n), i |-> 1,
               b |-> None, to |-> None, left |-> 0, batch |-> {},
               age |-> task[p].age, gone |-> task[p].gone]
      BY <1>2 DEF Rollback, Idle, Start
    <2>4. t \in Task
      BY <2>1, <2>2, <2>3, TimeAssumption DEF Task, PCs
    <2>5. TaskFits(t)
      BY <2>1, <2>3 DEF TaskFits, Placed, Task
    <2>. QED BY <1>2, <2>2, <2>3, <2>4, <2>5 DEF Good
  <1>. QED BY <1>1, <1>2

\* The loop goes on with the next seat, when there is one.
LEMMA LoopIsGood ==
    ASSUME TypeInv, NEW p \in Procs, InLoop(task[p]), ~AtLast(p),
           NEW again \in {"check", "tag", "sadd", "release"},
           again = "sadd" => task[p].to = "CONFIRMED",
           again = "tag" => task[p].b # None
    PROVE  Good([Goto(p, again) EXCEPT !.i = @ + 1])
  <1>. DEFINE t == [Goto(p, again) EXCEPT !.i = @ + 1]
  <1>1. task[p] \in Task /\ TaskFits(task[p]) /\ task[p].i <= Len(task[p].seats)
    BY TasksAreGood DEF Good
  <1>2. t = [pc |-> again, seats |-> task[p].seats, i |-> task[p].i + 1,
             b |-> task[p].b, to |-> task[p].to, left |-> task[p].left,
             batch |-> task[p].batch, age |-> task[p].age, gone |-> task[p].gone]
    <2>1. Goto(p, again) = [pc |-> again, seats |-> task[p].seats, i |-> task[p].i,
             b |-> task[p].b, to |-> task[p].to, left |-> task[p].left,
             batch |-> task[p].batch, age |-> task[p].age, gone |-> task[p].gone]
      BY <1>1 DEF Task, Goto
    <2>. QED BY <2>1
  <1>3. task[p].i + 1 \in Nat \ {0} /\ task[p].i + 1 <= Len(task[p].seats)
    BY <1>1 DEF AtLast, Task
  <1>4. t \in Task /\ t.i <= Len(t.seats)
    BY <1>1, <1>2, <1>3 DEF Task, PCs
  <1>5. TaskFits(t)
    BY <1>1, <1>2 DEF TaskFits, Placed
  <1>. QED BY <1>4, <1>5 DEF Good

\* The next call is another one, on the same seat.
LEMMA GotoIsGood ==
    ASSUME TypeInv, NEW p \in Procs, InLoop(task[p]),
           NEW pc \in PCs,
           pc \in {"sadd", "unlock"} => task[p].to = "CONFIRMED",
           pc = "update" => task[p].to # None,
           pc # "tag"
    PROVE  Good(Goto(p, pc))
  <1>1. task[p] \in Task /\ TaskFits(task[p]) /\ task[p].i <= Len(task[p].seats)
    BY TasksAreGood DEF Good
  <1>2. Goto(p, pc) = [pc |-> pc, seats |-> task[p].seats, i |-> task[p].i,
             b |-> task[p].b, to |-> task[p].to, left |-> task[p].left,
             batch |-> task[p].batch, age |-> task[p].age, gone |-> task[p].gone]
    BY <1>1 DEF Task, Goto
  <1>3. Goto(p, pc) \in Task
    BY <1>1, <1>2 DEF Task
  <1>4. task[p].seats # <<>>
    BY <1>1 DEF Task
  <1>5. TaskFits(Goto(p, pc))
    BY <1>1, <1>2, <1>4 DEF TaskFits, Placed
  <1>. QED BY <1>1, <1>2, <1>3, <1>5 DEF Good

\* A step that leaves the table alone and gives one task a Good value.
LEMMA OneTaskMoves ==
    ASSUME TypeInv, NEW p \in Procs, NEW t, Good(t), Become(p, t), rows' = rows,
           hold' \in [Seats -> Key], booked' \subseteq Seats, told' \subseteq Bookings
    PROVE  TypeInv'
  <1>1. /\ task \in [Procs -> Task] /\ t \in Task
        /\ \A q \in Procs : task'[q] = IF q = p THEN t ELSE task[q]
    BY DEF TypeInv, TypeOK, Good, Become
  <1>2. task' \in [Procs -> Task]
    BY <1>1 DEF Become
  <1>3. \A q \in Procs : (InLoop(task[q]) => task[q].i <= Len(task[q].seats)) /\ TaskFits(task[q])
    BY TasksAreGood DEF Good
  <1>4. \A q \in Procs : (InLoop(task'[q]) => task'[q].i <= Len(task'[q].seats)) /\ TaskFits(task'[q])
    BY <1>1, <1>3 DEF Good
  <1>5. TypeOK'
    BY <1>2, <1>4 DEF TypeInv, TypeOK, InLoop
  <1>6. RowsHaveSeats'
    BY DEF TypeInv, RowsHaveSeats
  <1>7. \A q \in Procs : TaskFits(task[q])'
    BY <1>4 DEF TaskFits, Placed
  <1>. QED BY <1>5, <1>6, <1>7 DEF TypeInv
-----------------------------------------------------------------------------
(* Type correctness: one lemma for the actions that leave the table alone,
   one for each of the others. *)

\* Where the goal needs it: the parts of TypeInv, and the constants' values.
LEMMA KeysAreKeys == NoKey \in Key /\ [val |-> Pending, ttl |-> TTL] \in Key
  BY TimeAssumption DEF NoKey, Key, None, Pending

\* A new Hold.
LEMMA HoldBeginKeeps ==
    ASSUME TypeInv, NEW p \in Workers, NEW seats \in Requests, HoldBegin(p, seats)
    PROVE  TypeInv'
  <1>. DEFINE t == Start("check", seats, None, None)
  <1>1. seats \in Seq(Seats) /\ seats # <<>> /\ p \in Procs
    BY RequestsAssumption DEF HoldBegin, Procs
  <1>2. t = [pc |-> "check", seats |-> seats, i |-> 1, b |-> None, to |-> None,
             left |-> 0, batch |-> {}, age |-> 0, gone |-> FALSE]
    BY DEF Start
  <1>. HIDE DEF t
  <1>3. t \in Task
    BY <1>1, <1>2, TimeAssumption DEF Task, PCs
  <1>4. TaskFits(t)
    <2>1. t.pc = "check" /\ t.b = None /\ t.to = None /\ t.batch = {}
      BY <1>2
    <2>. QED BY <2>1 DEF TaskFits, Placed
  <1>5. Len(seats) \in Nat /\ Len(seats) # 0
    BY <1>1, EmptySeq
  <1>6. Good(t)
    BY <1>2, <1>3, <1>4, <1>5 DEF Good
  <1>7. hold \in [Seats -> Key] /\ booked \subseteq Seats /\ told \subseteq Bookings
    BY DEF TypeInv, TypeOK
  <1>8. Become(p, t)
    BY DEF HoldBegin, t
  <1>. QED BY <1>1, <1>6, <1>7, <1>8, OneTaskMoves DEF HoldBegin

\* The calls of a Hold up to its INSERT.
LEMMA HoldLoopKeeps ==
    ASSUME TypeInv, NEW p \in Procs, HoldCheck(p) \/ HoldSetNX(p) \/ HoldStamp(p)
    PROVE  TypeInv'
  <1>1. /\ task[p] \in Task /\ TaskFits(task[p])
        /\ InLoop(task[p]) => task[p].i <= Len(task[p].seats)
    BY TasksAreGood DEF Good
  <1>2. hold \in [Seats -> Key] /\ booked \subseteq Seats /\ told \subseteq Bookings
    BY DEF TypeInv, TypeOK
  <1>3. CASE HoldCheck(p)
    <2>1. InLoop(task[p]) /\ task[p].i - 1 \in 0 .. Len(task[p].seats)
      BY <1>1, <1>3 DEF HoldCheck, At, InLoop, Task
    <2>2. Good(Goto(p, "setnx")) /\ Good(Rollback(p, task[p].i - 1))
      BY <2>1, GotoIsGood, RollbackIsGood DEF PCs
    <2>. QED BY <1>2, <1>3, <2>2, OneTaskMoves DEF HoldCheck
  <1>4. CASE HoldSetNX(p)
    <2>1. InLoop(task[p]) /\ task[p].i - 1 \in 0 .. Len(task[p].seats)
      BY <1>1, <1>4 DEF HoldSetNX, At, InLoop, Task
    <2>2. Good(Loop(p, "check", Goto(p, "stamp"))) /\ Good(Rollback(p, task[p].i - 1))
      BY <2>1, GotoIsGood, RollbackIsGood, LoopIsGood DEF PCs, Loop
    <2>3. hold' \in [Seats -> Key]
      BY <1>2, <1>4, KeysAreKeys DEF HoldSetNX
    <2>. QED BY <1>2, <1>4, <2>2, <2>3, OneTaskMoves DEF HoldSetNX
  <1>5. CASE HoldStamp(p)
    <2>. DEFINE t == [Goto(p, "insert") EXCEPT !.left = TTL]
    <2>1. task[p].pc = "stamp"
      BY <1>5 DEF HoldStamp, At
    <2>2. Goto(p, "insert") = [pc |-> "insert", seats |-> task[p].seats, i |-> task[p].i,
             b |-> task[p].b, to |-> task[p].to, left |-> task[p].left,
             batch |-> task[p].batch, age |-> task[p].age, gone |-> task[p].gone]
      BY <1>1 DEF Task, Goto
    <2>3. t = [pc |-> "insert", seats |-> task[p].seats, i |-> task[p].i,
             b |-> task[p].b, to |-> task[p].to, left |-> TTL,
             batch |-> task[p].batch, age |-> task[p].age, gone |-> task[p].gone]
      BY <2>2
    <2>4. t \in Task
      BY <1>1, <2>3, TimeAssumption DEF Task, PCs
    <2>5. TaskFits(t) /\ ~InLoop(t)
      BY <1>1, <2>1, <2>3 DEF TaskFits, Placed, InLoop
    <2>. QED BY <1>2, <1>5, <2>4, <2>5, OneTaskMoves DEF HoldStamp, Good
  <1>. QED BY <1>3, <1>4, <1>5

\* The SET loop at the end of a Hold.
LEMMA HoldTagKeeps ==
    ASSUME TypeInv, NEW p \in Procs, HoldTag(p)
    PROVE  TypeInv'
  <1>1. hold \in [Seats -> Key] /\ booked \subseteq Seats /\ told \subseteq Bookings
    BY DEF TypeInv, TypeOK
  <1>2. InLoop(task[p]) /\ task[p].b # None /\ task[p].b \in Bookings
    BY TasksAreGood DEF HoldTag, At, InLoop, Good, TaskFits, Placed, Task
  <1>3. Good(Loop(p, "tag", Finished(p)))
    BY <1>2, LoopIsGood, FinishedIsGood DEF Loop
  <1>4. hold' \in [Seats -> Key] /\ told' \subseteq Bookings
    BY <1>1, <1>2, TimeAssumption DEF HoldTag, Key
  <1>. QED BY <1>1, <1>3, <1>4, OneTaskMoves DEF HoldTag

\* Confirm up to its last DEL.
LEMMA ConfirmKeeps ==
    ASSUME TypeInv, NEW p \in Procs, ConfirmSAdd(p) \/ ConfirmUnlock(p)
    PROVE  TypeInv'
  <1>1. /\ task[p] \in Task /\ TaskFits(task[p])
        /\ InLoop(task[p]) => task[p].i <= Len(task[p].seats)
    BY TasksAreGood DEF Good
  <1>2. hold \in [Seats -> Key] /\ booked \subseteq Seats /\ told \subseteq Bookings
    BY DEF TypeInv, TypeOK
  <1>3. InLoop(task[p]) /\ task[p].to = "CONFIRMED"
    BY <1>1 DEF ConfirmSAdd, ConfirmUnlock, At, InLoop, TaskFits, Placed
  <1>4. Seat(p) \in Seats
    BY <1>1, <1>3, ElementOfSeq DEF Seat, Task
  <1>5. CASE ConfirmSAdd(p)
    <2>1. Good(Goto(p, "unlock"))
      BY <1>3, GotoIsGood DEF PCs
    <2>. QED BY <1>2, <1>4, <1>5, <2>1, OneTaskMoves DEF ConfirmSAdd
  <1>6. CASE ConfirmUnlock(p)
    <2>1. Good(Loop(p, "sadd", Goto(p, "update")))
      BY <1>3, GotoIsGood, LoopIsGood DEF PCs, Loop, None
    <2>2. hold' \in [Seats -> Key]
      BY <1>2, <1>6, KeysAreKeys DEF ConfirmUnlock
    <2>. QED BY <1>2, <1>6, <2>1, <2>2, OneTaskMoves DEF ConfirmUnlock
  <1>. QED BY <1>5, <1>6

\* The calls that begin with a row of the table: a task made from booking b.
LEMMA FromRowIsGood ==
    ASSUME TypeInv, NEW b \in Bookings, rows[b].status # None,
           NEW pc \in {"sadd", "release"}, NEW to \in {"CONFIRMED", "CANCELLED", "EXPIRED"},
           pc = "sadd" => to = "CONFIRMED"
    PROVE  Good(Start(pc, rows[b].seats, b, to))
  <1>. DEFINE t == Start(pc, rows[b].seats, b, to)
  <1>1. t = [pc |-> pc, seats |-> rows[b].seats, i |-> 1, b |-> b, to |-> to,
             left |-> 0, batch |-> {}, age |-> 0, gone |-> FALSE]
    BY DEF Start
  <1>. HIDE DEF t
  <1>2. rows[b].seats \in Seq(Seats) /\ rows[b].seats # <<>>
    BY DEF TypeInv, TypeOK, Row, RowsHaveSeats
  <1>3. t \in Task
    BY <1>1, <1>2, TimeAssumption DEF Task, PCs, Status
  <1>4. TaskFits(t)
    <2>1. t.pc = pc /\ t.b = b /\ t.batch = {} /\ t.to = to
      BY <1>1
    <2>. QED BY <2>1, BookingsAssumption DEF TaskFits, Placed
  <1>5. 1 <= Len(t.seats) /\ t.i = 1
    BY <1>1, <1>2, EmptySeq
  <1>6. Good(t)
    BY <1>3, <1>4, <1>5 DEF Good
  <1>. QED BY <1>6 DEF t
\* Confirm and Cancel, when they have read their row.
LEMMA LoadKeeps ==
    ASSUME TypeInv, NEW p \in Procs, NEW b \in Bookings,
           ConfirmLoad(p, b) \/ CancelLoad(p, b)
    PROVE  TypeInv'
  <1>1. hold \in [Seats -> Key] /\ booked \subseteq Seats /\ told \subseteq Bookings
    BY DEF TypeInv, TypeOK
  <1>2. rows[b].status # None
    BY DEF ConfirmLoad, CancelLoad, None
  <1>3. Good(Start("sadd", rows[b].seats, b, "CONFIRMED"))
    BY <1>2, FromRowIsGood
  <1>4. Good(Start("release", rows[b].seats, b, "CANCELLED"))
    BY <1>2, FromRowIsGood
  <1>5. Good(Start("update", <<>>, b, "EXPIRED"))
    <2>. DEFINE t == Start("update", <<>>, b, "EXPIRED")
    <2>1. t = [pc |-> "update", seats |-> <<>>, i |-> 1, b |-> b, to |-> "EXPIRED",
               left |-> 0, batch |-> {}, age |-> 0, gone |-> FALSE]
      BY DEF Start
    <2>. HIDE DEF t
    <2>2. t \in Task
      BY <2>1, TimeAssumption DEF Task, PCs, Status
    <2>3. t.pc = "update" /\ t.b = b /\ t.batch = {} /\ t.to = "EXPIRED"
      BY <2>1
    <2>4. TaskFits(t) /\ ~InLoop(t)
      BY <1>2, <2>3, BookingsAssumption DEF TaskFits, Placed, InLoop, None
    <2>5. Good(t)
      BY <2>2, <2>4 DEF Good
    <2>. QED BY <2>5 DEF t
  <1>6. CASE ConfirmLoad(p, b)
    BY <1>1, <1>3, <1>5, <1>6, OneTaskMoves DEF ConfirmLoad
  <1>7. CASE CancelLoad(p, b)
    BY <1>1, <1>4, <1>7, OneTaskMoves DEF CancelLoad
  <1>. QED BY <1>6, <1>7

\* The CronJob takes its batch, and the next booking of it.
LEMMA CleanupKeeps ==
    ASSUME TypeInv, NEW p \in Procs, CleanupSelect(p) \/ CleanupNext(p)
    PROVE  TypeInv'
  <1>1. hold \in [Seats -> Key] /\ booked \subseteq Seats /\ told \subseteq Bookings
    BY DEF TypeInv, TypeOK
  <1>2. CASE CleanupSelect(p)
    <2>. DEFINE expired == {b \in Bookings : rows[b].status = "HOLD" /\ rows[b].left < 0}
    <2>1. expired \in SUBSET Bookings /\ \A b \in expired : rows[b].status # None
      BY DEF None
    <2>. HIDE DEF expired
    <2>. DEFINE t == [Idle EXCEPT !.pc = "next", !.batch = expired]
    <2>2. Idle \in Task /\ Idle.b = None /\ Idle.to = None
      BY IdleIsGood DEF Good, Idle, Start
    <2>3. t \in Task
      BY <2>1, <2>2 DEF Task, PCs
    <2>4. t.pc = "next" /\ t.b = None /\ t.to = None /\ t.batch = expired
      BY <2>2 DEF Task
    <2>5. Become(p, t) /\ UNCHANGED <<hold, booked, rows, told>>
      BY <1>2 DEF CleanupSelect, expired
    <2>. HIDE DEF t
    <2>6. Good(t)
      BY <2>1, <2>3, <2>4 DEF Good, TaskFits, Placed, InLoop
    <2>. QED BY <1>1, <2>5, <2>6, OneTaskMoves
  <1>3. CASE CleanupNext(p)
    <2>1. PICK b \in task[p].batch :
             Become(p, [Start("release", rows[b].seats, b, "EXPIRED")
                          EXCEPT !.batch = task[p].batch \ {b}, !.age = task[p].age])
      BY <1>3 DEF CleanupNext
    <2>2. task[p] \in Task /\ TaskFits(task[p])
      BY TasksAreGood DEF Good
    <2>3. b \in Bookings /\ rows[b].status # None
      BY <2>2 DEF Task, TaskFits, Placed
    <2>. DEFINE s == Start("release", rows[b].seats, b, "EXPIRED")
                t == [s EXCEPT !.batch = task[p].batch \ {b}, !.age = task[p].age]
    <2>4. Good(s)
      BY <2>3, FromRowIsGood
    <2>5. s.pc = "release" /\ s.b = b
      BY DEF Start
    <2>6. Become(p, t) /\ UNCHANGED <<hold, booked, rows, told>>
      BY <1>3, <2>1 DEF CleanupNext
    <2>. HIDE DEF s
    <2>7. s \in Task /\ s.i <= Len(s.seats)
      BY <2>4, <2>5 DEF Good, InLoop
    <2>8. t \in Task
      BY <2>2, <2>7 DEF Task
    <2>9. /\ t.pc = "release" /\ t.b = b /\ t.batch = task[p].batch \ {b}
          /\ t.i = s.i /\ t.seats = s.seats
      BY <2>5, <2>7 DEF Task
    <2>. HIDE DEF t
    <2>10. TaskFits(t) /\ t.i <= Len(t.seats)
      BY <2>2, <2>3, <2>7, <2>9, BookingsAssumption DEF TaskFits, Placed
    <2>11. Good(t)
      BY <2>8, <2>10 DEF Good
    <2>. QED BY <1>1, <2>6, <2>11, OneTaskMoves
  <1>. QED BY <1>2, <1>3

\* The DEL loops.
LEMMA ReleaseKeeps ==
    ASSUME TypeInv, NEW p \in Procs, Release(p)
    PROVE  TypeInv'
  <1>1. hold \in [Seats -> Key] /\ booked \subseteq Seats /\ told \subseteq Bookings
    BY DEF TypeInv, TypeOK
  <1>2. InLoop(task[p])
    BY DEF Release, At, InLoop
  <1>3. Good(Finished(p)) /\ (task[p].to # None => Good(Goto(p, "update")))
    BY <1>2, FinishedIsGood, GotoIsGood DEF PCs
  <1>4. Good(Loop(p, "release", IF task[p].to = None THEN Finished(p) ELSE Goto(p, "update")))
    BY <1>2, <1>3, LoopIsGood DEF Loop
  <1>5. hold' \in [Seats -> Key]
    BY <1>1, KeysAreKeys DEF Release
  <1>. QED BY <1>1, <1>4, <1>5, OneTaskMoves DEF Release

\* A pod dies, or a client leaves.
LEMMA LossKeeps ==
    ASSUME TypeInv, NEW p \in Procs, Crash(p) \/ ClientLeaves(p)
    PROVE  TypeInv'
  <1>1. hold \in [Seats -> Key] /\ booked \subseteq Seats /\ told \subseteq Bookings
    BY DEF TypeInv, TypeOK
  <1>2. CASE Crash(p)
    BY <1>1, <1>2, IdleIsGood, OneTaskMoves DEF Crash
  <1>3. CASE ClientLeaves(p)
    <2>. DEFINE t == [task[p] EXCEPT !.gone = TRUE]
    <2>1. /\ task[p] \in Task /\ TaskFits(task[p])
          /\ InLoop(task[p]) => task[p].i <= Len(task[p].seats)
      BY TasksAreGood DEF Good
    <2>2. t \in Task
      BY <2>1 DEF Task
    <2>3. /\ t.pc = task[p].pc /\ t.b = task[p].b /\ t.batch = task[p].batch
          /\ t.i = task[p].i /\ t.seats = task[p].seats /\ t.to = task[p].to
      BY <2>1 DEF Task
    <2>4. Become(p, t) /\ UNCHANGED <<hold, booked, rows, told>>
      BY <1>3 DEF ClientLeaves
    <2>. HIDE DEF t
    <2>5. TaskFits(t) /\ (InLoop(t) => t.i <= Len(t.seats))
      BY <2>1, <2>3 DEF TaskFits, Placed, InLoop
    <2>. QED BY <1>1, <2>2, <2>4, <2>5, OneTaskMoves DEF Good
  <1>. QED BY <1>2, <1>3

\* A step that changes the table, without taking a row out of it, and one task.
LEMMA RowAndTaskMove ==
    ASSUME TypeInv, NEW p \in Procs, NEW t \in Task, Become(p, t),
           InLoop(t) => t.i <= Len(t.seats), Placed(t),
           t.b # None => rows'[t.b].status # None,
           \A c \in t.batch : rows'[c].status # None,
           rows' \in [Bookings -> Row],
           \A b \in Bookings : /\ rows[b].status # None => rows'[b].status # None
                               /\ rows'[b].status # None => rows'[b].seats # <<>>,
           UNCHANGED <<hold, booked, told>>
    PROVE  TypeInv'
  <1>1. /\ task \in [Procs -> Task]
        /\ \A q \in Procs : task'[q] = IF q = p THEN t ELSE task[q]
    BY DEF TypeInv, TypeOK, Become
  <1>2. task' \in [Procs -> Task]
    BY <1>1 DEF Become
  <1>3. \A q \in Procs : task[q] \in Task /\ (InLoop(task[q]) => task[q].i <= Len(task[q].seats))
                         /\ TaskFits(task[q])
    BY TasksAreGood DEF Good
  <1>4. \A q \in Procs : InLoop(task'[q]) => task'[q].i <= Len(task'[q].seats)
    BY <1>1, <1>3
  <1>5. TypeOK'
    BY <1>2, <1>4 DEF TypeInv, TypeOK, InLoop
  <1>6. RowsHaveSeats'
    BY DEF RowsHaveSeats
  <1>7. ASSUME NEW q \in Procs PROVE TaskFits(task[q])'
    <2>1. /\ task[q].b # None => rows'[task[q].b].status # None
          /\ \A c \in task[q].batch : rows'[c].status # None
      BY <1>3 DEF TaskFits, Task
    <2>2. Placed(task'[q])
      BY <1>1, <1>3 DEF TaskFits
    <2>3. /\ task'[q].b # None => rows'[task'[q].b].status # None
          /\ \A c \in task'[q].batch : rows'[c].status # None
      BY <1>1, <2>1
    <2>. QED BY <2>2, <2>3 DEF TaskFits, Placed
  <1>. QED BY <1>5, <1>6, <1>7 DEF TypeInv

\* The INSERT of a Hold.
LEMMA HoldInsertKeeps ==
    ASSUME TypeInv, NEW p \in Procs, HoldInsert(p)
    PROVE  TypeInv'
  <1>1. /\ task[p] \in Task /\ TaskFits(task[p]) /\ task[p].pc = "insert"
        /\ task[p].seats \in Seq(Seats) /\ task[p].seats # <<>>
    BY TasksAreGood DEF Good, HoldInsert, At, TaskFits, Placed, Task
  <1>2. hold \in [Seats -> Key] /\ booked \subseteq Seats /\ told \subseteq Bookings
    BY DEF TypeInv, TypeOK
  <1>3. /\ rows \in [Bookings -> Row]
        /\ \A b \in Bookings : rows[b].status # None => rows[b].seats # <<>>
    BY DEF TypeInv, TypeOK, RowsHaveSeats
  <1>. DEFINE r == Rollback(p, Len(task[p].seats))
  <1>4. Good(r)
    BY <1>1, RollbackIsGood
  <1>5. CASE Become(p, r) /\ rows' = rows
    BY <1>2, <1>4, <1>5, OneTaskMoves DEF HoldInsert
  <1>6. ASSUME NEW b \in Bookings, rows[b] = NoRow,
               rows' = [rows EXCEPT ![b] = [status |-> "HOLD", seats |-> task[p].seats,
                                            left |-> task[p].left]]
        PROVE  /\ rows' \in [Bookings -> Row]
               /\ rows'[b].status = "HOLD" /\ rows'[b].status # None
               /\ \A c \in Bookings : /\ rows[c].status # None => rows'[c].status # None
                                      /\ rows'[c].status # None => rows'[c].seats # <<>>
    <2>1. [status |-> "HOLD", seats |-> task[p].seats, left |-> task[p].left] \in Row
      BY <1>1 DEF Row, Task, Status
    <2>2. rows' \in [Bookings -> Row]
      BY <1>3, <1>6, <2>1
    <2>3. \A c \in Bookings : rows'[c] = IF c = b
             THEN [status |-> "HOLD", seats |-> task[p].seats, left |-> task[p].left]
             ELSE rows[c]
      BY <1>3, <1>6
    <2>4. rows'[b].status = "HOLD" /\ rows'[b].seats = task[p].seats
      BY <2>3
    <2>. QED BY <1>1, <1>3, <2>2, <2>3, <2>4 DEF None
  <1>7. ASSUME NEW b \in Bookings, rows[b] = NoRow,
               rows' = [rows EXCEPT ![b] = [status |-> "HOLD", seats |-> task[p].seats,
                                            left |-> task[p].left]],
               Become(p, [Start("tag", task[p].seats, b, None) EXCEPT !.age = task[p].age])
        PROVE  TypeInv'
    <2>. DEFINE s == Start("tag", task[p].seats, b, None)
                t == [s EXCEPT !.age = task[p].age]
    <2>1. s = [pc |-> "tag", seats |-> task[p].seats, i |-> 1, b |-> b, to |-> None,
               left |-> 0, batch |-> {}, age |-> 0, gone |-> FALSE]
      BY DEF Start
    <2>2. Become(p, t)
      BY <1>7
    <2>. HIDE DEF s
    <2>3. s \in Task
      BY <1>1, <2>1, TimeAssumption DEF Task, PCs
    <2>4. t \in Task
      BY <1>1, <2>3 DEF Task
    <2>5. /\ t.pc = "tag" /\ t.seats = task[p].seats /\ t.i = 1 /\ t.b = b
          /\ t.to = None /\ t.batch = {}
      BY <2>1
    <2>. HIDE DEF t
    <2>6. t.i <= Len(t.seats)
      BY <1>1, <2>5, EmptySeq
    <2>7. Placed(t)
      BY <2>5, BookingsAssumption DEF Placed
    <2>8. UNCHANGED <<hold, booked, told>>
      BY DEF HoldInsert
    <2>. QED BY <1>6, <1>7, <2>2, <2>4, <2>5, <2>6, <2>7, <2>8, RowAndTaskMove
  <1>8. ASSUME NEW b \in Bookings, rows[b] = NoRow,
               rows' = [rows EXCEPT ![b] = [status |-> "HOLD", seats |-> task[p].seats,
                                            left |-> task[p].left]],
               Become(p, r)
        PROVE  TypeInv'
    <2>. HIDE DEF r
    <2>1. /\ r \in Task /\ Placed(r) /\ (InLoop(r) => r.i <= Len(r.seats))
          /\ r.b # None => rows[r.b].status # None
          /\ \A c \in r.batch : rows[c].status # None
      BY <1>4 DEF Good, TaskFits
    <2>2. /\ r.b # None => rows'[r.b].status # None
          /\ \A c \in r.batch : rows'[c].status # None
      BY <1>6, <1>8, <2>1 DEF Task
    <2>3. UNCHANGED <<hold, booked, told>>
      BY DEF HoldInsert
    <2>. QED BY <1>6, <1>8, <2>1, <2>2, <2>3, RowAndTaskMove
  <1>. QED BY <1>5, <1>7, <1>8 DEF HoldInsert

\* The UPDATE at the end of Confirm, of Cancel and of the CronJob's loop.
LEMMA UpdateStatusKeeps ==
    ASSUME TypeInv, NEW p \in Procs, UpdateStatus(p)
    PROVE  TypeInv'
  <1>. DEFINE t == Finished(p)
  <1>1. /\ task[p] \in Task /\ TaskFits(task[p])
        /\ task[p].b \in Bookings /\ task[p].to \in Status
    BY TasksAreGood DEF Good, UpdateStatus, At, TaskFits, Placed, Task
  <1>2. hold \in [Seats -> Key] /\ booked \subseteq Seats /\ told \subseteq Bookings
    BY DEF TypeInv, TypeOK
  <1>3. /\ rows \in [Bookings -> Row]
        /\ \A b \in Bookings : rows[b].status # None => rows[b].seats # <<>>
    BY DEF TypeInv, TypeOK, RowsHaveSeats
  <1>4. Good(t)
    BY FinishedIsGood
  <1>. HIDE DEF t
  <1>5. Become(p, t) /\ UNCHANGED <<hold, booked, told>>
    BY DEF UpdateStatus, t
  <1>6. CASE rows' = rows
    BY <1>2, <1>4, <1>5, <1>6, OneTaskMoves
  <1>7. CASE rows' = [rows EXCEPT ![task[p].b].status = task[p].to]
    <2>1. /\ rows' \in [Bookings -> Row]
          /\ \A c \in Bookings : /\ rows'[c].seats = rows[c].seats
                                 /\ rows'[c].status = IF c = task[p].b THEN task[p].to
                                                      ELSE rows[c].status
      BY <1>1, <1>3, <1>7 DEF Row
    <2>2. rows[task[p].b].status # None /\ task[p].to # None
      BY <1>1, BookingsAssumption DEF TaskFits, Status, None
    <2>3. \A c \in Bookings : /\ rows[c].status # None => rows'[c].status # None
                              /\ rows'[c].status # None => rows'[c].seats # <<>>
      BY <1>3, <2>1, <2>2
    <2>4. /\ t \in Task /\ Placed(t) /\ (InLoop(t) => t.i <= Len(t.seats))
          /\ t.b # None => rows[t.b].status # None
          /\ \A c \in t.batch : rows[c].status # None
      BY <1>4 DEF Good, TaskFits
    <2>5. /\ t.b # None => rows'[t.b].status # None
          /\ \A c \in t.batch : rows'[c].status # None
      BY <2>3, <2>4 DEF Task
    <2>. QED BY <1>5, <2>1, <2>3, <2>4, <2>5, RowAndTaskMove
  <1>. QED BY <1>6, <1>7 DEF UpdateStatus

\* Redis starts again, empty.
LEMMA RedisRestartKeeps ==
    ASSUME TypeInv, RedisRestart
    PROVE  TypeInv'
  <1>1. hold' \in [Seats -> Key] /\ booked' \subseteq Seats
    BY KeysAreKeys DEF RedisRestart
  <1>2. UNCHANGED <<rows, told, task>>
    BY DEF RedisRestart
  <1>. QED BY <1>1, <1>2
    DEF TypeInv, TypeOK, RowsHaveSeats, TaskFits, Placed

\* What the clock does to the table and to the tasks: only left and age change.
LEMMA TickAges ==
    ASSUME TypeInv, Tick
    PROVE  /\ rows' \in [Bookings -> Row]
           /\ \A b \in Bookings : /\ rows'[b].status = rows[b].status
                                  /\ rows'[b].seats = rows[b].seats
           /\ \A p \in Procs :
                 /\ task'[p] \in Task
                 /\ task'[p].pc = task[p].pc /\ task'[p].seats = task[p].seats
                 /\ task'[p].i = task[p].i /\ task'[p].b = task[p].b
                 /\ task'[p].to = task[p].to /\ task'[p].batch = task[p].batch
                 /\ task'[p].gone = task[p].gone
  <1>1. \A x \in -1 .. TTL : Elapse(x) \in -1 .. TTL
    BY TimeAssumption DEF Elapse
  <1>2. rows' \in [Bookings -> Row]
    <2>1. ASSUME NEW b \in Bookings PROVE rows'[b] \in Row
      <3>1. rows[b] \in Row
        BY DEF TypeInv, TypeOK
      <3>2. rows'[b] = [rows[b] EXCEPT !.left = Elapse(@)]
        BY DEF Tick
      <3>3. Elapse(rows[b].left) \in -1 .. TTL
        BY <1>1, <3>1 DEF Row
      <3>. QED BY <3>1, <3>2, <3>3 DEF Row
    <2>. QED BY <2>1 DEF Tick
  <1>3. \A b \in Bookings : rows'[b].status = rows[b].status /\ rows'[b].seats = rows[b].seats
    <2>1. ASSUME NEW b \in Bookings
          PROVE  rows'[b].status = rows[b].status /\ rows'[b].seats = rows[b].seats
      <3>1. rows[b] \in Row
        BY DEF TypeInv, TypeOK
      <3>2. rows'[b] = [rows[b] EXCEPT !.left = Elapse(@)]
        BY DEF Tick
      <3>. QED BY <3>1, <3>2 DEF Row
    <2>. QED BY <2>1
  <1>4. ASSUME NEW p \in Procs
        PROVE  /\ task'[p] \in Task
               /\ task'[p].pc = task[p].pc /\ task'[p].seats = task[p].seats
               /\ task'[p].i = task[p].i /\ task'[p].b = task[p].b
               /\ task'[p].to = task[p].to /\ task'[p].batch = task[p].batch
               /\ task'[p].gone = task[p].gone
    <2>1. task[p] \in Task
      BY TasksAreGood DEF Good
    <2>2. CASE At(p, "idle")
      BY <2>1, <2>2 DEF Tick
    <2>3. CASE ~At(p, "idle")
      <3>. DEFINE o == Older(p)
      <3>1. o \in Task
        <4>1. (IF task[p].age < MaxDelay THEN task[p].age + 1 ELSE task[p].age) \in 0 .. MaxDelay
          BY <2>1, TimeAssumption DEF Task
        <4>. QED BY <2>1, <4>1 DEF Older, Task
      <3>2. /\ o.pc = task[p].pc /\ o.seats = task[p].seats /\ o.i = task[p].i
            /\ o.b = task[p].b /\ o.to = task[p].to /\ o.batch = task[p].batch
            /\ o.gone = task[p].gone /\ o.left = task[p].left
        BY <2>1 DEF Older, Task
      <3>3. task'[p] = [o EXCEPT !.left = IF At(p, "insert") THEN Elapse(@) ELSE @]
        BY <2>3 DEF Tick
      <3>. HIDE DEF o
      <3>4. (IF At(p, "insert") THEN Elapse(o.left) ELSE o.left) \in -1 .. TTL
        BY <1>1, <2>1, <3>2 DEF Task
      <3>. QED BY <3>1, <3>2, <3>3, <3>4 DEF Task
    <2>. QED BY <2>2, <2>3
  <1>. QED BY <1>2, <1>3, <1>4

\* The clock advances.
LEMMA TickKeeps ==
    ASSUME TypeInv, Tick
    PROVE  TypeInv'
  <1>1. hold' \in [Seats -> Key]
    <2>1. ASSUME NEW s \in Seats PROVE hold'[s] \in Key
      <3>1. hold[s] \in Key
        BY DEF TypeInv, TypeOK
      <3>2. CASE hold[s].ttl = 0
        BY <3>2, KeysAreKeys DEF Tick
      <3>3. CASE hold[s].ttl # 0
        <4>1. hold'[s] = [hold[s] EXCEPT !.ttl = @ - 1]
          BY <3>3 DEF Tick
        <4>2. hold[s].ttl - 1 \in 0 .. TTL
          BY <3>1, <3>3, TimeAssumption DEF Key
        <4>. QED BY <3>1, <4>1, <4>2 DEF Key
      <3>. QED BY <3>2, <3>3
    <2>. QED BY <2>1 DEF Tick
  <1>2. TypeOK'
    <2>1. task' \in [Procs -> Task]
      BY TickAges DEF Tick
    <2>2. \A p \in Procs : InLoop(task'[p]) => task'[p].i <= Len(task'[p].seats)
      BY TickAges, TasksAreGood DEF Good, InLoop
    <2>3. booked' \subseteq Seats /\ told' \subseteq Bookings
      BY DEF TypeInv, TypeOK, Tick
    <2>. QED BY <1>1, TickAges, <2>1, <2>2, <2>3 DEF TypeOK, InLoop
  <1>3. RowsHaveSeats'
    BY TickAges DEF TypeInv, RowsHaveSeats
  <1>4. ASSUME NEW p \in Procs PROVE TaskFits(task[p])'
    <2>1. task[p] \in Task /\ TaskFits(task[p])
      BY TasksAreGood DEF Good
    <2>2. Placed(task'[p])
      BY TickAges, <2>1 DEF TaskFits, Placed
    <2>3. /\ task'[p].b # None => rows'[task'[p].b].status # None
          /\ \A c \in task'[p].batch : rows'[c].status # None
      BY TickAges, <2>1 DEF TaskFits, Task
    <2>. QED BY <2>2, <2>3 DEF TaskFits, Placed
  <1>. QED BY <1>2, <1>3, <1>4 DEF TypeInv

\* TypeInv is inductive.
LEMMA TypeInvIsInductive == TypeInv /\ [Next]_vars => TypeInv'
  <1>. SUFFICES ASSUME TypeInv, [Next]_vars PROVE TypeInv'
    OBVIOUS
  <1>. USE DEF Procs
  <1>1. ASSUME NEW p \in Workers, ClientStep(p) PROVE TypeInv'
    BY <1>1, HoldBeginKeeps, LoadKeeps, LossKeeps DEF ClientStep
  <1>2. ASSUME NEW p \in Workers, HandlerStep(p) PROVE TypeInv'
    BY <1>2, HoldLoopKeeps, HoldInsertKeeps, HoldTagKeeps, ConfirmKeeps DEF HandlerStep
  <1>3. ASSUME NEW p \in Jobs, JobStep(p) PROVE TypeInv'
    BY <1>3, CleanupKeeps DEF JobStep
  <1>4. ASSUME NEW p \in Procs, Release(p) \/ UpdateStatus(p) \/ Crash(p) PROVE TypeInv'
    BY <1>4, ReleaseKeeps, UpdateStatusKeeps, LossKeeps
  <1>5. CASE UNCHANGED vars
    BY <1>5 DEF vars, TypeInv, TypeOK, RowsHaveSeats, TaskFits, Placed
  <1>. QED BY <1>1, <1>2, <1>3, <1>4, <1>5, RedisRestartKeeps, TickKeeps DEF Next

\* It holds to begin with.
LEMMA TypeInvInitially == Init => TypeInv
  <1>. SUFFICES ASSUME Init PROVE TypeInv
    OBVIOUS
  <1>1. \A p \in Procs : Good(task[p])
    BY IdleIsGood DEF Init
  <1>2. NoRow \in Row /\ NoRow.status = None
    BY TimeAssumption DEF NoRow, Row
  <1>3. TypeOK
    BY <1>1, <1>2, KeysAreKeys DEF Init, TypeOK, Good, InLoop
  <1>4. RowsHaveSeats
    BY <1>2 DEF Init, RowsHaveSeats
  <1>. QED BY <1>1, <1>3, <1>4 DEF TypeInv, Good

\* Every variable keeps to its type and no loop leaves its list of seats,
\* whatever the environment does.
THEOREM TypeCorrect == Spec => []TypeOK
  <1>1. TypeInv => TypeOK
    BY DEF TypeInv
  <1>. QED BY <1>1, TypeInvInitially, TypeInvIsInductive, PTL DEF Spec
-----------------------------------------------------------------------------
(* The seats of CONFIRMED bookings.  The argument: SADD is only ever followed by
   steps that keep the seat in the set, so the seats a Confirm is past stay sold
   until it stores CONFIRMED.  What remains to show of a step is that it takes
   nothing out of the set, leaves the seats of a booking alone, and moves a
   Confirm only when the SADD before it has been carried out. *)

NoRedisFaults == {"redisFault", "redisRestart"} \cap Env = {}

\* A Confirm goes on with its work, and whatever it had sold is still sold.
LEMMA ConfirmStaysFit ==
    ASSUME SoldInv, NEW q \in Procs, booked \subseteq booked',
           \A b \in Bookings : rows[b].status # None => rows'[b].seats = rows[b].seats,
           task'[q].pc = task[q].pc, task'[q].seats = task[q].seats,
           task'[q].i = task[q].i, task'[q].b = task[q].b, task'[q].to = task[q].to,
           task[q].gone => task'[q].gone
    PROVE  ConfirmFits(task[q])'
  <1>1. ConfirmFits(task[q]) /\ TaskFits(task[q]) /\ task[q].gone \in BOOLEAN
    BY TasksAreGood DEF SoldInv, Good, Task
  <1>2. task[q].to = "CONFIRMED" => rows'[task[q].b].seats = rows[task[q].b].seats
    BY <1>1, BookingsAssumption DEF ConfirmFits, TaskFits
  <1>. QED BY <1>1, <1>2 DEF ConfirmFits

\* A step that sells what it must and moves each task as the argument asks.
LEMMA SoldInvStep ==
    ASSUME SoldInv, TypeInv', booked \subseteq booked',
           \A b \in Bookings : rows[b].status # None => rows'[b].seats = rows[b].seats,
           \A b \in Bookings : rows'[b].status = "CONFIRMED" =>
               rows[b].status = "CONFIRMED" \/ Range(rows'[b].seats) \subseteq booked',
           \A q \in Procs : task'[q] = task[q] \/ ConfirmFits(task[q])'
    PROVE  SoldInv'
  <1>1. ConfirmedSeatsAreSold'
    <2>1. ASSUME NEW b \in Bookings, rows'[b].status = "CONFIRMED"
          PROVE  Range(rows'[b].seats) \subseteq booked'
      <3>1. CASE rows[b].status = "CONFIRMED"
        <4>1. Range(rows[b].seats) \subseteq booked
          BY <3>1 DEF SoldInv, ConfirmedSeatsAreSold
        <4>2. rows'[b].seats = rows[b].seats
          BY <3>1 DEF None
        <4>. QED BY <4>1, <4>2
      <3>. QED BY <2>1, <3>1
    <2>. QED BY <2>1 DEF ConfirmedSeatsAreSold
  <1>2. \A q \in Procs : ConfirmFits(task[q])'
    BY ConfirmStaysFit
  <1>. QED BY <1>1, <1>2 DEF SoldInv

\* A step of a handler that is not in a Confirm: it touches neither the table
\* nor the set.
LEMMA OtherTaskMoves ==
    ASSUME SoldInv, TypeInv', NEW p \in Procs, NEW t, Become(p, t),
           t.to # "CONFIRMED", UNCHANGED <<booked, rows>>
    PROVE  SoldInv'
  <1>1. \A q \in Procs : task'[q] = IF q = p THEN t ELSE task[q]
    BY DEF SoldInv, TypeInv, TypeOK, Become
  <1>2. \A q \in Procs : task'[q] = task[q] \/ ConfirmFits(task[q])'
    BY <1>1 DEF ConfirmFits
  <1>. QED BY <1>2, SoldInvStep

\* Outside the loop and the UPDATE of Confirm no task has CONFIRMED to store.
LEMMA ToElsewhere ==
    ASSUME SoldInv, NEW p \in Procs, task[p].pc \notin {"sadd", "unlock", "update"}
    PROVE  task[p].to # "CONFIRMED"
  BY DEF SoldInv, ConfirmFits

\* Moving within a request keeps the status it will store.
LEMMA ToIsKept ==
    ASSUME TypeInv, NEW p \in Procs, NEW pc
    PROVE  /\ Goto(p, pc).to = task[p].to
           /\ [Goto(p, pc) EXCEPT !.i = @ + 1].to = task[p].to
           /\ [Goto(p, pc) EXCEPT !.left = TTL].to = task[p].to
  <1>1. task[p] \in Task
    BY TasksAreGood DEF Good
  <1>2. Goto(p, pc) = [pc |-> pc, seats |-> task[p].seats, i |-> task[p].i,
             b |-> task[p].b, to |-> task[p].to, left |-> task[p].left,
             batch |-> task[p].batch, age |-> task[p].age, gone |-> task[p].gone]
    BY <1>1 DEF Task, Goto
  <1>. QED BY <1>2

\* Hold, the CronJob's selection, the DEL loops and a pod's death.
LEMMA OthersKeepSold ==
    ASSUME SoldInv, TypeInv', NEW p \in Procs,
           \/ HoldCheck(p) \/ HoldSetNX(p) \/ HoldStamp(p) \/ HoldTag(p)
           \/ CleanupSelect(p) \/ Release(p) \/ Crash(p)
    PROVE  SoldInv'
  <1>1. TypeInv
    BY DEF SoldInv
  <1>2. task[p].pc \in {"check", "setnx", "stamp", "tag", "release"} => task[p].to # "CONFIRMED"
    BY ToElsewhere
  <1>3. Finished(p).to # "CONFIRMED" /\ Idle.to # "CONFIRMED"
    BY <1>1, FinishedIsGood DEF None, Idle, Start
  <1>4. HoldCheck(p) \/ HoldSetNX(p) => SoldInv'
    <2>. SUFFICES ASSUME HoldCheck(p) \/ HoldSetNX(p) PROVE SoldInv'
      OBVIOUS
    <2>1. task[p].i - 1 \in 0 .. Len(task[p].seats) /\ task[p].to # "CONFIRMED"
      BY <1>1, <1>2, TasksAreGood DEF HoldCheck, HoldSetNX, At, InLoop, Good, Task
    <2>2. Rollback(p, task[p].i - 1).to # "CONFIRMED"
      BY <1>1, <2>1, RollbackIsGood DEF None
    <2>3. /\ Goto(p, "setnx").to # "CONFIRMED"
          /\ Loop(p, "check", Goto(p, "stamp")).to # "CONFIRMED"
      BY <1>1, <2>1, ToIsKept DEF Loop
    <2>. QED BY <2>2, <2>3, OtherTaskMoves DEF HoldCheck, HoldSetNX
  <1>5. HoldStamp(p) => SoldInv'
    <2>1. [Goto(p, "insert") EXCEPT !.left = TTL].to = task[p].to
      BY <1>1, ToIsKept
    <2>. QED BY <1>2, <2>1, OtherTaskMoves DEF HoldStamp, At
  <1>6. HoldTag(p) => SoldInv'
    <2>1. task[p].to # "CONFIRMED" => Loop(p, "tag", Finished(p)).to # "CONFIRMED"
      BY <1>1, <1>3, ToIsKept DEF Loop
    <2>. QED BY <1>2, <2>1, OtherTaskMoves DEF HoldTag, At
  <1>7. CleanupSelect(p) => SoldInv'
    <2>. DEFINE expired == {c \in Bookings : rows[c].status = "HOLD" /\ rows[c].left < 0}
    <2>. HIDE DEF expired
    <2>1. [Idle EXCEPT !.pc = "next", !.batch = expired].to # "CONFIRMED"
      BY DEF Idle, Start, None
    <2>2. CleanupSelect(p) => /\ Become(p, [Idle EXCEPT !.pc = "next", !.batch = expired])
                              /\ UNCHANGED <<booked, rows>>
      BY DEF CleanupSelect, expired
    <2>. QED BY <2>1, <2>2, OtherTaskMoves
  <1>8. Release(p) => SoldInv'
    <2>. DEFINE done == IF task[p].to = None THEN Finished(p) ELSE Goto(p, "update")
    <2>1. task[p].to # "CONFIRMED" => Loop(p, "release", done).to # "CONFIRMED"
      BY <1>1, <1>3, ToIsKept DEF Loop
    <2>. QED BY <1>2, <2>1, OtherTaskMoves DEF Release, At
  <1>9. Crash(p) => SoldInv'
    BY <1>3, OtherTaskMoves DEF Crash
  <1>. QED BY <1>4, <1>5, <1>6, <1>7, <1>8, <1>9

\* Confirm reads its row.
LEMMA ConfirmLoadKeepsSold ==
    ASSUME SoldInv, TypeInv', NEW p \in Procs, NEW b \in Bookings, ConfirmLoad(p, b)
    PROVE  SoldInv'
  <1>. DEFINE t == Start("sadd", rows[b].seats, b, "CONFIRMED")
  <1>1. CASE Become(p, Start("update", <<>>, b, "EXPIRED"))
    <2>1. Start("update", <<>>, b, "EXPIRED").to # "CONFIRMED"
      BY DEF Start
    <2>. QED BY <1>1, <2>1, OtherTaskMoves DEF ConfirmLoad
  <1>2. CASE Become(p, t)
    <2>1. /\ t.pc = "sadd" /\ t.seats = rows[b].seats /\ t.i = 1 /\ t.b = b
      BY DEF Start
    <2>. HIDE DEF t
    <2>2. \A q \in Procs : task'[q] = IF q = p THEN t ELSE task[q]
      BY <1>2 DEF SoldInv, TypeInv, TypeOK, Become
    <2>3. rows' = rows /\ booked' = booked
      BY DEF ConfirmLoad
    <2>4. ConfirmFits(task[p])'
      BY <2>1, <2>2, <2>3 DEF ConfirmFits
    <2>. QED BY <2>2, <2>3, <2>4, SoldInvStep
  <1>. QED BY <1>1, <1>2 DEF ConfirmLoad

\* Its loop: the seat it has just added, or has added and unlocked, is sold.
LEMMA ConfirmKeepsSold ==
    ASSUME NoRedisFaults, SoldInv, TypeInv', NEW p \in Procs,
           ConfirmSAdd(p) \/ ConfirmUnlock(p)
    PROVE  SoldInv'
  <1>1. /\ task[p] \in Task /\ task[p].i <= Len(task[p].seats)
        /\ task[p].to = "CONFIRMED" /\ task[p].b \in Bookings
        /\ task[p].seats = rows[task[p].b].seats
    BY TasksAreGood
    DEF SoldInv, ConfirmSAdd, ConfirmUnlock, At, Good, InLoop, TaskFits, Placed, ConfirmFits
  <1>2. /\ task[p].seats \in Seq(Seats) /\ task[p].i \in Nat \ {0}
        /\ Len(task[p].seats) \in Nat /\ task[p].gone \in BOOLEAN
    BY <1>1 DEF Task
  <1>3. \A k \in 1 .. Len(task[p].seats) :
           ~task[p].gone /\ (k < task[p].i \/ (k = task[p].i /\ task[p].pc = "unlock"))
           => task[p].seats[k] \in booked
    BY <1>1 DEF SoldInv, ConfirmFits
  <1>4. \A t : Become(p, t) => \A q \in Procs : task'[q] = IF q = p THEN t ELSE task[q]
    BY DEF SoldInv, TypeInv, TypeOK, Become
  <1>5. \A pc : Goto(p, pc) = [pc |-> pc, seats |-> task[p].seats, i |-> task[p].i,
             b |-> task[p].b, to |-> task[p].to, left |-> task[p].left,
             batch |-> task[p].batch, age |-> task[p].age, gone |-> task[p].gone]
    BY <1>1 DEF Task, Goto
  <1>6. CASE ConfirmSAdd(p)
    <2>1. /\ rows' = rows /\ booked \subseteq booked'
          /\ ~task[p].gone => task[p].seats[task[p].i] \in booked'
      BY <1>6 DEF ConfirmSAdd, Fails, Sent, Seat, NoRedisFaults
    <2>2. /\ task'[p].pc = "unlock" /\ task'[p].seats = task[p].seats
          /\ task'[p].i = task[p].i /\ task'[p].b = task[p].b /\ task'[p].gone = task[p].gone
      BY <1>4, <1>5, <1>6 DEF ConfirmSAdd
    <2>3. ConfirmFits(task[p])'
      BY <1>1, <1>2, <1>3, <2>1, <2>2 DEF ConfirmFits
    <2>. QED BY <1>4, <1>6, <2>1, <2>3, SoldInvStep DEF ConfirmSAdd
  <1>7. CASE ConfirmUnlock(p)
    <2>1. rows' = rows /\ booked' = booked /\ task[p].pc = "unlock"
      BY <1>7 DEF ConfirmUnlock, At
    <2>2. task'[p] = IF AtLast(p) THEN Goto(p, "update") ELSE [Goto(p, "sadd") EXCEPT !.i = @ + 1]
      BY <1>4, <1>7 DEF ConfirmUnlock, Loop
    <2>3. /\ task'[p].pc = IF AtLast(p) THEN "update" ELSE "sadd"
          /\ task'[p].i = IF AtLast(p) THEN task[p].i ELSE task[p].i + 1
          /\ task'[p].seats = task[p].seats
          /\ task'[p].b = task[p].b /\ task'[p].gone = task[p].gone
      BY <1>5, <2>2
    <2>4. ConfirmFits(task[p])'
      <3>1. CASE AtLast(p)
        BY <1>1, <1>2, <1>3, <2>1, <2>3, <3>1 DEF ConfirmFits, AtLast
      <3>2. CASE ~AtLast(p)
        BY <1>1, <1>2, <1>3, <2>1, <2>3, <3>2 DEF ConfirmFits
      <3>. QED BY <3>1, <3>2
    <2>. QED BY <1>4, <1>7, <2>1, <2>4, SoldInvStep DEF ConfirmUnlock
  <1>. QED BY <1>6, <1>7

\* The INSERT makes a booking that is not CONFIRMED.
LEMMA HoldInsertKeepsSold ==
    ASSUME SoldInv, TypeInv', NEW p \in Procs, HoldInsert(p)
    PROVE  SoldInv'
  <1>1. TypeInv /\ task[p].to # "CONFIRMED"
    BY ToElsewhere DEF SoldInv, HoldInsert, At
  <1>2. rows \in [Bookings -> Row] /\ booked' = booked
    BY <1>1 DEF TypeInv, TypeOK, HoldInsert
  <1>3. /\ \A b \in Bookings : rows[b].status # None => rows'[b] = rows[b]
        /\ \A b \in Bookings : rows'[b].status = "CONFIRMED" => rows[b].status = "CONFIRMED"
    <2>1. CASE rows' = rows
      BY <2>1
    <2>2. ASSUME NEW c \in Bookings, rows[c] = NoRow,
                 rows' = [rows EXCEPT ![c] = [status |-> "HOLD", seats |-> task[p].seats,
                                              left |-> task[p].left]]
          PROVE  \A b \in Bookings :
                    /\ rows[b].status # None => rows'[b] = rows[b]
                    /\ rows'[b].status = "CONFIRMED" => rows[b].status = "CONFIRMED"
      <3>1. \A b \in Bookings : rows'[b] =
               IF b = c THEN [status |-> "HOLD", seats |-> task[p].seats, left |-> task[p].left]
               ELSE rows[b]
        BY <1>2, <2>2
      <3>2. rows[c].status = None /\ rows'[c].status = "HOLD"
        BY <2>2, <3>1 DEF NoRow
      <3>. QED BY <3>1, <3>2
    <2>. QED BY <2>1, <2>2 DEF HoldInsert
  <1>4. Rollback(p, Len(task[p].seats)).to # "CONFIRMED"
    BY <1>1, RollbackIsGood, TasksAreGood DEF None, Good, Task
  <1>5. \A b \in Bookings :
           [Start("tag", task[p].seats, b, None) EXCEPT !.age = task[p].age].to # "CONFIRMED"
    BY DEF Start, None
  <1>6. /\ \A q \in Procs : q # p => task'[q] = task[q]
        /\ task'[p].to # "CONFIRMED"
    BY <1>1, <1>4, <1>5 DEF TypeInv, TypeOK, HoldInsert, Become
  <1>7. \A q \in Procs : task'[q] = task[q] \/ ConfirmFits(task[q])'
    BY <1>6 DEF ConfirmFits
  <1>. QED BY <1>2, <1>3, <1>7, SoldInvStep

\* The UPDATE stores CONFIRMED only when every seat of the booking is sold.
LEMMA UpdateStatusKeepsSold ==
    ASSUME NoRedisFaults, SoldInv, TypeInv', NEW p \in Procs, UpdateStatus(p)
    PROVE  SoldInv'
  <1>1. TypeInv /\ TaskFits(task[p]) /\ task[p] \in Task
    BY TasksAreGood DEF SoldInv, Good
  <1>2. rows \in [Bookings -> Row] /\ booked' = booked /\ task[p].pc = "update"
    BY <1>1 DEF TypeInv, TypeOK, UpdateStatus, At
  <1>3. \A b \in Bookings : rows'[b].seats = rows[b].seats
    BY <1>2 DEF UpdateStatus, Row
  <1>4. ASSUME NEW b \in Bookings, rows'[b].status = "CONFIRMED", rows[b].status # "CONFIRMED"
        PROVE  Range(rows[b].seats) \subseteq booked
    <2>1. Sent(p) /\ rows' = [rows EXCEPT ![task[p].b].status = task[p].to]
      BY <1>4 DEF UpdateStatus
    <2>2. b = task[p].b /\ task[p].to = "CONFIRMED"
      BY <1>2, <1>4, <2>1 DEF Row
    <2>3. \A k \in 1 .. Len(rows[b].seats) : rows[b].seats[k] \in booked
      BY <1>2, <2>1, <2>2 DEF SoldInv, ConfirmFits, Sent
    <2>4. rows[b].seats \in Seq(Seats)
      BY <1>2 DEF Row
    <2>. QED BY <2>3, <2>4 DEF Range
  <1>5. /\ \A q \in Procs : q # p => task'[q] = task[q]
        /\ task'[p] = Finished(p)
    BY <1>1 DEF TypeInv, TypeOK, UpdateStatus, Become
  <1>6. Finished(p).to # "CONFIRMED"
    BY <1>1, FinishedIsGood DEF None
  <1>7. \A q \in Procs : task'[q] = task[q] \/ ConfirmFits(task[q])'
    BY <1>5, <1>6 DEF ConfirmFits
  <1>. QED BY <1>2, <1>3, <1>4, <1>7, SoldInvStep

\* The CronJob takes a booking: it will store EXPIRED.
LEMMA CleanupNextKeepsSold ==
    ASSUME SoldInv, TypeInv', NEW p \in Procs, CleanupNext(p)
    PROVE  SoldInv'
  <1>1. PICK b : Become(p, [Start("release", rows[b].seats, b, "EXPIRED")
                              EXCEPT !.batch = task[p].batch \ {b}, !.age = task[p].age])
    BY DEF CleanupNext
  <1>. DEFINE s == Start("release", rows[b].seats, b, "EXPIRED")
              t == [s EXCEPT !.batch = task[p].batch \ {b}, !.age = task[p].age]
  <1>2. t.to # "CONFIRMED"
    BY DEF Start
  <1>3. Become(p, t)
    BY <1>1
  <1>. HIDE DEF t
  <1>. QED BY <1>2, <1>3, OtherTaskMoves DEF CleanupNext

\* A client leaves: a Confirm that goes on can no longer store anything.
LEMMA ClientLeavesKeepsSold ==
    ASSUME SoldInv, TypeInv', NEW p \in Procs, ClientLeaves(p)
    PROVE  SoldInv'
  <1>1. task[p] \in Task /\ task \in [Procs -> Task]
    BY TasksAreGood DEF SoldInv, TypeInv, TypeOK, Good
  <1>2. /\ task'[p].pc = task[p].pc /\ task'[p].seats = task[p].seats
        /\ task'[p].i = task[p].i /\ task'[p].b = task[p].b /\ task'[p].to = task[p].to
        /\ task'[p].gone = TRUE
        /\ \A q \in Procs : q # p => task'[q] = task[q]
    BY <1>1 DEF ClientLeaves, Become, Task
  <1>3. booked' = booked /\ rows' = rows
    BY DEF ClientLeaves
  <1>4. ConfirmFits(task[p])'
    BY <1>2, <1>3, ConfirmStaysFit
  <1>. QED BY <1>2, <1>3, <1>4, SoldInvStep

\* Time passes: neither the table nor the set loses anything.
LEMMA TickKeepsSold ==
    ASSUME SoldInv, TypeInv', Tick
    PROVE  SoldInv'
  <1>1. TypeInv /\ booked' = booked
    BY DEF SoldInv, Tick
  <1>2. /\ \A b \in Bookings : /\ rows'[b].status = rows[b].status
                               /\ rows'[b].seats = rows[b].seats
        /\ \A q \in Procs : /\ task'[q].pc = task[q].pc /\ task'[q].seats = task[q].seats
                            /\ task'[q].i = task[q].i /\ task'[q].b = task[q].b
                            /\ task'[q].to = task[q].to /\ task'[q].gone = task[q].gone
    BY <1>1, TickAges
  <1>3. \A q \in Procs : ConfirmFits(task[q])'
    BY <1>1, <1>2, ConfirmStaysFit
  <1>. QED BY <1>1, <1>2, <1>3, SoldInvStep

\* SoldInv is inductive when Redis loses and refuses nothing.
LEMMA SoldInvIsInductive ==
    ASSUME NoRedisFaults
    PROVE  SoldInv /\ [Next]_vars => SoldInv'
  <1>. SUFFICES ASSUME SoldInv, [Next]_vars PROVE SoldInv'
    OBVIOUS
  <1>1. TypeInv'
    BY TypeInvIsInductive DEF SoldInv
  <1>. USE DEF Procs
  <1>2. ASSUME NEW p \in Workers, ClientStep(p) PROVE SoldInv'
    <2>1. ASSUME NEW seats \in Requests, HoldBegin(p, seats) PROVE SoldInv'
      <3>1. Start("check", seats, None, None).to # "CONFIRMED"
        BY DEF Start, None
      <3>. QED BY <1>1, <2>1, <3>1, OtherTaskMoves DEF HoldBegin
    <2>2. ASSUME NEW b \in Bookings, CancelLoad(p, b) PROVE SoldInv'
      <3>1. Start("release", rows[b].seats, b, "CANCELLED").to # "CONFIRMED"
        BY DEF Start
      <3>. QED BY <1>1, <2>2, <3>1, OtherTaskMoves DEF CancelLoad
    <2>. QED BY <1>1, <1>2, <2>1, <2>2, ConfirmLoadKeepsSold, ClientLeavesKeepsSold DEF ClientStep
  <1>3. ASSUME NEW p \in Workers, HandlerStep(p) PROVE SoldInv'
    BY <1>1, <1>3, OthersKeepSold, HoldInsertKeepsSold, ConfirmKeepsSold DEF HandlerStep
  <1>4. ASSUME NEW p \in Jobs, JobStep(p) PROVE SoldInv'
    BY <1>1, <1>4, OthersKeepSold, CleanupNextKeepsSold DEF JobStep
  <1>5. ASSUME NEW p \in Procs, Release(p) \/ UpdateStatus(p) \/ Crash(p) PROVE SoldInv'
    BY <1>1, <1>5, OthersKeepSold, UpdateStatusKeepsSold
  <1>6. ~RedisRestart
    BY DEF NoRedisFaults, RedisRestart
  <1>7. CASE UNCHANGED vars
    BY <1>1, <1>7, SoldInvStep DEF vars
  <1>. QED BY <1>1, <1>2, <1>3, <1>4, <1>5, <1>6, <1>7, TickKeepsSold DEF Next

\* Nothing is CONFIRMED to begin with.
LEMMA SoldInvInitially == Init => SoldInv
  <1>. SUFFICES ASSUME Init PROVE SoldInv
    OBVIOUS
  <1>1. ConfirmedSeatsAreSold
    BY DEF Init, ConfirmedSeatsAreSold, NoRow, None
  <1>2. \A p \in Procs : ConfirmFits(task[p])
    BY DEF Init, ConfirmFits, Idle, Start, None
  <1>. QED BY <1>1, <1>2, TypeInvInitially DEF SoldInv

\* The seats of a CONFIRMED booking are in the booked set, whatever crashes,
\* disconnected clients, Postgres errors, duplicate calls and overlapping
\* CronJobs do, as long as Redis itself refuses and forgets nothing.
THEOREM ConfirmedMeansSold ==
    ASSUME NoRedisFaults
    PROVE  Spec => []ConfirmedSeatsAreSold
  <1>1. SoldInv => ConfirmedSeatsAreSold
    BY DEF SoldInv
  <1>2. SoldInv /\ [Next]_vars => SoldInv'
    BY SoldInvIsInductive
  <1>. QED BY <1>1, <1>2, SoldInvInitially, PTL DEF Spec
-----------------------------------------------------------------------------
(* Outcomes are final.  The argument: the UPDATE has no condition on the status,
   so a handler must not find at the UPDATE another status than it read at the
   SELECT.  Two calls of clients never work on the same booking, and a CronJob
   only works on bookings past expires_at, which a call may neither confirm nor
   cancel; what both may store there is EXPIRED. *)

\* Clients make their calls one by one, and either there is no CronJob or no
\* handler is at work, or may begin to cancel, past the expiry of its booking.
OneDecider ==
    /\ "duplicate" \notin Env
    /\ Jobs = {} \/ {"slow", "lateCancel"} \cap Env = {}

\* When a CronJob may be about, expiry separates its bookings from those a call
\* may still confirm or cancel.
Resolvable(b) == rows[b].status \in {"HOLD", "EXPIRED"} /\ (Jobs = {} \/ rows[b].left < 0)

\* What a task will store does not change an outcome that is final.
Undecided(t) ==
    /\ t.to # None => t.pc # "idle" /\ t.to # "HOLD"
    /\ t.to \in {"CONFIRMED", "CANCELLED"} =>
          rows[t.b].status = "HOLD" /\ (Jobs = {} \/ rows[t.b].left >= 0)
    /\ t.to = "EXPIRED" => Resolvable(t.b)
    /\ \A c \in t.batch : Resolvable(c)

FinalInv ==
    /\ TypeInv
    /\ \A p \in Procs : Undecided(task[p])
    /\ \A p \in Workers : task[p].batch = {}
    /\ \A p \in Jobs : task[p].to \in {None, "EXPIRED"}
    /\ \A p, q \in Workers : p # q /\ task[p].b = task[q].b => task[p].b = None

\* A task further on in its request: the same seat or the next one.
Again(p, pc) == [Goto(p, pc) EXCEPT !.i = @ + 1]
Stamped(p)   == [Goto(p, "insert") EXCEPT !.left = TTL]

\* Moving within a request changes where it is, and nothing else.
SameWork(t, u) ==
    /\ t.seats = u.seats /\ t.b = u.b /\ t.to = u.to
    /\ t.batch = u.batch /\ t.age = u.age /\ t.gone = u.gone

LEMMA MovedTask ==
    ASSUME TypeInv, NEW p \in Procs
    PROVE  /\ \A pc : /\ SameWork(Goto(p, pc), task[p])
                      /\ Goto(p, pc).pc = pc /\ Goto(p, pc).i = task[p].i
                      /\ Goto(p, pc).left = task[p].left
           /\ \A pc : /\ SameWork(Again(p, pc), task[p])
                      /\ Again(p, pc).pc = pc /\ Again(p, pc).i = task[p].i + 1
                      /\ Again(p, pc).left = task[p].left
           /\ SameWork(Stamped(p), task[p])
           /\ Stamped(p).pc = "insert" /\ Stamped(p).i = task[p].i /\ Stamped(p).left = TTL
           /\ \A again, done : Loop(p, again, done) =
                 IF AtLast(p) THEN done ELSE Again(p, again)
  <1>1. task[p] \in Task
    BY TasksAreGood DEF Good
  <1>2. \A pc : Goto(p, pc) = [pc |-> pc, seats |-> task[p].seats, i |-> task[p].i,
             b |-> task[p].b, to |-> task[p].to, left |-> task[p].left,
             batch |-> task[p].batch, age |-> task[p].age, gone |-> task[p].gone]
    BY <1>1 DEF Task, Goto
  <1>3. \A pc : Again(p, pc) = [pc |-> pc, seats |-> task[p].seats, i |-> task[p].i + 1,
             b |-> task[p].b, to |-> task[p].to, left |-> task[p].left,
             batch |-> task[p].batch, age |-> task[p].age, gone |-> task[p].gone]
    BY <1>2 DEF Again
  <1>4. Stamped(p) = [pc |-> "insert", seats |-> task[p].seats, i |-> task[p].i,
             b |-> task[p].b, to |-> task[p].to, left |-> TTL,
             batch |-> task[p].batch, age |-> task[p].age, gone |-> task[p].gone]
    BY <1>2 DEF Stamped
  <1>5. \A again, done : Loop(p, again, done) = IF AtLast(p) THEN done ELSE Again(p, again)
    BY DEF Loop, Again
  <1>. QED BY <1>2, <1>3, <1>4, <1>5 DEF SameWork

\* The response and a rollback leave the booking behind.
LEMMA DoneTask ==
    ASSUME TypeInv, NEW p \in Procs, NEW n \in 0 .. Len(task[p].seats)
    PROVE  /\ Idle.b = None /\ Idle.to = None /\ Idle.batch = {}
           /\ Finished(p).b = None /\ Finished(p).to = None
           /\ Finished(p).batch = task[p].batch
           /\ Rollback(p, n).b = None /\ Rollback(p, n).to = None
           /\ Rollback(p, n).batch \in {{}, task[p].batch}
  <1>1. Idle.b = None /\ Idle.to = None /\ Idle.batch = {}
    BY DEF Idle, Start
  <1>2. /\ Finished(p).b = None /\ Finished(p).to = None
        /\ Finished(p).batch = task[p].batch
    BY DEF Finished, Idle, Start
  <1>3. /\ Rollback(p, n).b = None /\ Rollback(p, n).to = None
        /\ Rollback(p, n).batch \in {{}, task[p].batch}
    <2>1. CASE n = 0
      BY <1>2, <2>1 DEF Rollback
    <2>2. CASE n # 0
      BY <2>2 DEF Rollback, Idle, Start
    <2>. QED BY <2>1, <2>2
  <1>. QED BY <1>1, <1>2, <1>3

\* A step that leaves the table alone and gives one task a booking that no other
\* call works on, or none.
LEMMA OneTaskDecides ==
    ASSUME FinalInv, TypeInv', NEW p \in Procs, NEW t, Become(p, t), rows' = rows,
           Undecided(t),
           p \in Workers => t.batch = {},
           p \in Jobs => t.to \in {None, "EXPIRED"},
           p \in Workers /\ t.b # None => \A q \in Workers \ {p} : task[q].b # t.b
    PROVE  FinalInv'
  <1>1. \A q \in Procs : task'[q] = IF q = p THEN t ELSE task[q]
    BY DEF FinalInv, TypeInv, TypeOK, Become
  <1>2. \A q \in Procs : Undecided(task[q])'
    BY <1>1 DEF FinalInv, Undecided, Resolvable
  <1>. QED BY <1>1, <1>2 DEF FinalInv, Procs

\* The task goes on with the same booking, or with none, to store the same.
LEMMA OneTaskGoesOn ==
    ASSUME FinalInv, TypeInv', NEW p \in Procs, NEW t, Become(p, t), rows' = rows,
           t.batch \in {{}, task[p].batch},
           t.to # None => t.pc # "idle" /\ t.to = task[p].to /\ t.b = task[p].b,
           t.b \in {None, task[p].b}
    PROVE  FinalInv'
  <1>1. Undecided(t)
    BY DEF FinalInv, Undecided, Status, None
  <1>2. p \in Workers => t.batch = {}
    BY DEF FinalInv
  <1>3. p \in Workers /\ t.b # None => \A q \in Workers \ {p} : task[q].b # t.b
    BY DEF FinalInv
  <1>4. p \in Jobs => t.to \in {None, "EXPIRED"}
    BY DEF FinalInv
  <1>. QED BY <1>1, <1>2, <1>3, <1>4, OneTaskDecides

\* The calls that neither choose a booking nor write to the table.
LEMMA OthersKeepFinal ==
    ASSUME FinalInv, TypeInv', NEW p \in Procs,
           \/ HoldCheck(p) \/ HoldSetNX(p) \/ HoldStamp(p) \/ HoldTag(p)
           \/ ConfirmSAdd(p) \/ ConfirmUnlock(p) \/ Release(p)
           \/ Crash(p) \/ ClientLeaves(p)
    PROVE  FinalInv'
  <1>1. TypeInv /\ task[p] \in Task /\ rows' = rows
    BY TasksAreGood DEF FinalInv, Good, HoldCheck, HoldSetNX, HoldStamp, HoldTag,
       ConfirmSAdd, ConfirmUnlock, Release, Crash, ClientLeaves
  <1>2. ASSUME NEW t, Become(p, t), t.batch = task[p].batch, t.b = task[p].b,
               t.to = task[p].to, t.pc # "idle"
        PROVE  FinalInv'
    BY <1>1, <1>2, OneTaskGoesOn
  <1>3. ASSUME NEW pc \in PCs \ {"idle"},
               Become(p, Goto(p, pc)) \/ Become(p, Again(p, pc)) \/ Become(p, Stamped(p))
        PROVE  FinalInv'
    BY <1>1, <1>2, <1>3, MovedTask DEF SameWork
  <1>4. ASSUME NEW n \in 0 .. Len(task[p].seats),
               Become(p, Finished(p)) \/ Become(p, Rollback(p, n)) \/ Become(p, Idle)
        PROVE  FinalInv'
    BY <1>1, <1>4, DoneTask, OneTaskGoesOn
  <1>5. CASE HoldCheck(p) \/ HoldSetNX(p)
    <2>1. task[p].i - 1 \in 0 .. Len(task[p].seats)
      BY <1>1, <1>5, TasksAreGood DEF HoldCheck, HoldSetNX, At, InLoop, Good, Task
    <2>. QED BY <1>1, <1>3, <1>4, <1>5, <2>1, MovedTask DEF HoldCheck, HoldSetNX, PCs
  <1>6. CASE HoldStamp(p)
    BY <1>3, <1>6 DEF HoldStamp, Stamped, PCs
  <1>7. 0 \in 0 .. Len(task[p].seats)
    BY <1>1 DEF Task
  <1>8. CASE HoldTag(p)
    BY <1>1, <1>3, <1>4, <1>7, <1>8, MovedTask DEF HoldTag, PCs
  <1>9. CASE ConfirmSAdd(p) \/ ConfirmUnlock(p)
    BY <1>1, <1>3, <1>9, MovedTask DEF ConfirmSAdd, ConfirmUnlock, PCs
  <1>10. CASE Release(p)
    BY <1>1, <1>3, <1>4, <1>7, <1>10, MovedTask DEF Release, PCs
  <1>11. CASE Crash(p)
    BY <1>4, <1>7, <1>11 DEF Crash
  <1>12. CASE ClientLeaves(p)
    <2>. DEFINE t == [task[p] EXCEPT !.gone = TRUE]
    <2>1. t.batch = task[p].batch /\ t.b = task[p].b /\ t.to = task[p].to /\ t.pc # "idle"
      BY <1>1, <1>12 DEF ClientLeaves, At, Task
    <2>2. Become(p, t)
      BY <1>12 DEF ClientLeaves
    <2>. HIDE DEF t
    <2>. QED BY <1>2, <2>1, <2>2
  <1>. QED BY <1>5, <1>6, <1>8, <1>9, <1>10, <1>11, <1>12

\* A task as it starts, and as a Hold or a CronJob makes it from an earlier one.
Tagging(p, b)  == [Start("tag", task[p].seats, b, None) EXCEPT !.age = task[p].age]
Expiring(p, b) == [Start("release", rows[b].seats, b, "EXPIRED")
                     EXCEPT !.batch = task[p].batch \ {b}, !.age = task[p].age]
Selected(B)    == [Idle EXCEPT !.pc = "next", !.batch = B]

LEMMA StartedTask ==
    /\ \A pc, seats, b, to :
          /\ Start(pc, seats, b, to).pc = pc /\ Start(pc, seats, b, to).seats = seats
          /\ Start(pc, seats, b, to).i = 1 /\ Start(pc, seats, b, to).b = b
          /\ Start(pc, seats, b, to).to = to /\ Start(pc, seats, b, to).left = 0
          /\ Start(pc, seats, b, to).batch = {} /\ Start(pc, seats, b, to).age = 0
          /\ Start(pc, seats, b, to).gone = FALSE
    /\ \A p, b :
          /\ Tagging(p, b).pc = "tag" /\ Tagging(p, b).seats = task[p].seats
          /\ Tagging(p, b).i = 1 /\ Tagging(p, b).b = b /\ Tagging(p, b).to = None
          /\ Tagging(p, b).batch = {} /\ Tagging(p, b).age = task[p].age
          /\ Tagging(p, b).gone = FALSE
    /\ \A p, b :
          /\ Expiring(p, b).pc = "release" /\ Expiring(p, b).b = b
          /\ Expiring(p, b).to = "EXPIRED" /\ Expiring(p, b).batch = task[p].batch \ {b}
    /\ \A B : /\ Selected(B).pc = "next" /\ Selected(B).b = None
              /\ Selected(B).to = None /\ Selected(B).batch = B
  BY DEF Start, Tagging, Expiring, Selected, Idle

\* The calls that start work: a Hold has no booking yet; Confirm and Cancel take
\* one that no other call works on; the CronJob takes those past expires_at.
LEMMA StartsKeepFinal ==
    ASSUME OneDecider, FinalInv, TypeInv', NEW p \in Procs,
           \/ p \in Workers /\ \E seats \in Requests : HoldBegin(p, seats)
           \/ p \in Workers /\ \E b \in Bookings : ConfirmLoad(p, b) \/ CancelLoad(p, b)
           \/ p \in Jobs /\ (CleanupSelect(p) \/ CleanupNext(p))
    PROVE  FinalInv'
  <1>1. TypeInv /\ task[p] \in Task
    BY TasksAreGood DEF FinalInv, Good
  <1>2. ASSUME p \in Workers, NEW seats \in Requests, HoldBegin(p, seats) PROVE FinalInv'
    <2>. DEFINE t == Start("check", seats, None, None)
    <2>1. t.b = None /\ t.to = None /\ t.batch = {}
      BY StartedTask
    <2>2. Become(p, t) /\ rows' = rows
      BY <1>2 DEF HoldBegin
    <2>. HIDE DEF t
    <2>. QED BY <2>1, <2>2, OneTaskGoesOn
  <1>3. ASSUME p \in Workers, NEW b \in Bookings, NEW t, Become(p, t), rows' = rows,
               MayCall(b), rows[b].status = "HOLD", t.b = b, t.batch = {}, t.pc # "idle",
               \/ t.to = "EXPIRED" /\ rows[b].left < 0
               \/ t.to = "CONFIRMED" /\ rows[b].left >= 0
               \/ t.to = "CANCELLED" /\ ("lateCancel" \in Env \/ rows[b].left >= 0)
        PROVE  FinalInv'
    <2>1. Jobs = {} \/ "lateCancel" \notin Env
      BY DEF OneDecider
    <2>2. Undecided(t)
      BY <1>3, <2>1 DEF Undecided, Resolvable
    <2>3. \A q \in Workers : task[q].b # b
      BY <1>3 DEF MayCall, OneDecider
    <2>. QED BY <1>3, <2>2, <2>3, ProcsAssumption, OneTaskDecides
  <1>4. ASSUME p \in Workers, NEW b \in Bookings, ConfirmLoad(p, b) PROVE FinalInv'
    BY <1>3, <1>4, StartedTask DEF ConfirmLoad
  <1>5. ASSUME p \in Workers, NEW b \in Bookings, CancelLoad(p, b) PROVE FinalInv'
    BY <1>3, <1>5, StartedTask DEF CancelLoad
  <1>6. CASE p \in Jobs /\ CleanupSelect(p)
    <2>. DEFINE expired == {b \in Bookings : rows[b].status = "HOLD" /\ rows[b].left < 0}
                t == Selected(expired)
    <2>1. \A c \in expired : Resolvable(c)
      BY DEF Resolvable
    <2>2. Become(p, t) /\ rows' = rows
      BY <1>6 DEF CleanupSelect, Selected
    <2>. HIDE DEF expired
    <2>3. t.b = None /\ t.to = None /\ t.batch = expired
      BY StartedTask
    <2>. HIDE DEF t
    <2>4. Undecided(t)
      BY <2>1, <2>3 DEF Undecided, None
    <2>. QED BY <1>6, <2>2, <2>3, <2>4, ProcsAssumption, OneTaskDecides
  <1>7. CASE p \in Jobs /\ CleanupNext(p)
    <2>1. PICK b \in task[p].batch : Become(p, Expiring(p, b))
      BY <1>7 DEF CleanupNext, Expiring
    <2>2. rows' = rows
      BY <1>7 DEF CleanupNext
    <2>3. \A c \in task[p].batch : Resolvable(c)
      BY DEF FinalInv, Undecided
    <2>. DEFINE t == Expiring(p, b)
    <2>4. t.pc = "release" /\ t.b = b /\ t.to = "EXPIRED" /\ t.batch = task[p].batch \ {b}
      BY StartedTask
    <2>5. Become(p, t)
      BY <2>1
    <2>. HIDE DEF t
    <2>6. Undecided(t)
      BY <2>3, <2>4 DEF Undecided
    <2>. QED BY <1>7, <2>2, <2>4, <2>5, <2>6, ProcsAssumption, OneTaskDecides
  <1>. QED BY <1>2, <1>4, <1>5, <1>6, <1>7

\* A status that is final is overwritten with itself at most.
StatusesKept ==
    \A b \in Bookings : rows[b].status \in {"CONFIRMED", "CANCELLED", "EXPIRED"}
                        => rows'[b].status = rows[b].status

\* The INSERT makes a booking that no task knows of.
LEMMA HoldInsertKeepsFinal ==
    ASSUME FinalInv, TypeInv', NEW p \in Workers, HoldInsert(p)
    PROVE  FinalInv' /\ StatusesKept
  <1>. DEFINE r == Rollback(p, Len(task[p].seats))
  <1>1. TypeInv /\ task[p] \in Task /\ p \in Procs /\ rows \in [Bookings -> Row]
    BY TasksAreGood DEF FinalInv, TypeInv, TypeOK, Good, Procs
  <1>2. r.b = None /\ r.to = None /\ r.batch = {}
    BY <1>1, DoneTask DEF FinalInv, Task
  <1>. HIDE DEF r
  <1>3. CASE rows' = rows /\ Become(p, r)
    BY <1>1, <1>2, <1>3, OneTaskGoesOn DEF StatusesKept
  <1>4. ASSUME NEW b \in Bookings, rows[b] = NoRow,
               rows' = [rows EXCEPT ![b] = [status |-> "HOLD", seats |-> task[p].seats,
                                            left |-> task[p].left]],
               NEW t, Become(p, t), t.to = None, t.batch = {}, t.b \in {None, b}
        PROVE  FinalInv' /\ StatusesKept
    <2>1. /\ \A q \in Procs : task'[q] = IF q = p THEN t ELSE task[q]
          /\ \A c \in Bookings : c # b => rows'[c] = rows[c]
      BY <1>1, <1>4 DEF TypeInv, TypeOK, Become
    <2>2. rows[b].status = None
      BY <1>4 DEF NoRow
    <2>3. \A q \in Procs : /\ task[q].b # b /\ b \notin task[q].batch
                           /\ task[q].b \in Bookings \cup {None}
                           /\ task[q].batch \subseteq Bookings
                           /\ task[q].to # None => task[q].b # None
      BY <1>1, <1>4, <2>2, BookingsAssumption, TasksAreGood DEF Good, TaskFits, Placed, Task
    <2>4. \A q \in Procs : Undecided(task[q])'
      <3>1. Undecided(task[p])'
        BY <1>1, <1>4, <2>1 DEF Undecided, None
      <3>2. ASSUME NEW q \in Procs, q # p PROVE Undecided(task[q])'
        BY <2>1, <2>3, <3>2 DEF FinalInv, Undecided, Resolvable, None
      <3>. QED BY <3>1, <3>2
    <2>5. \A q, u \in Workers : q # u /\ task'[q].b = task'[u].b => task'[q].b = None
      BY <1>4, <2>1, <2>3 DEF FinalInv, Procs
    <2>6. \A q \in Workers : task'[q].batch = {}
      BY <1>4, <2>1 DEF FinalInv, Procs
    <2>7. StatusesKept
      BY <2>1, <2>2 DEF StatusesKept, None
    <2>8. \A q \in Jobs : task'[q].to \in {None, "EXPIRED"}
      BY <1>4, <2>1 DEF FinalInv, Procs
    <2>. QED BY <2>4, <2>5, <2>6, <2>7, <2>8 DEF FinalInv
  <1>5. \A b : Tagging(p, b).to = None /\ Tagging(p, b).batch = {} /\ Tagging(p, b).b = b
    BY StartedTask
  <1>. QED BY <1>2, <1>3, <1>4, <1>5 DEF HoldInsert, Tagging, r

\* The UPDATE: nobody else was going to store anything else.
LEMMA UpdateStatusKeepsFinal ==
    ASSUME FinalInv, TypeInv', NEW p \in Procs, UpdateStatus(p)
    PROVE  FinalInv' /\ StatusesKept
  <1>. DEFINE t == Finished(p)
  <1>1. /\ TypeInv /\ rows \in [Bookings -> Row] /\ task[p] \in Task
        /\ task[p].b \in Bookings /\ task[p].to \in {"CONFIRMED", "CANCELLED", "EXPIRED"}
    BY TasksAreGood
    DEF FinalInv, Undecided, TypeInv, TypeOK, Good, UpdateStatus, At, TaskFits, Placed, Task, Status
  <1>2. t.b = None /\ t.to = None /\ t.batch = task[p].batch
    BY <1>1, DoneTask DEF Task
  <1>. HIDE DEF t
  <1>3. Become(p, t)
    BY DEF UpdateStatus, t
  <1>4. CASE rows' = rows
    BY <1>2, <1>3, <1>4, OneTaskGoesOn DEF StatusesKept
  <1>5. CASE rows' = [rows EXCEPT ![task[p].b].status = task[p].to]
    <2>1. /\ \A q \in Procs : task'[q] = IF q = p THEN t ELSE task[q]
          /\ \A c \in Bookings :
                /\ rows'[c].left = rows[c].left
                /\ rows'[c].status = IF c = task[p].b THEN task[p].to ELSE rows[c].status
      BY <1>1, <1>3, <1>5 DEF TypeInv, TypeOK, Become, Row
    <2>2. /\ task[p].to \in {"CONFIRMED", "CANCELLED"} =>
                rows[task[p].b].status = "HOLD" /\ (Jobs = {} \/ rows[task[p].b].left >= 0)
          /\ task[p].to = "EXPIRED" => Resolvable(task[p].b)
      BY DEF FinalInv, Undecided
    <2>3. \A c \in Bookings : rows[c].left \in Int
      BY <1>1 DEF Row
    <2>4. ASSUME NEW c \in Bookings, Resolvable(c), p \in Jobs \/ Jobs # {}
          PROVE  Resolvable(c)'
      BY <1>1, <2>1, <2>2, <2>3, <2>4 DEF Resolvable
    <2>5. \A q \in Procs : Undecided(task[q])'
      <3>1. ASSUME NEW q \in Procs PROVE \A c \in task[q].batch : Resolvable(c)'
        <4>1. CASE q \in Workers
          BY <4>1 DEF FinalInv
        <4>2. CASE q \in Jobs
          <5>1. \A c \in task[q].batch : c \in Bookings /\ Resolvable(c)
            BY <1>1, TasksAreGood DEF FinalInv, Undecided, Good, Task
          <5>. QED BY <2>4, <4>2, <5>1
        <4>. QED BY <4>1, <4>2 DEF Procs
      <3>2. Undecided(task[p])'
        BY <1>2, <2>1, <3>1 DEF Undecided, None
      <3>3. ASSUME NEW q \in Procs, q # p, task[q].b # task[p].b PROVE Undecided(task[q])'
        <4>1. Undecided(task[q]) /\ task'[q] = task[q]
          BY <2>1, <3>3 DEF FinalInv
        <4>2. task[q].to # None => task[q].b \in Bookings
          BY <1>1, TasksAreGood DEF Good, TaskFits, Placed, Task
        <4>. QED BY <2>1, <3>1, <3>3, <4>1, <4>2 DEF Undecided, Resolvable, None
      <3>4. ASSUME NEW q \in Procs, q # p, task[q].b = task[p].b PROVE Undecided(task[q])'
        <4>1. p \in Jobs \/ q \in Jobs
          BY <1>1, <3>4, BookingsAssumption DEF FinalInv, Procs
        <4>2. /\ task[q].to \in {"CONFIRMED", "CANCELLED"} =>
                    rows[task[p].b].status = "HOLD" /\ (Jobs = {} \/ rows[task[p].b].left >= 0)
              /\ task[q].to = "EXPIRED" => Resolvable(task[p].b)
              /\ task[q].to # None => task[q].pc # "idle" /\ task[q].to # "HOLD"
          BY <3>4 DEF FinalInv, Undecided
        <4>3. /\ p \in Jobs => task[p].to = "EXPIRED"
              /\ q \in Jobs => task[q].to \in {None, "EXPIRED"}
          BY <1>1 DEF FinalInv, None
        <4>4. /\ task'[q] = task[q] /\ rows'[task[p].b].left = rows[task[p].b].left
              /\ rows'[task[p].b].status = task[p].to /\ rows[task[p].b].left \in Int
          BY <1>1, <2>1, <2>3, <3>4
        <4>5. CASE task[q].to = None
          BY <3>1, <4>4, <4>5 DEF Undecided, None
        <4>6. CASE task[q].to # None
          <5>1. task[p].to = "EXPIRED" /\ task[q].to = "EXPIRED"
            <6>1. task[q].to \in {"CONFIRMED", "CANCELLED", "EXPIRED"}
              BY <1>1, <4>2, <4>6, TasksAreGood DEF Good, Task, Status
            <6>. QED BY <1>1, <2>2, <4>1, <4>2, <4>3, <4>4, <6>1 DEF Resolvable, None
          <5>. QED BY <2>2, <3>1, <3>4, <4>2, <4>4, <5>1 DEF Undecided, Resolvable
        <4>. QED BY <4>5, <4>6
      <3>. QED BY <3>2, <3>3, <3>4
    <2>6. \A q, u \in Workers : q # u /\ task'[q].b = task'[u].b => task'[q].b = None
      BY <1>2, <2>1 DEF FinalInv, Procs
    <2>7. \A q \in Workers : task'[q].batch = {}
      BY <1>2, <2>1 DEF FinalInv, Procs
    <2>8. StatusesKept
      BY <1>1, <2>1, <2>2 DEF StatusesKept, Resolvable
    <2>9. \A q \in Jobs : task'[q].to \in {None, "EXPIRED"}
      BY <1>2, <2>1 DEF FinalInv, Procs
    <2>. QED BY <2>5, <2>6, <2>7, <2>8, <2>9 DEF FinalInv
  <1>. QED BY <1>4, <1>5 DEF UpdateStatus

\* Time passes: with a CronJob about, no call outlives its booking.
LEMMA TickKeepsFinal ==
    ASSUME OneDecider, FinalInv, TypeInv', Tick
    PROVE  FinalInv' /\ StatusesKept
  <1>1. TypeInv
    BY DEF FinalInv
  <1>2. /\ \A b \in Bookings : /\ rows'[b].status = rows[b].status
                               /\ rows[b].left \in Int
                               /\ rows'[b].left = Elapse(rows[b].left)
        /\ \A p \in Procs : /\ task'[p].pc = task[p].pc /\ task'[p].b = task[p].b
                            /\ task'[p].to = task[p].to /\ task'[p].batch = task[p].batch
    <2>1. ASSUME NEW b \in Bookings
          PROVE  rows[b].left \in Int /\ rows'[b].left = Elapse(rows[b].left)
      <3>1. rows[b] \in Row
        BY <1>1 DEF TypeInv, TypeOK
      <3>2. rows'[b] = [rows[b] EXCEPT !.left = Elapse(@)]
        BY DEF Tick
      <3>. QED BY <3>1, <3>2 DEF Row
    <2>. QED BY <1>1, <2>1, TickAges
  <1>3. ASSUME NEW p \in Procs PROVE Undecided(task[p])'
    <2>1. Undecided(task[p])
      BY DEF FinalInv
    <2>2. /\ task[p].to # None => task[p].b \in Bookings
          /\ task[p].batch \subseteq Bookings
      BY <1>1, TasksAreGood DEF Good, TaskFits, Placed, Task
    <2>3. \A c \in task[p].batch : Resolvable(c)'
      BY <1>2, <2>1, <2>2 DEF Undecided, Resolvable, Elapse
    <2>4. CASE task[p].to = None
      BY <1>2, <2>3, <2>4 DEF Undecided, None
    <2>5. CASE task[p].to # None
      <3>1. Jobs = {} \/ rows[task[p].b].left # 0
        BY <2>1, <2>2, <2>5, BookingsAssumption
        DEF OneDecider, Undecided, Tick, Timely, At
      <3>. QED BY <1>2, <2>1, <2>2, <2>3, <2>5, <3>1 DEF Undecided, Resolvable, Elapse
    <2>. QED BY <2>4, <2>5
  <1>4. StatusesKept
    BY <1>2 DEF StatusesKept
  <1>. QED BY <1>2, <1>3, <1>4 DEF FinalInv, Procs

\* FinalInv is inductive, and no step of it changes an outcome.
LEMMA FinalInvIsInductive ==
    ASSUME OneDecider
    PROVE  FinalInv /\ [Next]_vars => FinalInv' /\ StatusesKept
  <1>. SUFFICES ASSUME FinalInv, [Next]_vars PROVE FinalInv' /\ StatusesKept
    OBVIOUS
  <1>1. TypeInv'
    BY TypeInvIsInductive DEF FinalInv
  <1>2. rows' = rows => StatusesKept
    BY DEF StatusesKept
  <1>. USE DEF Procs
  <1>3. ASSUME NEW p \in Workers, ClientStep(p) PROVE FinalInv' /\ StatusesKept
    <2>1. rows' = rows
      BY <1>3 DEF ClientStep, HoldBegin, ConfirmLoad, CancelLoad, ClientLeaves
    <2>. QED BY <1>1, <1>2, <1>3, <2>1, StartsKeepFinal, OthersKeepFinal DEF ClientStep
  <1>4. ASSUME NEW p \in Workers, HandlerStep(p) PROVE FinalInv' /\ StatusesKept
    <2>1. CASE HoldInsert(p)
      BY <1>1, <2>1, HoldInsertKeepsFinal
    <2>2. CASE \/ HoldCheck(p) \/ HoldSetNX(p) \/ HoldStamp(p) \/ HoldTag(p)
               \/ ConfirmSAdd(p) \/ ConfirmUnlock(p)
      <3>1. rows' = rows
        BY <2>2 DEF HoldCheck, HoldSetNX, HoldStamp, HoldTag, ConfirmSAdd, ConfirmUnlock
      <3>. QED BY <1>1, <1>2, <2>2, <3>1, OthersKeepFinal
    <2>. QED BY <1>4, <2>1, <2>2 DEF HandlerStep
  <1>5. ASSUME NEW p \in Jobs, JobStep(p) PROVE FinalInv' /\ StatusesKept
    <2>1. rows' = rows
      BY <1>5 DEF JobStep, CleanupSelect, CleanupNext
    <2>. QED BY <1>1, <1>2, <1>5, <2>1, StartsKeepFinal DEF JobStep
  <1>6. ASSUME NEW p \in Procs, Release(p) \/ UpdateStatus(p) \/ Crash(p)
        PROVE  FinalInv' /\ StatusesKept
    <2>1. CASE UpdateStatus(p)
      BY <1>1, <2>1, UpdateStatusKeepsFinal
    <2>2. CASE Release(p) \/ Crash(p)
      <3>1. rows' = rows
        BY <2>2 DEF Release, Crash
      <3>. QED BY <1>1, <1>2, <2>2, <3>1, OthersKeepFinal
    <2>. QED BY <1>6, <2>1, <2>2
  <1>7. CASE RedisRestart \/ UNCHANGED vars
    <2>1. UNCHANGED <<rows, task>>
      BY <1>7 DEF RedisRestart, vars
    <2>. QED BY <1>1, <1>2, <2>1 DEF FinalInv, Undecided, Resolvable
  <1>. QED BY <1>1, <1>3, <1>4, <1>5, <1>6, <1>7, TickKeepsFinal DEF Next

\* Nobody is at work to begin with.
LEMMA FinalInvInitially == Init => FinalInv
  <1>. SUFFICES ASSUME Init PROVE FinalInv
    OBVIOUS
  <1>1. Idle.b = None /\ Idle.to = None /\ Idle.batch = {}
    BY DEF Idle, Start
  <1>2. \A p \in Procs : task[p] = Idle
    BY DEF Init
  <1>3. \A p \in Procs : Undecided(task[p])
    BY <1>1, <1>2 DEF Undecided, None
  <1>. QED BY <1>1, <1>2, <1>3, TypeInvInitially DEF FinalInv, Procs

\* CONFIRMED, CANCELLED and EXPIRED are final, whatever crashes, disconnected
\* clients and failing calls do, if no booking has two calls at once and the
\* CronJob, where there is one, is kept apart from them by the expiry.
THEOREM OutcomesAreFinal ==
    ASSUME OneDecider
    PROVE  Spec => OutcomeIsFinal
  <1>1. FinalInv /\ [Next]_vars => FinalInv'
    BY FinalInvIsInductive
  <1>2. FinalInv /\ [Next]_vars => StatusesKept
    BY FinalInvIsInductive
  <1>3. StatusesKept =>
           \A b \in Bookings : rows[b].status \in {"CONFIRMED", "CANCELLED", "EXPIRED"}
                               => rows'[b].status = rows[b].status
    BY DEF StatusesKept
  <1>. QED BY <1>1, <1>2, <1>3, FinalInvInitially, PTL DEF Spec, OutcomeIsFinal
-----------------------------------------------------------------------------
(* What a handler has to do with the keys of its seats. *)

\* The k-th key has been set by this Hold, which will tag or delete it.
Owes(t, k) ==
    \/ t.pc \in {"check", "setnx"} /\ k < t.i
    \/ t.pc \in {"stamp", "insert"}
    \/ t.pc = "tag" /\ k >= t.i
    \/ t.pc = "release" /\ t.to = None /\ k >= t.i

\* The k-th key may carry the id of the booking this call works on.
Keeps(t, k) ==
    \/ t.pc = "tag" /\ k < t.i
    \/ t.pc \in {"sadd", "unlock"} /\ k >= t.i
    \/ t.pc = "release" /\ t.to # None /\ k >= t.i

Places(t) == 1 .. Len(t.seats)
Owed(t)   == {t.seats[k] : k \in {j \in Places(t) : Owes(t, j)}}
Kept(t)   == {t.seats[k] : k \in {j \in Places(t) : Keeps(t, j)}}
-----------------------------------------------------------------------------
(* Handlers that are not killed and whose clients stay.  This is common to the two
   theorems that follow. *)

\* What a task will store fits what it is doing, and it has the seats of its booking.
Honest(t, table) ==
    /\ t.gone = FALSE /\ t.to # "HOLD"
    /\ t.pc = "tag" => t.to = None /\ t.seats = table[t.b].seats
    /\ t.to = "CONFIRMED" => t.pc \in {"sadd", "unlock", "update"} /\ t.seats = table[t.b].seats
    /\ t.to = "CANCELLED" => t.pc \in {"release", "update"} /\ t.seats = table[t.b].seats

AllHonest == \A p \in Procs : Honest(task[p], rows)

\* A task that will store nothing.
LEMMA NothingToStore ==
    ASSUME NEW t, NEW table, t.gone = FALSE, t.to = None, t.pc # "tag"
    PROVE  Honest(t, table)
  BY DEF Honest, None

\* A task that goes on with the same work.
LEMMA SameWorkIsHonest ==
    ASSUME NEW t, NEW u, NEW table, Honest(u, table), SameWork(t, u),
           t.pc = "tag" => u.pc = "tag",
           u.to = "CONFIRMED" => t.pc \in {"sadd", "unlock", "update"},
           u.to = "CANCELLED" => t.pc \in {"release", "update"}
    PROVE  Honest(t, table)
  BY DEF Honest, SameWork

\* The steps that one task makes, with the table as it is.
LEMMA MoveIsHonest ==
    ASSUME TypeInv, AllHonest, NEW p \in Procs,
           \/ HoldCheck(p) \/ HoldSetNX(p) \/ HoldStamp(p) \/ HoldTag(p)
           \/ ConfirmSAdd(p) \/ ConfirmUnlock(p) \/ Release(p) \/ UpdateStatus(p)
           \/ CleanupSelect(p) \/ CleanupNext(p)
           \/ \E seats \in Requests : HoldBegin(p, seats)
           \/ \E b \in Bookings : ConfirmLoad(p, b) \/ CancelLoad(p, b)
    PROVE  \E t : Become(p, t) /\ Honest(t, rows)
  <1>1. /\ task[p] \in Task /\ TaskFits(task[p]) /\ Honest(task[p], rows)
        /\ InLoop(task[p]) => task[p].i <= Len(task[p].seats)
    BY TasksAreGood DEF Good, AllHonest
  <1>2. /\ \A pc : SameWork(Goto(p, pc), task[p]) /\ Goto(p, pc).pc = pc
        /\ \A pc : SameWork(Again(p, pc), task[p]) /\ Again(p, pc).pc = pc
        /\ SameWork(Stamped(p), task[p]) /\ Stamped(p).pc = "insert"
        /\ \A again, done : Loop(p, again, done) = IF AtLast(p) THEN done ELSE Again(p, again)
    BY MovedTask
  <1>3. Honest(Finished(p), rows)
    <2>1. Finished(p).gone = FALSE /\ Finished(p).to = None /\ Finished(p).pc # "tag"
      BY DEF Finished, Idle, Start
    <2>. QED BY <2>1, NothingToStore
  <1>4. ASSUME NEW n PROVE Honest(Rollback(p, n), rows)
    <2>1. CASE n = 0
      BY <1>3, <2>1 DEF Rollback
    <2>2. CASE n # 0
      <3>1. /\ Rollback(p, n).gone = task[p].gone /\ Rollback(p, n).to = None
            /\ Rollback(p, n).pc = "release"
        BY <2>2 DEF Rollback, Idle, Start
      <3>2. task[p].gone = FALSE
        BY <1>1 DEF Honest
      <3>. QED BY <3>1, <3>2, NothingToStore
    <2>. QED BY <2>1, <2>2
  <1>5. task[p].pc \in {"check", "setnx", "stamp", "insert", "tag"} =>
            task[p].to \notin {"CONFIRMED", "CANCELLED"}
    BY <1>1 DEF Honest, None
  <1>6. CASE HoldCheck(p) \/ HoldSetNX(p)
    <2>1. task[p].pc \in {"check", "setnx"}
      BY <1>6 DEF HoldCheck, HoldSetNX, At
    <2>2. \A t : SameWork(t, task[p]) /\ t.pc \in {"setnx", "stamp", "check"} => Honest(t, rows)
      BY <1>1, <1>5, <2>1, SameWorkIsHonest
    <2>. QED BY <1>2, <1>4, <1>6, <2>2 DEF HoldCheck, HoldSetNX
  <1>7. CASE HoldStamp(p)
    BY <1>1, <1>2, <1>5, <1>7, SameWorkIsHonest DEF HoldStamp, At, Stamped
  <1>8. CASE HoldTag(p)
    <2>1. Honest(Again(p, "tag"), rows)
      BY <1>1, <1>2, <1>5, <1>8, SameWorkIsHonest DEF HoldTag, At
    <2>. QED BY <1>2, <1>3, <1>8, <2>1 DEF HoldTag
  <1>9. CASE ConfirmSAdd(p) \/ ConfirmUnlock(p)
    <2>1. task[p].to = "CONFIRMED"
      BY <1>1, <1>9 DEF TaskFits, Placed, ConfirmSAdd, ConfirmUnlock, At
    <2>2. \A t : SameWork(t, task[p]) /\ t.pc \in {"sadd", "unlock", "update"} => Honest(t, rows)
      BY <1>1, <2>1, SameWorkIsHonest
    <2>. QED BY <1>2, <1>9, <2>2 DEF ConfirmSAdd, ConfirmUnlock
  <1>10. CASE Release(p)
    <2>1. task[p].to # "CONFIRMED"
      BY <1>1, <1>10 DEF Honest, Release, At
    <2>2. \A t : SameWork(t, task[p]) /\ t.pc \in {"release", "update"} => Honest(t, rows)
      BY <1>1, <2>1, SameWorkIsHonest
    <2>. QED BY <1>2, <1>3, <1>10, <2>2 DEF Release
  <1>11. CASE UpdateStatus(p)
    BY <1>3, <1>11 DEF UpdateStatus
  <1>12. CASE CleanupSelect(p)
    <2>. DEFINE expired == {b \in Bookings : rows[b].status = "HOLD" /\ rows[b].left < 0}
    <2>1. Become(p, Selected(expired))
      BY <1>12 DEF CleanupSelect, Selected
    <2>2. /\ Selected(expired).gone = FALSE /\ Selected(expired).to = None
          /\ Selected(expired).pc # "tag"
      BY DEF Selected, Idle, Start
    <2>. HIDE DEF expired
    <2>3. Honest(Selected(expired), rows)
      BY <2>2, NothingToStore
    <2>. QED BY <2>1, <2>3
  <1>13. CASE CleanupNext(p)
    <2>1. PICK b : Become(p, Expiring(p, b))
      BY <1>13 DEF CleanupNext, Expiring
    <2>2. /\ Expiring(p, b).gone = FALSE /\ Expiring(p, b).to = "EXPIRED"
          /\ Expiring(p, b).pc = "release"
      BY DEF Expiring, Start
    <2>. QED BY <2>1, <2>2 DEF Honest
  <1>14. CASE \E seats \in Requests : HoldBegin(p, seats)
    <2>1. PICK seats : Become(p, Start("check", seats, None, None))
      BY <1>14 DEF HoldBegin
    <2>. DEFINE t == Start("check", seats, None, None)
    <2>2. t.gone = FALSE /\ t.to = None /\ t.pc # "tag"
      BY StartedTask
    <2>3. Become(p, t)
      BY <2>1
    <2>. HIDE DEF t
    <2>4. Honest(t, rows)
      BY <2>2, NothingToStore
    <2>. QED BY <2>3, <2>4
  <1>15. ASSUME NEW b \in Bookings, ConfirmLoad(p, b) \/ CancelLoad(p, b)
         PROVE  \E t : Become(p, t) /\ Honest(t, rows)
    <2>1. /\ Honest(Start("update", <<>>, b, "EXPIRED"), rows)
          /\ Honest(Start("sadd", rows[b].seats, b, "CONFIRMED"), rows)
          /\ Honest(Start("release", rows[b].seats, b, "CANCELLED"), rows)
      BY StartedTask DEF Honest
    <2>. QED BY <1>15, <2>1 DEF ConfirmLoad, CancelLoad
  <1>. QED BY <1>6, <1>7, <1>8, <1>9, <1>10, <1>11, <1>12, <1>13, <1>14, <1>15

\* A booking in the table keeps its seats and stays there.
LEMMA SeatsStay ==
    ASSUME TypeInv, [Next]_vars, NEW b \in Bookings, rows[b].status # None
    PROVE  rows'[b].seats = rows[b].seats /\ rows'[b].status # None
  <1>1. rows[b] \in Row /\ rows \in [Bookings -> Row]
    BY DEF TypeInv, TypeOK
  <1>. USE DEF Procs
  <1>2. ASSUME NEW p \in Procs, HoldInsert(p)
        PROVE  rows'[b] = rows[b]
    <2>1. ASSUME NEW c \in Bookings, rows[c] = NoRow,
                 rows' = [rows EXCEPT ![c] = [status |-> "HOLD", seats |-> task[p].seats,
                                              left |-> task[p].left]]
          PROVE  rows'[b] = rows[b]
      <3>1. c # b
        BY <2>1 DEF NoRow
      <3>. QED BY <1>1, <2>1, <3>1
    <2>. QED BY <1>2, <2>1 DEF HoldInsert
  <1>3. ASSUME NEW p \in Procs, UpdateStatus(p)
        PROVE  rows'[b].seats = rows[b].seats /\ rows'[b].status # None
    <2>1. task[p].to # None
      BY <1>3, TasksAreGood DEF Good, TaskFits, Placed, UpdateStatus, At
    <2>. QED BY <1>1, <1>3, <2>1 DEF UpdateStatus, Row
  <1>4. Tick => rows'[b].seats = rows[b].seats /\ rows'[b].status # None
    BY TickAges
  <1>5. rows' = rows => rows'[b].seats = rows[b].seats /\ rows'[b].status # None
    OBVIOUS
  <1>6. ASSUME NEW p \in Workers, ClientStep(p) \/ HandlerStep(p) PROVE rows' = rows \/ HoldInsert(p)
    BY <1>6 DEF ClientStep, HoldBegin, ConfirmLoad, CancelLoad, ClientLeaves, HandlerStep,
       HoldCheck, HoldSetNX, HoldStamp, HoldTag, ConfirmSAdd, ConfirmUnlock
  <1>7. ASSUME NEW p \in Jobs, JobStep(p) PROVE rows' = rows
    BY <1>7 DEF JobStep, CleanupSelect, CleanupNext
  <1>8. ASSUME NEW p \in Procs, Release(p) \/ Crash(p) PROVE rows' = rows
    BY <1>8 DEF Release, Crash
  <1>9. RedisRestart \/ UNCHANGED vars => rows' = rows
    BY DEF RedisRestart, vars
  <1>. QED BY <1>2, <1>3, <1>4, <1>5, <1>6, <1>7, <1>8, <1>9 DEF Next

\* Nobody is at work to begin with; clients that stay let the handlers go on.
LEMMA HonestInitially == Init => AllHonest
  <1>1. Idle.gone = FALSE /\ Idle.to = None /\ Idle.pc # "tag"
    BY DEF Idle, Start
  <1>. QED BY <1>1, NothingToStore DEF Init, AllHonest

LEMMA HonestIsInductive ==
    ASSUME {"crash", "leave"} \cap Env = {}, TypeInv, AllHonest, [Next]_vars
    PROVE  AllHonest'
  <1>1. ASSUME NEW t, Honest(t, rows), t.to # None \/ t.pc = "tag" =>
                   t.b \in Bookings /\ rows[t.b].status # None
        PROVE  Honest(t, rows')
    BY <1>1, SeatsStay DEF Honest, None
  <1>2. ASSUME NEW p \in Procs
        PROVE  /\ Honest(task[p], rows)
               /\ task[p].to # None \/ task[p].pc = "tag" =>
                     task[p].b \in Bookings /\ rows[task[p].b].status # None
    BY TasksAreGood DEF AllHonest, Good, TaskFits, Placed, Task
  <1>3. ASSUME NEW p \in Procs, NEW t, Become(p, t), Honest(t, rows')
        PROVE  AllHonest'
    <2>1. \A q \in Procs : task'[q] = IF q = p THEN t ELSE task[q]
      BY <1>3 DEF TypeInv, TypeOK, Become
    <2>2. ASSUME NEW q \in Procs PROVE Honest(task'[q], rows')
      BY <1>1, <1>2, <1>3, <2>1
    <2>. QED BY <2>2 DEF AllHonest
  <1>4. ASSUME NEW p \in Procs, rows' = rows,
               \/ HoldCheck(p) \/ HoldSetNX(p) \/ HoldStamp(p) \/ HoldTag(p)
               \/ ConfirmSAdd(p) \/ ConfirmUnlock(p) \/ Release(p)
               \/ CleanupSelect(p) \/ CleanupNext(p)
               \/ \E seats \in Requests : HoldBegin(p, seats)
               \/ \E b \in Bookings : ConfirmLoad(p, b) \/ CancelLoad(p, b)
        PROVE  AllHonest'
    BY <1>3, <1>4, MoveIsHonest
  <1>5. ASSUME NEW p \in Procs, UpdateStatus(p) PROVE AllHonest'
    <2>1. Finished(p).gone = FALSE /\ Finished(p).to = None /\ Finished(p).pc # "tag"
      BY DEF Finished, Idle, Start
    <2>2. Honest(Finished(p), rows')
      BY <2>1, NothingToStore
    <2>. QED BY <1>3, <1>5, <2>2 DEF UpdateStatus
  <1>6. ASSUME NEW p \in Procs, HoldInsert(p) PROVE AllHonest'
    <2>. DEFINE r == Rollback(p, Len(task[p].seats))
    <2>1. r.gone = FALSE /\ r.to = None /\ r.pc # "tag"
      <3>1. task[p].gone = FALSE
        BY DEF AllHonest, Honest
      <3>. QED BY <3>1 DEF Rollback, Finished, Idle, Start
    <2>2. Honest(r, rows')
      BY <2>1, NothingToStore
    <2>3. ASSUME NEW b \in Bookings,
                 rows' = [rows EXCEPT ![b] = [status |-> "HOLD", seats |-> task[p].seats,
                                              left |-> task[p].left]]
          PROVE  Honest(Tagging(p, b), rows')
      <3>1. rows'[b].seats = task[p].seats
        BY <2>3 DEF TypeInv, TypeOK
      <3>. QED BY <3>1, StartedTask DEF Honest, None
    <2>. HIDE DEF r
    <2>4. PICK t : Become(p, t) /\ Honest(t, rows')
      BY <1>6, <2>2, <2>3 DEF HoldInsert, Tagging, r
    <2>. QED BY <1>3, <2>4
  <1>7. Tick => AllHonest'
    <2>. SUFFICES ASSUME Tick, NEW p \in Procs PROVE Honest(task'[p], rows')
      BY DEF AllHonest
    <2>1. /\ task'[p].pc = task[p].pc /\ task'[p].seats = task[p].seats
          /\ task'[p].b = task[p].b /\ task'[p].to = task[p].to /\ task'[p].gone = task[p].gone
      BY TickAges
    <2>2. Honest(task[p], rows')
      BY <1>1, <1>2
    <2>. QED BY <2>1, <2>2 DEF Honest
  <1>8. RedisRestart \/ UNCHANGED vars => AllHonest'
    BY DEF RedisRestart, vars, AllHonest
  <1>9. \A p : ~Crash(p) /\ ~ClientLeaves(p)
    BY DEF Crash, ClientLeaves
  <1>. USE DEF Procs
  <1>10. ASSUME NEW p \in Workers, ClientStep(p) \/ HandlerStep(p) PROVE AllHonest'
    <2>1. CASE HoldInsert(p)
      BY <1>6, <2>1
    <2>2. CASE ~HoldInsert(p)
      <3>1. rows' = rows
        BY <1>9, <1>10, <2>2 DEF ClientStep, HoldBegin, ConfirmLoad, CancelLoad, HandlerStep,
           HoldCheck, HoldSetNX, HoldStamp, HoldTag, ConfirmSAdd, ConfirmUnlock
      <3>. QED BY <1>4, <1>9, <1>10, <2>2, <3>1 DEF ClientStep, HandlerStep
    <2>. QED BY <2>1, <2>2
  <1>11. ASSUME NEW p \in Jobs, JobStep(p) PROVE AllHonest'
    <2>1. rows' = rows
      BY <1>11 DEF JobStep, CleanupSelect, CleanupNext
    <2>. QED BY <1>4, <1>11, <2>1 DEF JobStep
  <1>12. ASSUME NEW p \in Procs, Release(p) PROVE AllHonest'
    BY <1>4, <1>12 DEF Release
  <1>. QED BY <1>5, <1>7, <1>8, <1>9, <1>10, <1>11, <1>12 DEF Next
-----------------------------------------------------------------------------
(* Seats are not lost.  The argument: the SADD of a seat is made by a Confirm
   whose UPDATE is still to come; when nothing can stop it, it comes, and nobody
   overwrites what it stores. *)

\* Handlers are not killed, clients wait, and Postgres takes their calls.
ConfirmsEnd == {"crash", "leave", "dbFault"} \cap Env = {}

\* A booking is sold, or a Confirm is at work that will store CONFIRMED.
Selling(b) ==
    rows[b].status = "CONFIRMED" \/ \E p \in Procs : task[p].b = b /\ task[p].to = "CONFIRMED"

\* Every seat sold is a seat of such a booking.
SellingInv ==
    /\ FinalInv /\ AllHonest
    /\ \A s \in booked : \E b \in Bookings : s \in Range(rows[b].seats) /\ Selling(b)

\* What can happen to a Confirm that is at work.
LEMMA ConfirmGoesOn ==
    ASSUME TypeInv, {"crash", "leave"} \cap Env = {}, [Next]_vars, NEW p \in Procs,
           task[p].pc \in {"sadd", "unlock", "update"}
    PROVE  \/ task'[p] = task[p]
           \/ ConfirmSAdd(p) \/ ConfirmUnlock(p) \/ UpdateStatus(p) \/ Tick
  <1>1. ASSUME NEW q \in Procs, q # p, NEW t, Become(q, t) PROVE task'[p] = task[p]
    BY <1>1 DEF TypeInv, TypeOK, Become
  <1>2. \A q : ~Crash(q) /\ ~ClientLeaves(q)
    BY DEF Crash, ClientLeaves
  <1>. USE DEF Procs
  <1>3. ASSUME NEW q \in Workers, ClientStep(q) PROVE task'[p] = task[p]
    <2>1. q # p
      BY <1>2, <1>3 DEF ClientStep, HoldBegin, ConfirmLoad, CancelLoad, At
    <2>. QED BY <1>1, <1>2, <1>3, <2>1 DEF ClientStep, HoldBegin, ConfirmLoad, CancelLoad
  <1>4. ASSUME NEW q \in Workers, HandlerStep(q)
        PROVE  task'[p] = task[p] \/ ConfirmSAdd(p) \/ ConfirmUnlock(p)
    <2>1. CASE q = p
      BY <1>4, <2>1 DEF HandlerStep, HoldCheck, HoldSetNX, HoldStamp, HoldInsert, HoldTag, At
    <2>2. CASE q # p
      BY <1>1, <1>4, <2>2 DEF HandlerStep, HoldCheck, HoldSetNX, HoldStamp, HoldInsert,
         HoldTag, ConfirmSAdd, ConfirmUnlock
    <2>. QED BY <2>1, <2>2
  <1>5. ASSUME NEW q \in Jobs, JobStep(q) PROVE task'[p] = task[p]
    <2>1. q # p
      BY <1>5 DEF JobStep, CleanupSelect, CleanupNext, At
    <2>. QED BY <1>1, <1>5, <2>1 DEF JobStep, CleanupSelect, CleanupNext
  <1>6. ASSUME NEW q \in Procs, Release(q) \/ UpdateStatus(q)
        PROVE  task'[p] = task[p] \/ UpdateStatus(p)
    <2>1. CASE q = p
      BY <1>6, <2>1 DEF Release, At
    <2>2. CASE q # p
      BY <1>1, <1>6, <2>2 DEF Release, UpdateStatus
    <2>. QED BY <2>1, <2>2
  <1>7. RedisRestart \/ UNCHANGED vars => task' = task
    BY DEF RedisRestart, vars
  <1>. QED BY <1>2, <1>3, <1>4, <1>5, <1>6, <1>7 DEF Next

\* A booking that is being sold goes on being sold until it is.
LEMMA SellingStays ==
    ASSUME OneDecider, ConfirmsEnd, SellingInv, [Next]_vars, NEW b \in Bookings, Selling(b)
    PROVE  Selling(b)'
  <1>1. CASE rows[b].status = "CONFIRMED"
    <2>1. StatusesKept
      BY FinalInvIsInductive DEF SellingInv
    <2>. QED BY <1>1, <2>1 DEF StatusesKept, Selling
  <1>2. ASSUME NEW p \in Procs, task[p].b = b, task[p].to = "CONFIRMED"
        PROVE  Selling(b)'
    <2>1. /\ TypeInv /\ task[p].pc \in {"sadd", "unlock", "update"} /\ task[p].gone = FALSE
          /\ \A t : Become(p, t) => task'[p] = t
      BY <1>2 DEF SellingInv, FinalInv, AllHonest, Honest, TypeInv, TypeOK, Become
    <2>2. task'[p].b = b /\ task'[p].to = "CONFIRMED" => Selling(b)'
      BY DEF Selling
    <2>3. CASE ConfirmSAdd(p) \/ ConfirmUnlock(p)
      BY <1>2, <2>1, <2>2, <2>3, MovedTask DEF SameWork, ConfirmSAdd, ConfirmUnlock
    <2>4. CASE UpdateStatus(p)
      <3>1. rows' = [rows EXCEPT ![b].status = "CONFIRMED"]
        BY <1>2, <2>1, <2>4 DEF UpdateStatus, Fails, ConfirmsEnd
      <3>. QED BY <2>1, <3>1 DEF TypeInv, TypeOK, Row, Selling
    <2>5. CASE Tick
      BY <1>2, <2>1, <2>2, <2>5, TickAges
    <2>. QED BY <1>2, <2>1, <2>2, <2>3, <2>4, <2>5, ConfirmGoesOn DEF ConfirmsEnd
  <1>. QED BY <1>1, <1>2 DEF Selling

\* A seat enters the booked set by the SADD of a Confirm.
LEMMA SoldByConfirm ==
    ASSUME TypeInv, [Next]_vars, NEW s \in booked', s \notin booked
    PROVE  \E p \in Procs : ConfirmSAdd(p) /\ s = Seat(p)
  <1>. USE DEF Procs
  <1>1. ASSUME NEW p \in Workers, ClientStep(p) PROVE booked' = booked
    BY <1>1 DEF ClientStep, HoldBegin, ConfirmLoad, CancelLoad, ClientLeaves
  <1>2. ASSUME NEW p \in Workers, HandlerStep(p) PROVE booked' = booked \/ ConfirmSAdd(p)
    BY <1>2 DEF HandlerStep, HoldCheck, HoldSetNX, HoldStamp, HoldInsert, HoldTag, ConfirmUnlock
  <1>3. ASSUME NEW p \in Jobs, JobStep(p) PROVE booked' = booked
    BY <1>3 DEF JobStep, CleanupSelect, CleanupNext
  <1>4. ASSUME NEW p \in Procs, Release(p) \/ UpdateStatus(p) \/ Crash(p) PROVE booked' = booked
    BY <1>4 DEF Release, UpdateStatus, Crash
  <1>5. RedisRestart => booked' = {}
    BY DEF RedisRestart
  <1>6. PICK p \in Workers : ConfirmSAdd(p)
    BY <1>1, <1>2, <1>3, <1>4, <1>5 DEF Next, Tick, vars
  <1>. QED BY <1>6 DEF ConfirmSAdd

\* SellingInv is inductive: it needs outcomes to be final (FinalInv), or another call
\* could overwrite the CONFIRMED that gave the seat its booking.
LEMMA SellingInvIsInductive ==
    ASSUME OneDecider, ConfirmsEnd
    PROVE  SellingInv /\ [Next]_vars => SellingInv'
  <1>. SUFFICES ASSUME SellingInv, [Next]_vars PROVE SellingInv'
    OBVIOUS
  <1>1. TypeInv /\ FinalInv'
    BY FinalInvIsInductive DEF SellingInv, FinalInv
  <1>2. AllHonest'
    BY <1>1, HonestIsInductive DEF SellingInv, ConfirmsEnd
  <1>3. ASSUME NEW s \in booked'
        PROVE  \E b \in Bookings : s \in Range(rows'[b].seats) /\ Selling(b)'
    <2>1. PICK b \in Bookings : s \in Range(rows[b].seats) /\ Selling(b)
      <3>1. CASE s \in booked
        BY <3>1 DEF SellingInv
      <3>2. CASE s \notin booked
        <4>1. PICK p \in Procs : ConfirmSAdd(p) /\ s = Seat(p)
          BY <1>1, <1>3, <3>2, SoldByConfirm
        <4>2. /\ task[p] \in Task /\ task[p].i <= Len(task[p].seats)
              /\ task[p].to = "CONFIRMED" /\ task[p].b \in Bookings
          BY <1>1, <4>1, TasksAreGood
          DEF Good, InLoop, TaskFits, Placed, ConfirmSAdd, At, Task, None
        <4>3. task[p].seats = rows[task[p].b].seats
          BY <4>2 DEF SellingInv, AllHonest, Honest
        <4>4. s \in Range(task[p].seats)
          BY <4>1, <4>2 DEF Task, Seat, Range
        <4>. QED BY <4>2, <4>3, <4>4 DEF Selling
      <3>. QED BY <3>1, <3>2
    <2>2. rows[b].status # None
      <3>1. CASE rows[b].status = "CONFIRMED"
        BY <3>1 DEF None
      <3>2. ASSUME NEW p \in Procs, task[p].b = b PROVE rows[b].status # None
        BY <1>1, <3>2, BookingsAssumption, TasksAreGood DEF Good, TaskFits
      <3>. QED BY <2>1, <3>1, <3>2 DEF Selling
    <2>3. rows'[b].seats = rows[b].seats /\ Selling(b)'
      BY <1>1, <2>1, <2>2, SeatsStay, SellingStays
    <2>. QED BY <2>1, <2>3
  <1>. QED BY <1>1, <1>2, <1>3 DEF SellingInv

\* A seat in the booked set has a CONFIRMED booking, or a call at work that will make
\* it CONFIRMED.  Redis may fail or restart, Holds may race Confirms, and the CronJob
\* may run, kept apart from the calls by the expiry as in OutcomesAreFinal.  Excluded
\* is what would end a Confirm between its SADD and its UPDATE (ConfirmsEnd), and two
\* calls at once on one booking (OneDecider).
THEOREM NoSeatIsLost ==
    ASSUME OneDecider, ConfirmsEnd
    PROVE  Spec => []SoldSeatsAreConfirmed
  <1>1. SellingInv => SoldSeatsAreConfirmed
    BY DEF SellingInv, Selling, SoldSeatsAreConfirmed, InFlight
  <1>2. Init => SellingInv
    BY FinalInvInitially, HonestInitially DEF SellingInv, Init
  <1>3. SellingInv /\ [Next]_vars => SellingInv'
    BY SellingInvIsInductive
  <1>. QED BY <1>1, <1>2, <1>3, PTL DEF Spec
-----------------------------------------------------------------------------
(* No key is left behind.  The argument is about who is behind a key: "pending" is
   owed by a Hold; a booking's id is there only while no call that decides the
   booking has passed it by, and none does before the last key is tagged. *)

\* Handlers are not killed, clients wait, and Redis takes their calls.
KeysReachable == {"crash", "leave", "redisFault"} \cap Env = {}

\* A Confirm or a Cancel of a booking that was alive.
Deciding(t) == t.to \in {"CONFIRMED", "CANCELLED"}

\* Somebody is behind the key of s: a Hold, or a booking whose deciders have yet to
\* delete it.
Cared(s) ==
    /\ hold[s].val = Pending => \E p \in Procs : s \in Owed(task[p])
    /\ hold[s].val \in Bookings =>
          /\ rows[hold[s].val].status \in {"HOLD", "EXPIRED"}
          /\ s \in Range(rows[hold[s].val].seats)
          /\ \A p \in Procs : task[p].b = hold[s].val /\ Deciding(task[p]) => s \in Kept(task[p])

\* Clients hear of a booking when its last key is tagged, and decide only then.
Heard ==
    /\ \A p \in Procs : task[p].pc = "tag" => task[p].b \notin told
    /\ \A p \in Procs : Deciding(task[p]) => task[p].b \in told
    /\ \A p, q \in Procs : p # q /\ task[p].pc = "tag" /\ task[q].pc = "tag"
                            => task[p].b # task[q].b
    /\ \A b \in told : rows[b].status # None
    /\ \A b \in Bookings \ told : rows[b].status \in {None, "HOLD", "EXPIRED"}

\* The invariant.
KeyInv == TypeInv /\ AllHonest /\ Heard /\ \A s \in Seats : Cared(s)

\* Membership in the parts of a task's list of seats.
LEMMA PartMembers ==
    ASSUME NEW t
    PROVE  /\ \A s : s \in Owed(t) <=> \E k \in Places(t) : Owes(t, k) /\ s = t.seats[k]
           /\ \A s : s \in Kept(t) <=> \E k \in Places(t) : Keeps(t, k) /\ s = t.seats[k]
  BY DEF Owed, Kept

\* One task moves and the table stays: it may delete keys, or set one that it owes.
LEMMA KeysStep ==
    ASSUME KeyInv, TypeInv', AllHonest', NEW p \in Procs, NEW t, Become(p, t),
           rows' = rows, told' = told,
           \A s \in Seats : \/ hold'[s] = hold[s] \/ hold'[s] = NoKey
                            \/ hold'[s].val = Pending /\ s \in Owed(t),
           t.pc = "tag" => task[p].pc = "tag" /\ t.b = task[p].b,
           Deciding(t) => t.b \in told,
           \A s \in Owed(task[p]) : s \in Owed(t) \/ hold'[s] = NoKey,
           \A s \in Seats : Deciding(t) /\ hold'[s].val = t.b /\ hold'[s] = hold[s]
                             => s \in Kept(t)
    PROVE  KeyInv'
  <1>1. /\ \A q \in Procs : task'[q] = IF q = p THEN t ELSE task[q]
        /\ NoKey.val = None /\ None \notin Bookings /\ Pending \notin Bookings /\ Pending # None
    BY BookingsAssumption DEF KeyInv, TypeInv, TypeOK, Become, NoKey, None, Pending
  <1>2. Heard'
    BY <1>1 DEF KeyInv, Heard
  <1>3. ASSUME NEW s \in Seats PROVE Cared(s)'
    <2>1. CASE hold'[s] = NoKey
      BY <1>1, <2>1 DEF Cared
    <2>2. CASE hold'[s].val = Pending /\ s \in Owed(t)
      BY <1>1, <2>2 DEF Cared
    <2>3. CASE hold'[s] = hold[s] /\ hold'[s] # NoKey
      <3>1. Cared(s)
        BY DEF KeyInv
      <3>2. hold[s].val = Pending => \E q \in Procs : s \in Owed(task'[q])
        BY <1>1, <2>3, <3>1 DEF Cared
      <3>3. \A q \in Procs : hold[s].val \in Bookings /\ task'[q].b = hold[s].val
                              /\ Deciding(task'[q]) => s \in Kept(task'[q])
        BY <1>1, <2>3, <3>1 DEF Cared
      <3>. QED BY <2>3, <3>1, <3>2, <3>3 DEF Cared
    <2>. QED BY <2>1, <2>2, <2>3
  <1>. QED BY <1>2, <1>3 DEF KeyInv

\* What a task owes and keeps after it has moved.
LEMMA MovedParts ==
    ASSUME TypeInv, NEW p \in Procs
    PROVE  /\ \A pc : /\ Places(Goto(p, pc)) = Places(task[p])
                      /\ \A k : Goto(p, pc).seats[k] = task[p].seats[k]
           /\ task[p].pc \in {"check"} => Owed(Goto(p, "setnx")) = Owed(task[p])
           /\ task[p].pc = "stamp" => Owed(Stamped(p)) = Owed(task[p])
           /\ Owed(Finished(p)) = {} /\ Owed(Idle) = {}
  <1>1. /\ Finished(p).seats = <<>> /\ Idle.seats = <<>>
    BY DEF Finished, Idle, Start
  <1>. QED BY <1>1, MovedTask DEF SameWork, Owed, Owes, Places

\* rollbackHolds is to delete what the Hold has acquired.
LEMMA RolledBack ==
    ASSUME TypeInv, NEW p \in Procs, NEW n \in 0 .. Len(task[p].seats),
           \A k \in Places(task[p]) : Owes(task[p], k) => k <= n
    PROVE  /\ Rollback(p, n).pc # "tag" /\ ~Deciding(Rollback(p, n))
           /\ Owed(task[p]) \subseteq Owed(Rollback(p, n))
  <1>. DEFINE t == Rollback(p, n)
  <1>1. task[p].seats \in Seq(Seats) /\ Len(task[p].seats) \in Nat
    BY TasksAreGood DEF Good, Task
  <1>2. CASE n = 0
    <2>1. Owed(task[p]) = {}
      BY <1>1, <1>2 DEF Owed, Places
    <2>2. t.pc # "tag" /\ ~Deciding(t)
      BY <1>2 DEF Rollback, Finished, Idle, Start, Deciding, None
    <2>. QED BY <2>1, <2>2
  <1>3. CASE n # 0
    <2>1. /\ t.pc = "release" /\ t.to = None /\ t.i = 1
          /\ t.seats = SubSeq(task[p].seats, 1, n)
      BY <1>3 DEF Rollback, Idle, Start
    <2>. HIDE DEF t
    <2>2. /\ Len(t.seats) = n
          /\ \A k \in 1 .. n : t.seats[k] = task[p].seats[k]
      BY <1>1, <1>3, <2>1, SubSeqProperties
    <2>3. ASSUME NEW s \in Owed(task[p]) PROVE s \in Owed(t)
      <3>1. PICK k \in Places(task[p]) : Owes(task[p], k) /\ s = task[p].seats[k]
        BY PartMembers
      <3>2. k \in Places(t) /\ Owes(t, k) /\ s = t.seats[k]
        BY <1>1, <2>1, <2>2, <3>1 DEF Places, Owes
      <3>. QED BY <3>2, PartMembers
    <2>4. t.pc # "tag" /\ ~Deciding(t)
      BY <2>1 DEF Deciding, None
    <2>. QED BY <2>3, <2>4 DEF t
  <1>. QED BY <1>2, <1>3

\* A seat that is neither the one the loop is at nor one it is past is still before it.
LEMMA RestOfLoop ==
    ASSUME TypeInv, NEW p \in Procs, InLoop(task[p]), NEW k \in Places(task[p]),
           k >= task[p].i, task[p].seats[k] # Seat(p), NEW pc
    PROVE  ~AtLast(p) /\ k \in Places(Again(p, pc)) /\ k >= Again(p, pc).i
           /\ Again(p, pc).seats[k] = task[p].seats[k]
  <1>1. task[p].i \in Nat /\ task[p].i <= Len(task[p].seats) /\ Len(task[p].seats) \in Nat
    BY TasksAreGood DEF Good, Task
  <1>2. k # task[p].i
    BY DEF Seat
  <1>. QED BY <1>1, <1>2, MovedTask DEF SameWork, Places, AtLast

\* The calls that start work: one that decides has all the keys of its booking ahead.
LEMMA StartsKeepKeys ==
    ASSUME KeyInv, TypeInv', AllHonest', NEW p \in Procs,
           \/ \E seats \in Requests : HoldBegin(p, seats)
           \/ \E b \in Bookings : ConfirmLoad(p, b) \/ CancelLoad(p, b)
           \/ CleanupSelect(p) \/ CleanupNext(p)
    PROVE  KeyInv'
  <1>1. Owed(task[p]) = {} /\ UNCHANGED <<hold, rows, told>>
    BY DEF Owed, Owes, HoldBegin, ConfirmLoad, CancelLoad, CleanupSelect, CleanupNext, At
  <1>2. ASSUME NEW t, Become(p, t), t.pc # "tag", ~Deciding(t) PROVE KeyInv'
    BY <1>1, <1>2, KeysStep
  <1>3. CASE \E seats \in Requests : HoldBegin(p, seats)
    <2>1. PICK seats : Become(p, Start("check", seats, None, None))
      BY <1>3 DEF HoldBegin
    <2>. DEFINE t == Start("check", seats, None, None)
    <2>2. t.pc # "tag" /\ ~Deciding(t)
      BY StartedTask DEF Deciding, None
    <2>. HIDE DEF t
    <2>. QED BY <1>2, <2>1, <2>2 DEF t
  <1>4. ASSUME NEW b \in Bookings, ConfirmLoad(p, b) \/ CancelLoad(p, b) PROVE KeyInv'
    <2>1. CASE Become(p, Start("update", <<>>, b, "EXPIRED"))
      <3>. DEFINE t == Start("update", <<>>, b, "EXPIRED")
      <3>1. t.pc # "tag" /\ ~Deciding(t)
        BY StartedTask DEF Deciding
      <3>2. Become(p, t)
        BY <2>1
      <3>. HIDE DEF t
      <3>. QED BY <1>2, <3>1, <3>2
    <2>2. ASSUME NEW t, Become(p, t), t.seats = rows[b].seats, t.i = 1, t.b = b,
                 t.pc = "sadd" \/ (t.pc = "release" /\ t.to # None)
          PROVE  KeyInv'
      <3>1. b \in told
        BY <1>4 DEF ConfirmLoad, CancelLoad, MayCall
      <3>2. ASSUME NEW s \in Seats, hold[s].val = b PROVE s \in Kept(t)
        <4>1. s \in Range(rows[b].seats) /\ rows[b].seats \in Seq(Seats)
          BY <3>2 DEF KeyInv, Cared, TypeInv, TypeOK, Row
        <4>2. PICK k \in 1 .. Len(rows[b].seats) : s = rows[b].seats[k]
          BY <4>1 DEF Range
        <4>. QED BY <2>2, <4>2, PartMembers DEF Places, Keeps
      <3>3. t.pc # "tag"
        BY <2>2
      <3>. QED BY <1>1, <2>2, <3>1, <3>2, <3>3, KeysStep
    <2>3. /\ \A s, c : LET t == Start("sadd", s, c, "CONFIRMED")
                       IN  t.seats = s /\ t.i = 1 /\ t.b = c /\ t.pc = "sadd"
          /\ \A s, c : LET t == Start("release", s, c, "CANCELLED")
                       IN  t.seats = s /\ t.i = 1 /\ t.b = c /\ t.pc = "release" /\ t.to # None
      BY StartedTask DEF None
    <2>. QED BY <1>4, <2>1, <2>2, <2>3 DEF ConfirmLoad, CancelLoad
  <1>5. CASE CleanupSelect(p)
    <2>. DEFINE expired == {b \in Bookings : rows[b].status = "HOLD" /\ rows[b].left < 0}
                t == Selected(expired)
    <2>1. Become(p, t)
      BY <1>5 DEF CleanupSelect, Selected
    <2>. HIDE DEF expired
    <2>2. t.pc # "tag" /\ ~Deciding(t)
      BY StartedTask DEF Deciding, None
    <2>. HIDE DEF t
    <2>. QED BY <1>2, <2>1, <2>2
  <1>6. CASE CleanupNext(p)
    <2>1. PICK b : Become(p, Expiring(p, b))
      BY <1>6 DEF CleanupNext, Expiring
    <2>2. Expiring(p, b).pc # "tag" /\ ~Deciding(Expiring(p, b))
      BY StartedTask DEF Deciding
    <2>. QED BY <1>2, <2>1, <2>2
  <1>. QED BY <1>3, <1>4, <1>5, <1>6

\* The loop of Hold: what it acquires it owes, and rolls back.
LEMMA HoldLoopKeepsKeys ==
    ASSUME KeysReachable, KeyInv, TypeInv', AllHonest', NEW p \in Procs,
           HoldCheck(p) \/ HoldSetNX(p) \/ HoldStamp(p)
    PROVE  KeyInv'
  <1>1. /\ TypeInv /\ task[p] \in Task /\ Honest(task[p], rows) /\ UNCHANGED <<rows, told>>
        /\ InLoop(task[p]) => task[p].i <= Len(task[p].seats)
    BY TasksAreGood DEF KeyInv, AllHonest, Good, HoldCheck, HoldSetNX, HoldStamp
  <1>2. Sent(p) /\ ~Fails(p, "redisFault") /\ ~LosesReply(p, "redisFault")
    BY <1>1 DEF Honest, Sent, Fails, LosesReply, KeysReachable
  <1>3. task[p].pc \in {"check", "setnx", "stamp"} => ~Deciding(task[p])
    BY <1>1 DEF Honest, Deciding
  <1>4. ASSUME task[p].pc \in {"check", "setnx"}, Become(p, Rollback(p, task[p].i - 1)),
               hold' = hold
        PROVE  KeyInv'
    <2>1. task[p].i - 1 \in 0 .. Len(task[p].seats)
      BY <1>1, <1>4 DEF InLoop, Task
    <2>2. \A k \in Places(task[p]) : Owes(task[p], k) => k <= task[p].i - 1
      BY <1>1, <1>4 DEF Owes, Task, Places
    <2>. DEFINE t == Rollback(p, task[p].i - 1)
    <2>3. t.pc # "tag" /\ ~Deciding(t) /\ Owed(task[p]) \subseteq Owed(t)
      BY <1>1, <2>1, <2>2, RolledBack
    <2>. HIDE DEF t
    <2>. QED BY <1>1, <1>4, <2>3, KeysStep DEF t
  <1>5. CASE HoldCheck(p)
    <2>1. task[p].pc = "check" /\ hold' = hold
      BY <1>5 DEF HoldCheck, At
    <2>2. Goto(p, "setnx").pc # "tag" /\ ~Deciding(Goto(p, "setnx"))
      BY <1>1, <1>3, <2>1, MovedTask DEF SameWork, Deciding
    <2>3. Owed(Goto(p, "setnx")) = Owed(task[p])
      BY <1>1, <2>1, MovedParts
    <2>4. Become(p, Goto(p, "setnx")) => KeyInv'
      BY <1>1, <2>1, <2>2, <2>3, KeysStep
    <2>. QED BY <1>4, <1>5, <2>1, <2>4 DEF HoldCheck
  <1>6. CASE HoldSetNX(p)
    <2>1. task[p].pc = "setnx"
      BY <1>6 DEF HoldSetNX, At
    <2>2. CASE hold' = hold /\ Become(p, Rollback(p, task[p].i - 1))
      BY <1>4, <2>1, <2>2
    <2>3. CASE /\ hold' = [hold EXCEPT ![Seat(p)] = [val |-> Pending, ttl |-> TTL]]
               /\ Become(p, Loop(p, "check", Goto(p, "stamp")))
      <3>. DEFINE t == Loop(p, "check", Goto(p, "stamp"))
      <3>1. t = IF AtLast(p) THEN Goto(p, "stamp") ELSE Again(p, "check")
        BY <1>1, MovedTask
      <3>. HIDE DEF t
      <3>2. t.pc # "tag" /\ ~Deciding(t)
        BY <1>1, <1>3, <2>1, <3>1, MovedTask DEF SameWork, Deciding
      <3>3. /\ t.seats = task[p].seats
            /\ \A k \in Places(task[p]) : k <= task[p].i => Owes(t, k)
        BY <1>1, <3>1, MovedTask DEF SameWork, Owes, Task, Places
      <3>4. \A k \in Places(task[p]) : k <= task[p].i => task[p].seats[k] \in Owed(t)
        BY <3>3, PartMembers DEF Places
      <3>5. Owed(task[p]) \subseteq Owed(t)
        <4>1. \A k \in Places(task[p]) : Owes(task[p], k) => k <= task[p].i
          BY <1>1, <2>1 DEF Owes, Task, Places
        <4>. QED BY <3>4, <4>1, PartMembers
      <3>6. Seat(p) \in Owed(t)
        BY <1>1, <2>1, <3>4 DEF Seat, Places, Task, InLoop
      <3>7. \A s \in Seats : hold'[s] = hold[s] \/ (hold'[s].val = Pending /\ s \in Owed(t))
        BY <1>1, <2>3, <3>6 DEF TypeInv, TypeOK
      <3>. QED BY <1>1, <2>3, <3>2, <3>5, <3>7, KeysStep DEF t
    <2>. QED BY <1>2, <1>6, <2>2, <2>3 DEF HoldSetNX
  <1>7. CASE HoldStamp(p)
    <2>1. task[p].pc = "stamp" /\ hold' = hold /\ Become(p, Stamped(p))
      BY <1>7 DEF HoldStamp, At, Stamped
    <2>2. Stamped(p).pc # "tag" /\ ~Deciding(Stamped(p))
      BY <1>1, <1>3, <2>1, MovedTask DEF SameWork, Deciding
    <2>3. Owed(Stamped(p)) = Owed(task[p])
      BY <1>1, <2>1, MovedParts
    <2>. QED BY <1>1, <2>1, <2>2, <2>3, KeysStep
  <1>. QED BY <1>5, <1>6, <1>7

\* The DELs: of a key that is deleted nobody asks who owns it.
LEMMA DeletesKeepKeys ==
    ASSUME KeysReachable, KeyInv, TypeInv', AllHonest', NEW p \in Procs,
           ConfirmSAdd(p) \/ ConfirmUnlock(p) \/ Release(p)
    PROVE  KeyInv'
  <1>1. /\ TypeInv /\ task[p] \in Task /\ Honest(task[p], rows) /\ UNCHANGED <<rows, told>>
        /\ InLoop(task[p]) => task[p].i <= Len(task[p].seats)
    BY TasksAreGood DEF KeyInv, AllHonest, Good, ConfirmSAdd, ConfirmUnlock, Release
  <1>2. Sent(p) /\ ~Fails(p, "redisFault")
    BY <1>1 DEF Honest, Sent, Fails, KeysReachable
  <1>3. Deciding(task[p]) => task[p].b \in told
    BY DEF KeyInv, Heard
  <1>4. \A s \in Seats : Deciding(task[p]) /\ hold[s].val = task[p].b => s \in Kept(task[p])
    <2>. SUFFICES ASSUME NEW s \in Seats, Deciding(task[p]), hold[s].val = task[p].b
                  PROVE  s \in Kept(task[p])
      OBVIOUS
    <2>1. task[p].b \in Bookings
      BY <1>1, <1>3 DEF TypeInv, TypeOK
    <2>. QED BY <2>1 DEF KeyInv, Cared
  <1>5. CASE ConfirmSAdd(p)
    <2>. DEFINE t == Goto(p, "unlock")
    <2>1. task[p].pc = "sadd" /\ hold' = hold /\ Become(p, t)
      BY <1>5 DEF ConfirmSAdd, At
    <2>2. SameWork(t, task[p]) /\ t.pc = "unlock" /\ t.i = task[p].i
      BY <1>1, MovedTask
    <2>. HIDE DEF t
    <2>3. Owed(task[p]) = {} /\ Kept(t) = Kept(task[p])
      BY <2>1, <2>2 DEF SameWork, Owed, Owes, Kept, Keeps, Places
    <2>4. (Deciding(t) <=> Deciding(task[p])) /\ t.b = task[p].b /\ t.pc # "tag"
      BY <2>2 DEF SameWork, Deciding
    <2>. QED BY <1>1, <1>3, <1>4, <2>1, <2>3, <2>4, KeysStep
  <1>6. ASSUME InLoop(task[p]), task[p].pc \in {"unlock", "release"},
               hold' = [hold EXCEPT ![Seat(p)] = NoKey],
               NEW t, Become(p, t), NEW pc \in {"sadd", "release"},
               ~AtLast(p) => t = Again(p, pc),
               pc = "release" <=> task[p].pc = "release",
               t.pc # "tag", Deciding(t) => t.to = task[p].to /\ t.b = task[p].b
        PROVE  KeyInv'
    <2>1. \A s \in Seats : hold'[s] = IF s = Seat(p) THEN NoKey ELSE hold[s]
      BY <1>1, <1>6 DEF TypeInv, TypeOK
    <2>2. Owed(task[p]) \subseteq Seats
      BY <1>1, PartMembers, ElementOfSeq DEF Task, Places
    <2>3. ASSUME NEW s \in Owed(task[p]), s # Seat(p) PROVE s \in Owed(t)
      <3>1. PICK k \in Places(task[p]) : Owes(task[p], k) /\ s = task[p].seats[k]
        BY PartMembers
      <3>2. task[p].pc = "release" /\ task[p].to = None /\ k >= task[p].i
        BY <1>6, <3>1 DEF Owes
      <3>3. t = Again(p, pc) /\ k \in Places(t) /\ k >= t.i /\ t.seats[k] = s
        BY <1>1, <1>6, <2>3, <3>1, <3>2, RestOfLoop
      <3>4. t.pc = "release" /\ t.to = None
        BY <1>1, <1>6, <3>2, <3>3, MovedTask DEF SameWork
      <3>. QED BY <3>3, <3>4, PartMembers DEF Owes
    <2>4. ASSUME NEW s \in Seats, Deciding(t), hold'[s].val = t.b, hold'[s] = hold[s]
          PROVE  s \in Kept(t)
      <3>1. t.to = task[p].to /\ t.b = task[p].b /\ Deciding(task[p]) /\ t.to # None
        BY <1>6, <2>4 DEF Deciding, None
      <3>2. s \in Kept(task[p]) /\ s # Seat(p)
        <4>1. s \in Kept(task[p])
          BY <1>4, <2>4, <3>1
        <4>2. NoKey.val # t.b
          BY <1>1, <1>3, <3>1, BookingsAssumption DEF NoKey, None, TypeInv, TypeOK
        <4>. QED BY <2>1, <2>4, <4>1, <4>2
      <3>3. PICK k \in Places(task[p]) : Keeps(task[p], k) /\ s = task[p].seats[k]
        BY <3>2, PartMembers
      <3>4. k >= task[p].i
        BY <1>6, <3>3 DEF Keeps
      <3>5. t = Again(p, pc) /\ k \in Places(t) /\ k >= t.i /\ t.seats[k] = s
        BY <1>1, <1>6, <3>2, <3>3, <3>4, RestOfLoop
      <3>6. t.pc = pc
        BY <1>1, <3>5, MovedTask
      <3>. QED BY <1>6, <3>1, <3>5, <3>6, PartMembers DEF Keeps
    <2>5. Deciding(t) => t.b \in told
      BY <1>3, <1>6 DEF Deciding
    <2>6. \A s \in Owed(task[p]) : s \in Owed(t) \/ hold'[s] = NoKey
      BY <2>1, <2>2, <2>3
    <2>7. \A s \in Seats : hold'[s] = hold[s] \/ hold'[s] = NoKey
      BY <2>1
    <2>. QED BY <1>1, <1>6, <2>4, <2>5, <2>6, <2>7, KeysStep
  <1>7. CASE ConfirmUnlock(p)
    <2>. DEFINE t == Loop(p, "sadd", Goto(p, "update"))
    <2>1. /\ task[p].pc = "unlock" /\ InLoop(task[p]) /\ Become(p, t)
          /\ hold' = [hold EXCEPT ![Seat(p)] = NoKey]
      BY <1>2, <1>7 DEF ConfirmUnlock, At, InLoop
    <2>2. t = IF AtLast(p) THEN Goto(p, "update") ELSE Again(p, "sadd")
      BY <1>1, MovedTask
    <2>. HIDE DEF t
    <2>3. t.pc # "tag" /\ t.to = task[p].to /\ t.b = task[p].b
      BY <1>1, <2>2, MovedTask DEF SameWork
    <2>. QED BY <1>6, <2>1, <2>2, <2>3
  <1>8. CASE Release(p)
    <2>. DEFINE d == IF task[p].to = None THEN Finished(p) ELSE Goto(p, "update")
                t == Loop(p, "release", d)
    <2>1. /\ task[p].pc = "release" /\ InLoop(task[p]) /\ Become(p, t)
          /\ hold' = [hold EXCEPT ![Seat(p)] = NoKey]
      BY <1>2, <1>8 DEF Release, At, InLoop
    <2>2. t = IF AtLast(p) THEN d ELSE Again(p, "release")
      BY <1>1, MovedTask
    <2>3. d.pc # "tag" /\ (Deciding(d) => d.to = task[p].to /\ d.b = task[p].b)
      <3>1. Finished(p).pc # "tag" /\ Finished(p).to = None
        BY DEF Finished, Idle, Start
      <3>2. SameWork(Goto(p, "update"), task[p]) /\ Goto(p, "update").pc = "update"
        BY <1>1, MovedTask
      <3>. QED BY <3>1, <3>2 DEF SameWork, Deciding, None
    <2>. HIDE DEF d, t
    <2>4. t.pc # "tag" /\ (Deciding(t) => t.to = task[p].to /\ t.b = task[p].b)
      BY <1>1, <2>2, <2>3, MovedTask DEF SameWork
    <2>. QED BY <1>6, <2>1, <2>2, <2>4
  <1>. QED BY <1>5, <1>7, <1>8

\* The SET: a booking nobody has heard of yet gets the key, and no call decides it.
LEMMA HoldTagKeepsKeys ==
    ASSUME KeysReachable, KeyInv, TypeInv', AllHonest', NEW p \in Procs, HoldTag(p)
    PROVE  KeyInv'
  <1>. DEFINE t == Loop(p, "tag", Finished(p))
              b == task[p].b
  <1>1. /\ TypeInv /\ task[p] \in Task /\ Honest(task[p], rows) /\ rows' = rows
        /\ task[p].pc = "tag" /\ InLoop(task[p]) /\ task[p].i <= Len(task[p].seats)
        /\ b \in Bookings /\ rows[b].status # None /\ Become(p, t)
    BY TasksAreGood
    DEF KeyInv, AllHonest, Good, TaskFits, Placed, HoldTag, At, InLoop, Task
  <1>2. Sent(p) /\ ~Fails(p, "redisFault") /\ task[p].gone = FALSE
    BY <1>1 DEF Honest, Sent, Fails, KeysReachable
  <1>3. /\ b \notin told /\ rows[b].status \in {"HOLD", "EXPIRED"}
        /\ Seat(p) \in Range(rows[b].seats)
    <2>1. Seat(p) \in Range(task[p].seats)
      BY <1>1 DEF Seat, Range, Task
    <2>. QED BY <1>1, <2>1 DEF KeyInv, Heard, Honest
  <1>4. /\ \A s \in Seats : hold'[s] = IF s = Seat(p) THEN [val |-> b, ttl |-> TTL] ELSE hold[s]
        /\ told' = IF AtLast(p) THEN told \cup {b} ELSE told
    BY <1>1, <1>2 DEF HoldTag, TypeInv, TypeOK
  <1>5. t = IF AtLast(p) THEN Finished(p) ELSE Again(p, "tag")
    BY <1>1, MovedTask
  <1>6. /\ ~Deciding(t)
        /\ t.pc = "tag" => t.b = b /\ ~AtLast(p)
    <2>1. ~Deciding(Finished(p)) /\ Finished(p).pc # "tag"
      BY DEF Finished, Idle, Start, Deciding, None
    <2>2. ~Deciding(Again(p, "tag")) /\ Again(p, "tag").b = b
      BY <1>1, MovedTask DEF SameWork, Honest, Deciding, None
    <2>. QED BY <1>5, <2>1, <2>2
  <1>7. ASSUME NEW s \in Owed(task[p]), s # Seat(p) PROVE s \in Owed(t)
    <2>1. PICK k \in Places(task[p]) : Owes(task[p], k) /\ s = task[p].seats[k]
      BY PartMembers
    <2>2. k >= task[p].i
      BY <1>1, <2>1 DEF Owes
    <2>3. ~AtLast(p) /\ k \in Places(Again(p, "tag")) /\ k >= Again(p, "tag").i
          /\ Again(p, "tag").seats[k] = s /\ Again(p, "tag").pc = "tag"
      BY <1>1, <1>7, <2>1, <2>2, RestOfLoop, MovedTask
    <2>. QED BY <1>5, <2>3, PartMembers DEF Owes
  <1>. HIDE DEF t
  <1>8. /\ \A q \in Procs : task'[q] = IF q = p THEN t ELSE task[q]
        /\ None \notin Bookings /\ Pending \notin Bookings
    BY <1>1, BookingsAssumption DEF TypeInv, TypeOK, Become
  <1>9. Heard'
    BY <1>1, <1>3, <1>4, <1>6, <1>8 DEF KeyInv, Heard
  <1>10. ASSUME NEW s \in Seats PROVE Cared(s)'
    <2>1. Cared(s)
      BY DEF KeyInv
    <2>2. CASE s = Seat(p)
      <3>1. \A q \in Procs : Deciding(task'[q]) => task'[q].b # b
        BY <1>3, <1>6, <1>8 DEF KeyInv, Heard
      <3>2. hold'[s].val = b
        BY <1>4, <2>2
      <3>. QED BY <1>1, <1>3, <1>8, <2>2, <3>1, <3>2 DEF Cared
    <2>3. CASE s # Seat(p)
      <3>1. hold[s].val = Pending => \E q \in Procs : s \in Owed(task'[q])
        BY <1>7, <1>8, <2>1, <2>3 DEF Cared
      <3>2. \A q \in Procs : hold[s].val \in Bookings /\ task'[q].b = hold[s].val
                              /\ Deciding(task'[q]) => s \in Kept(task'[q])
        BY <1>6, <1>8, <2>1 DEF Cared
      <3>3. hold'[s] = hold[s]
        BY <1>4, <2>3
      <3>. QED BY <1>1, <2>1, <3>1, <3>2, <3>3 DEF Cared
    <2>. QED BY <2>2, <2>3
  <1>. QED BY <1>9, <1>10 DEF KeyInv

\* The INSERT: the new booking has no key, and no call knows of it.
LEMMA HoldInsertKeepsKeys ==
    ASSUME KeysReachable, KeyInv, TypeInv', AllHonest', NEW p \in Procs, HoldInsert(p)
    PROVE  KeyInv'
  <1>. DEFINE r == Rollback(p, Len(task[p].seats))
  <1>1. /\ TypeInv /\ task[p] \in Task /\ task[p].pc = "insert" /\ UNCHANGED <<hold, told>>
        /\ Len(task[p].seats) \in Nat /\ rows \in [Bookings -> Row]
    BY TasksAreGood DEF KeyInv, Good, HoldInsert, At, Task, TypeInv, TypeOK
  <1>2. r.pc # "tag" /\ ~Deciding(r) /\ Owed(task[p]) \subseteq Owed(r)
    <2>1. \A k \in Places(task[p]) : Owes(task[p], k) => k <= Len(task[p].seats)
      BY <1>1 DEF Places
    <2>. QED BY <1>1, <2>1, RolledBack
  <1>. HIDE DEF r
  <1>3. CASE rows' = rows /\ Become(p, r)
    BY <1>1, <1>2, <1>3, KeysStep
  <1>4. ASSUME NEW b \in Bookings, rows[b] = NoRow,
               rows' = [rows EXCEPT ![b] = [status |-> "HOLD", seats |-> task[p].seats,
                                            left |-> task[p].left]],
               NEW t, Become(p, t), ~Deciding(t), t.pc = "tag" => t.b = b,
               Owed(task[p]) \subseteq Owed(t)
        PROVE  KeyInv'
    <2>1. /\ \A q \in Procs : task'[q] = IF q = p THEN t ELSE task[q]
          /\ \A c \in Bookings : c # b => rows'[c] = rows[c]
          /\ rows'[b].status = "HOLD" /\ rows[b].status = None
      BY <1>1, <1>4 DEF TypeInv, TypeOK, Become, NoRow
    <2>2. /\ b \notin told
          /\ \A q \in Procs : task[q].b # b
          /\ \A s \in Seats : hold[s].val # b
      <3>1. b \notin told
        BY <2>1 DEF KeyInv, Heard
      <3>2. \A q \in Procs : task[q].b # b
        BY <1>1, <1>4, <2>1, BookingsAssumption, TasksAreGood DEF Good, TaskFits
      <3>3. \A s \in Seats : hold[s].val # b
        BY <1>4, <2>1 DEF KeyInv, Cared, None
      <3>. QED BY <3>1, <3>2, <3>3
    <2>3. Heard'
      BY <1>1, <1>4, <2>1, <2>2 DEF KeyInv, Heard, None
    <2>4. ASSUME NEW s \in Seats PROVE Cared(s)'
      <3>1. Cared(s) /\ hold'[s] = hold[s]
        BY <1>1 DEF KeyInv
      <3>2. hold[s].val \in Bookings => rows'[hold[s].val] = rows[hold[s].val]
        BY <2>1, <2>2
      <3>3. hold[s].val = Pending => \E q \in Procs : s \in Owed(task'[q])
        BY <1>4, <2>1, <3>1 DEF Cared
      <3>4. \A q \in Procs : hold[s].val \in Bookings /\ task'[q].b = hold[s].val
                              /\ Deciding(task'[q]) => s \in Kept(task'[q])
        BY <1>4, <2>1, <3>1 DEF Cared
      <3>. QED BY <3>1, <3>2, <3>3, <3>4 DEF Cared
    <2>. QED BY <2>3, <2>4 DEF KeyInv
  <1>5. ASSUME NEW b \in Bookings
        PROVE  /\ ~Deciding(Tagging(p, b)) /\ Tagging(p, b).b = b
               /\ Owed(task[p]) \subseteq Owed(Tagging(p, b))
    <2>1. /\ Tagging(p, b).pc = "tag" /\ Tagging(p, b).seats = task[p].seats
          /\ Tagging(p, b).i = 1 /\ Tagging(p, b).b = b /\ Tagging(p, b).to = None
      BY StartedTask
    <2>2. Owed(task[p]) \subseteq Owed(Tagging(p, b))
      BY <2>1 DEF Owed, Owes, Places
    <2>. QED BY <2>1, <2>2 DEF Deciding, None
  <1>6. \/ rows' = rows /\ Become(p, r)
        \/ \E b \in Bookings :
              /\ rows[b] = NoRow
              /\ rows' = [rows EXCEPT ![b] = [status |-> "HOLD", seats |-> task[p].seats,
                                              left |-> task[p].left]]
              /\ Become(p, Tagging(p, b)) \/ Become(p, r)
    BY DEF HoldInsert, Tagging, r
  <1>. QED BY <1>2, <1>3, <1>4, <1>5, <1>6

\* The UPDATE: the call that decides has deleted the keys by then.
LEMMA UpdateStatusKeepsKeys ==
    ASSUME KeyInv, TypeInv', AllHonest', NEW p \in Procs, UpdateStatus(p)
    PROVE  KeyInv'
  <1>. DEFINE t == Finished(p)
              b == task[p].b
  <1>1. /\ TypeInv /\ task[p] \in Task /\ UNCHANGED <<hold, told>> /\ Become(p, t)
        /\ task[p].pc = "update" /\ b \in Bookings /\ rows \in [Bookings -> Row]
        /\ task[p].to \in {"CONFIRMED", "CANCELLED", "EXPIRED"}
    BY TasksAreGood
    DEF KeyInv, AllHonest, Honest, Good, TaskFits, Placed, UpdateStatus, At, Task, Status,
        TypeInv, TypeOK
  <1>2. t.pc # "tag" /\ ~Deciding(t) /\ Owed(task[p]) = {} /\ Kept(task[p]) = {}
    BY <1>1 DEF Finished, Idle, Start, Deciding, None, Owed, Owes, Kept, Keeps
  <1>. HIDE DEF t
  <1>3. CASE rows' = rows
    BY <1>1, <1>2, <1>3, KeysStep
  <1>4. CASE rows' = [rows EXCEPT ![b].status = task[p].to]
    <2>1. /\ \A q \in Procs : task'[q] = IF q = p THEN t ELSE task[q]
          /\ \A c \in Bookings : /\ rows'[c].seats = rows[c].seats
                                 /\ rows'[c].status = IF c = b THEN task[p].to ELSE rows[c].status
      BY <1>1, <1>4 DEF TypeInv, TypeOK, Become, Row
    <2>2. Heard'
      <3>1. \A c \in told : c \in Bookings
        BY <1>1 DEF TypeInv, TypeOK
      <3>2. b \notin told => task[p].to = "EXPIRED"
        BY <1>1 DEF KeyInv, Heard, Deciding
      <3>. QED BY <1>1, <1>2, <2>1, <3>1, <3>2 DEF KeyInv, Heard, None
    <2>3. ASSUME NEW s \in Seats PROVE Cared(s)'
      <3>1. Cared(s) /\ hold'[s] = hold[s]
        BY <1>1 DEF KeyInv
      <3>2. hold[s].val = Pending => \E q \in Procs : s \in Owed(task'[q])
        BY <1>2, <2>1, <3>1 DEF Cared
      <3>3. \A q \in Procs : hold[s].val \in Bookings /\ task'[q].b = hold[s].val
                              /\ Deciding(task'[q]) => s \in Kept(task'[q])
        BY <1>2, <2>1, <3>1 DEF Cared
      <3>4. hold[s].val = b => task[p].to = "EXPIRED"
        BY <1>1, <1>2, <3>1 DEF Cared, Deciding
      <3>. QED BY <2>1, <3>1, <3>2, <3>3, <3>4 DEF Cared
    <2>. QED BY <2>2, <2>3 DEF KeyInv
  <1>. QED BY <1>3, <1>4 DEF UpdateStatus

\* Time passes: keys expire, and tasks are where they were.
LEMMA TickKeepsKeys ==
    ASSUME KeyInv, TypeInv', AllHonest', Tick
    PROVE  KeyInv'
  <1>1. TypeInv /\ told' = told
    BY DEF KeyInv, Tick
  <1>2. /\ \A b \in Bookings : /\ rows'[b].status = rows[b].status
                               /\ rows'[b].seats = rows[b].seats
        /\ \A q \in Procs : /\ task'[q].pc = task[q].pc /\ task'[q].seats = task[q].seats
                            /\ task'[q].i = task[q].i /\ task'[q].b = task[q].b
                            /\ task'[q].to = task[q].to
    BY <1>1, TickAges
  <1>3. \A q \in Procs : /\ Owed(task'[q]) = Owed(task[q]) /\ Kept(task'[q]) = Kept(task[q])
                         /\ Deciding(task'[q]) <=> Deciding(task[q])
    BY <1>2 DEF Owed, Owes, Kept, Keeps, Places, Deciding
  <1>4. \A s \in Seats : hold'[s] = NoKey \/ hold'[s].val = hold[s].val
    <2>1. \A s \in Seats : hold[s] \in Key
      BY <1>1 DEF TypeInv, TypeOK
    <2>. QED BY <2>1 DEF Tick, Key
  <1>5. Heard'
    <2>1. \A b \in told : b \in Bookings
      BY <1>1 DEF TypeInv, TypeOK
    <2>. QED BY <1>1, <1>2, <1>3, <2>1 DEF KeyInv, Heard
  <1>6. ASSUME NEW s \in Seats PROVE Cared(s)'
    <2>1. Cared(s) /\ NoKey.val = None /\ None \notin Bookings /\ Pending # None
      BY BookingsAssumption DEF KeyInv, NoKey, None, Pending
    <2>2. CASE hold'[s] = NoKey
      BY <2>1, <2>2 DEF Cared
    <2>3. CASE hold'[s].val = hold[s].val
      BY <1>2, <1>3, <2>1, <2>3 DEF Cared
    <2>. QED BY <1>4, <2>2, <2>3
  <1>. QED BY <1>5, <1>6 DEF KeyInv

\* No key and no task to begin with.
LEMMA KeyInvInitially == Init => KeyInv
  <1>. SUFFICES ASSUME Init PROVE KeyInv
    OBVIOUS
  <1>1. /\ TypeInv /\ AllHonest
        /\ \A q \in Procs : task[q] = Idle
        /\ \A b \in Bookings : rows[b] = NoRow
        /\ \A s \in Seats : hold[s] = NoKey
        /\ told = {}
    BY TypeInvInitially, HonestInitially DEF Init
  <1>2. Idle.pc # "tag" /\ ~Deciding(Idle) /\ NoRow.status = None /\ NoKey.val = None
        /\ None \notin Bookings /\ Pending # None
    BY BookingsAssumption DEF Idle, Start, Deciding, NoRow, NoKey, None, Pending
  <1>3. Heard
    BY <1>1, <1>2 DEF Heard
  <1>4. \A s \in Seats : Cared(s)
    BY <1>1, <1>2 DEF Cared
  <1>. QED BY <1>1, <1>3, <1>4 DEF KeyInv

\* KeyInv is inductive.
LEMMA KeyInvIsInductive ==
    ASSUME KeysReachable
    PROVE  KeyInv /\ [Next]_vars => KeyInv'
  <1>. SUFFICES ASSUME KeyInv, [Next]_vars PROVE KeyInv'
    OBVIOUS
  <1>1. TypeInv' /\ AllHonest'
    BY TypeInvIsInductive, HonestIsInductive DEF KeyInv, KeysReachable
  <1>2. \A p : ~Crash(p) /\ ~ClientLeaves(p)
    BY DEF Crash, ClientLeaves, KeysReachable
  <1>. USE DEF Procs
  <1>3. ASSUME NEW p \in Workers, ClientStep(p) PROVE KeyInv'
    BY <1>1, <1>2, <1>3, StartsKeepKeys DEF ClientStep
  <1>4. ASSUME NEW p \in Workers, HandlerStep(p) PROVE KeyInv'
    BY <1>1, <1>4, HoldLoopKeepsKeys, HoldInsertKeepsKeys, HoldTagKeepsKeys, DeletesKeepKeys
    DEF HandlerStep
  <1>5. ASSUME NEW p \in Jobs, JobStep(p) PROVE KeyInv'
    BY <1>1, <1>5, StartsKeepKeys DEF JobStep
  <1>6. ASSUME NEW p \in Procs, Release(p) \/ UpdateStatus(p) PROVE KeyInv'
    BY <1>1, <1>6, DeletesKeepKeys, UpdateStatusKeepsKeys
  <1>7. CASE RedisRestart
    <2>1. /\ UNCHANGED <<rows, told, task>> /\ \A s \in Seats : hold'[s].val = None
          /\ None \notin Bookings /\ Pending # None
      BY <1>7, BookingsAssumption DEF RedisRestart, NoKey, None, Pending
    <2>. QED BY <1>1, <2>1 DEF KeyInv, Heard, Cared
  <1>8. CASE UNCHANGED vars
    BY <1>1, <1>8 DEF vars, KeyInv, Heard, Cared
  <1>. QED BY <1>1, <1>2, <1>3, <1>4, <1>5, <1>6, <1>7, <1>8, TickKeepsKeys DEF Next

\* The keys a task owes are among those it has acquired.
LEMMA OwedIsAcquired ==
    ASSUME TypeInv, NEW p \in Procs, NEW s \in Owed(task[p])
    PROVE  s \in Acquired(p)
  <1>1. /\ task[p].seats \in Seq(Seats) /\ task[p].i \in Nat \ {0}
        /\ Len(task[p].seats) \in Nat
        /\ InLoop(task[p]) => task[p].i <= Len(task[p].seats)
        /\ \A k \in Places(task[p]) : task[p].seats[k] \in Seats
    BY TasksAreGood, ElementOfSeq DEF Good, Task, Places
  <1>2. PICK k \in Places(task[p]) : Owes(task[p], k) /\ s = task[p].seats[k]
    BY PartMembers
  <1>3. CASE task[p].pc \in {"stamp", "insert"}
    BY <1>1, <1>2, <1>3 DEF Acquired, Range, Places
  <1>4. CASE task[p].pc \in {"check", "setnx"}
    <2>. DEFINE r == SubSeq(task[p].seats, 1, task[p].i - 1)
    <2>1. k \in 1 .. task[p].i - 1 /\ task[p].i - 1 <= Len(task[p].seats)
      BY <1>1, <1>2, <1>4 DEF Owes, Places, InLoop
    <2>2. r \in Seq(Seats) /\ Len(r) = task[p].i - 1 /\ r[k] = s
      BY <1>1, <1>2, <2>1, SubSeqProperties DEF Places
    <2>3. s \in Range(r)
      <3>. HIDE DEF r
      <3>1. k \in DOMAIN r
        BY <2>1, <2>2
      <3>. QED BY <2>2, <3>1 DEF Range
    <2>. QED BY <1>4, <2>3 DEF Acquired
  <1>5. CASE task[p].pc \in {"release", "tag"}
    <2>. DEFINE m == task[p].i
                n == Len(task[p].seats)
                r == SubSeq(task[p].seats, m, n)
    <2>1. k \in m .. n /\ m \in 1 .. n
      BY <1>1, <1>2, <1>5 DEF Owes, Places, InLoop
    <2>2. /\ r \in Seq(Seats) /\ Len(r) = n - m + 1
          /\ \A j \in 1 .. n - m + 1 : r[j] = task[p].seats[m + j - 1]
      BY <1>1, <2>1, SubSeqProperties DEF Places
    <2>. HIDE DEF r
    <2>3. PICK j \in 1 .. n - m + 1 : m + j - 1 = k
      <3>1. k - m + 1 \in 1 .. n - m + 1 /\ m + (k - m + 1) - 1 = k
        BY <1>1, <2>1
      <3>. QED BY <3>1
    <2>4. s \in Range(r)
      <3>1. j \in DOMAIN r /\ r[j] = s
        BY <1>1, <1>2, <2>1, <2>2, <2>3
      <3>. QED BY <3>1 DEF Range
    <2>. QED BY <1>5, <2>4 DEF Acquired, r
  <1>. QED BY <1>2, <1>3, <1>4, <1>5 DEF Owes

\* No key is left behind: "pending" belongs to a Hold that will tag or delete it, a
\* booking's id to a booking that is HOLD or EXPIRED.  CronJobs, two calls at once on
\* one booking, Holds that race a Confirm, late cancels, slow handlers, failing
\* Postgres calls and restarts of Redis are all allowed.  Excluded is what keeps a DEL
\* from being sent or from working: a pod that dies, a client that leaves, a Redis
\* call that fails (KeysReachable).
THEOREM NoLockIsOrphaned ==
    ASSUME KeysReachable
    PROVE  Spec => []NoOrphanLocks
  <1>1. KeyInv => NoOrphanLocks
    <2>. SUFFICES ASSUME KeyInv, NEW s \in Seats
                  PROVE  /\ hold[s].val = Pending => \E p \in Procs : s \in Acquired(p)
                         /\ hold[s].val \in Bookings =>
                               rows[hold[s].val].status \in {"HOLD", "EXPIRED"}
      BY DEF NoOrphanLocks
    <2>. QED BY OwedIsAcquired DEF KeyInv, Cared
  <1>. QED BY <1>1, KeyInvInitially, KeyInvIsInductive, PTL DEF Spec
=============================================================================
