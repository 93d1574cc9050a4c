------------------------ MODULE BookingLedgerProofs ------------------------
(***************************************************************************)
(* booking-service under the hypothesis Careful: proofs for any seats,     *)
(* requests, bookings and handlers that the hold keys cover the bookings   *)
(* they are meant to cover, and that the service then implements the       *)
(* ledger of SeatLedger and sells no seat twice.                           *)
(*                                                                         *)
(* Careful is far from what is deployed.  It excludes more than failures:  *)
(* also the CronJob, two calls at once on a booking, a Cancel after        *)
(* expires_at and handlers slower than the TTL.  For the ledger there is a *)
(* further exclusion, NoRace: no Confirm frees a seat between a Hold's     *)
(* SISMEMBER and its SETNX.  The code needs each of these to be absent:    *)
(* any one of them leads to a seat sold twice.  The theorems say what the  *)
(* handlers achieve by themselves, whichever way their calls interleave,   *)
(* and so that these are all there is to exclude.                          *)
(*                                                                         *)
(* The argument is about who owns a key.  A key says "pending" exactly     *)
(* while one Hold still owes it a tag or a DEL, and carries the id of a    *)
(* booking only while that booking may be sold, or has expired.  A Hold    *)
(* takes a key only when there is none, and a seat that is sold has none,  *)
(* unless the race of NoRace has given it one.                             *)
(***************************************************************************)
EXTENDS BookingServiceProofs

\* Careful: no pod dies, no client leaves, no call to Redis or Postgres fails, Redis
\* does not restart; one call at a time on each booking; no Cancel past expires_at;
\* every call ends in MaxDelay and before its booking expires; the CronJob is not
\* deployed; and a key outlives the Hold that sets it.
Careful == Env \subseteq {"gap"} /\ Jobs = {} /\ MaxDelay <= TTL

\* No Confirm frees a seat that a Hold has read as not sold and is about to lock.
NoRace == "gap" \notin Env
-----------------------------------------------------------------------------
(* The seats that a task is at. *)

\* The seat a Hold has just read as not sold, and the one a Confirm is freeing.
Trying(t)  == IF t.pc = "setnx" THEN {t.seats[t.i]} ELSE {}
Freeing(t) == IF t.pc = "unlock" THEN {t.seats[t.i]} ELSE {}
-----------------------------------------------------------------------------
(* The invariant. *)

\* The request's context has not ended, and what the task is doing decides what
\* it knows of its booking.
Shaped(t) ==
    /\ t.gone = FALSE /\ t.batch = {} /\ t.pc # "next" /\ t.to # "HOLD"
    /\ t.pc \in {"idle", "check", "setnx", "stamp", "insert"} => t.b = None /\ t.to = None
    /\ t.pc = "tag" => t.to = None
    /\ t.pc = "release" => t.to \in {None, "CANCELLED"}
    /\ t.pc = "release" /\ t.to = None => t.b = None
    /\ t.pc = "insert" => t.left >= TTL - t.age

\* A call works on a booking that is HOLD, has its seats, and is in time; only to
\* store EXPIRED is it late.  Clients are told of a booking after the last tag.
Works(t) ==
    t.b # None =>
        /\ rows[t.b].status = "HOLD"
        /\ t.to = "EXPIRED" => t.pc = "update" /\ rows[t.b].left < 0
        /\ t.to # "EXPIRED" => rows[t.b].left >= 0 /\ t.seats = rows[t.b].seats
        /\ t.pc = "tag" <=> t.b \notin told

\* The keys a Hold owes are pairwise different, say "pending", and live at least
\* as long as the Hold may take.
Pends(t) ==
    /\ \A j, k \in Places(t) :
          Owes(t, j) /\ Owes(t, k) /\ t.seats[j] = t.seats[k] => j = k
    /\ \A s \in Owed(t) : hold[s].val = Pending /\ hold[s].ttl >= TTL - t.age

\* The key of s carries the id of b and outlives its expires_at.
LockedBy(s, b) == hold[s].val = b /\ hold[s].ttl >= rows[b].left

\* What is true of each task.
TaskInv(t) ==
    /\ Shaped(t) /\ Works(t) /\ Pends(t)
    /\ \A s \in Kept(t) : LockedBy(s, t.b)
    /\ NoRace => \A s \in Trying(t) : hold[s] = NoKey => s \notin booked

\* Two calls never work on the same booking or owe the same key.
TasksApart ==
    \A p, q \in Procs : p # q =>
        /\ task[p].b = task[q].b => task[p].b = None
        /\ Owed(task[p]) \cap Owed(task[q]) = {}

\* What the table says: a booking has each of its seats once, and clients know
\* of every HOLD that is not being made.
RowsInv ==
    \A b \in Bookings :
        /\ \A j, k \in 1 .. Len(rows[b].seats) : rows[b].seats[j] = rows[b].seats[k] => j = k
        /\ rows[b].status = "HOLD" /\ b \notin told => InFlight(b)
        /\ b \in told => rows[b].status # None

\* The keys the other way round: who is behind each of them.
KeysInv ==
    /\ \A s \in Seats : hold[s].val = Pending => \E p \in Procs : s \in Owed(task[p])
    /\ \A s \in Seats : hold[s].val \in Bookings =>
          /\ rows[hold[s].val].status \in {"HOLD", "EXPIRED"}
          /\ s \in Range(rows[hold[s].val].seats)
          /\ \A p \in Procs : task[p].b = hold[s].val =>
                s \in Kept(task[p]) \/ task[p].to = "EXPIRED"
    /\ \A b \in Bookings : LiveHold(b) /\ ~InFlight(b) =>
          \A s \in Range(rows[b].seats) : LockedBy(s, b)

\* Nobody can lock a seat again that is sold.
SoldSeatsInv ==
    NoRace => \A s \in booked : hold[s] = NoKey \/ \E p \in Procs : s \in Freeing(task[p])

CarefulInv ==
    /\ SoldInv
    /\ \A p \in Procs : TaskInv(task[p])
    /\ TasksApart /\ RowsInv /\ KeysInv /\ SoldSeatsInv
-----------------------------------------------------------------------------
(* Preliminaries. *)

\* A task that is in no loop over keys has none.
LEMMA NoParts ==
    ASSUME NEW t
    PROVE  /\ t.pc \in {"idle", "sadd", "unlock", "update"} => Owed(t) = {}
           /\ t.pc = "release" /\ t.to # None => Owed(t) = {}
           /\ t.pc \in {"idle", "check", "setnx", "stamp", "insert", "update"} => Kept(t) = {}
           /\ t.pc = "release" /\ t.to = None => Kept(t) = {}
           /\ t.pc # "setnx" => Trying(t) = {}
           /\ t.pc # "unlock" => Freeing(t) = {}
  BY DEF Owed, Kept, Owes, Keeps, Trying, Freeing

\* What holds of each task, in one place.
LEMMA CarefulTask ==
    ASSUME Careful, CarefulInv, NEW p \in Procs
    PROVE  /\ TypeInv /\ task[p] \in Task /\ TaskFits(task[p])
           /\ InLoop(task[p]) => task[p].i <= Len(task[p].seats)
           /\ TaskInv(task[p]) /\ p \in Workers
           /\ Sent(p) /\ \A fault \in {"dbFault", "redisFault"} : ~Fails(p, fault) /\ ~LosesReply(p, fault)
           /\ Finished(p) = Idle
  BY TasksAreGood
  DEF CarefulInv, SoldInv, Careful, TaskInv, Shaped, Sent, Fails, LosesReply, Finished,
      Good, Procs

\* The keys and the booked set belong to seats.
LEMMA CarefulTypes ==
    ASSUME CarefulInv
    PROVE  /\ hold \in [Seats -> Key] /\ booked \subseteq Seats /\ told \subseteq Bookings
           /\ rows \in [Bookings -> Row] /\ task \in [Procs -> Task]
           /\ None \notin Bookings /\ Pending \notin Bookings /\ Pending # None
           /\ NoKey.val = None /\ NoKey.ttl = 0
  BY BookingsAssumption DEF CarefulInv, SoldInv, TypeInv, TypeOK, NoKey, None, Pending

\* A step of one task.
LEMMA OneTask ==
    ASSUME CarefulInv, NEW p \in Procs, NEW t, Become(p, t)
    PROVE  \A q \in Procs : task'[q] = IF q = p THEN t ELSE task[q]
  BY CarefulTypes DEF Become

\* What a task can say of the keys it owes and of those it keeps.
LEMMA TaskOfKey ==
    ASSUME Careful, CarefulInv, NEW p \in Procs
    PROVE  /\ \A s \in Owed(task[p]) : /\ s \in Seats /\ hold[s].val = Pending
                                       /\ hold[s].ttl >= TTL - task[p].age
           /\ \A s \in Kept(task[p]) :
                 /\ s \in Seats /\ task[p].b \in Bookings /\ LockedBy(s, task[p].b)
                 /\ rows[task[p].b].status = "HOLD" /\ rows[task[p].b].left >= 0
                 /\ task[p].to # "EXPIRED"
           /\ Freeing(task[p]) \subseteq Kept(task[p])
  <1>1. /\ task[p] \in Task /\ TaskFits(task[p]) /\ TaskInv(task[p])
        /\ InLoop(task[p]) => task[p].i <= Len(task[p].seats)
    BY CarefulTask
  <1>2. Owed(task[p]) \subseteq Seats /\ Kept(task[p]) \subseteq Seats
    BY <1>1, PartMembers, ElementOfSeq DEF Task, Places
  <1>3. ASSUME NEW s \in Kept(task[p])
        PROVE  task[p].b # None /\ task[p].b \in Bookings /\ task[p].to # "EXPIRED"
    <2>1. PICK k \in Places(task[p]) : Keeps(task[p], k)
      BY PartMembers
    <2>. QED BY <1>1, <2>1 DEF Keeps, TaskFits, Placed, Task, TaskInv, Works, None
  <1>4. Freeing(task[p]) \subseteq Kept(task[p])
    <2>1. SUFFICES ASSUME task[p].pc = "unlock"
                   PROVE  task[p].seats[task[p].i] \in Kept(task[p])
      BY DEF Freeing
    <2>2. task[p].i \in Places(task[p])
      BY <1>1, <2>1 DEF InLoop, Task, Places
    <2>. QED BY <1>1, <2>1, <2>2, PartMembers DEF Keeps, Task
  <1>5. \A s \in Owed(task[p]) : hold[s].val = Pending /\ hold[s].ttl >= TTL - task[p].age
    BY <1>1 DEF TaskInv, Pends
  <1>6. \A s \in Kept(task[p]) :
           /\ LockedBy(s, task[p].b)
           /\ rows[task[p].b].status = "HOLD" /\ rows[task[p].b].left >= 0
    BY <1>1, <1>3 DEF TaskInv, Works
  <1>. QED BY <1>2, <1>3, <1>4, <1>5, <1>6
-----------------------------------------------------------------------------
(* Steps that touch neither the keys, nor the booked set, nor the table. *)

\* A Hold that goes on owing what it owed, with no booking yet.
LEMMA QuietStep ==
    ASSUME Careful, CarefulInv, SoldInv', NEW p \in Procs, NEW t, Become(p, t),
           UNCHANGED <<hold, booked, rows, told>>,
           task[p].b = None, task[p].pc # "unlock",
           t.b = None, Shaped(t), Pends(t), Owed(t) = Owed(task[p]), Kept(t) = {},
           Trying(t) \cap booked = {}
    PROVE  CarefulInv'
  <1>1. \A q \in Procs : task'[q] = IF q = p THEN t ELSE task[q]
    BY OneTask
  <1>2. Freeing(task[p]) = {}
    BY NoParts
  <1>3. TaskInv(t)
    BY DEF TaskInv, Works
  <1>4. ASSUME NEW q \in Procs PROVE TaskInv(task[q])'
    BY <1>1, <1>3 DEF CarefulInv, TaskInv, Works, Pends, LockedBy
  <1>5. TasksApart'
    BY <1>1 DEF CarefulInv, TasksApart
  <1>6. \A b \in Bookings : InFlight(b)' <=> InFlight(b)
    BY <1>1, CarefulTypes DEF InFlight
  <1>7. RowsInv'
    BY <1>6 DEF CarefulInv, RowsInv
  <1>8. KeysInv'
    <2>1. \A s \in Seats : hold'[s].val = Pending => \E q \in Procs : s \in Owed(task'[q])
      BY <1>1 DEF CarefulInv, KeysInv
    <2>2. \A s \in Seats : hold'[s].val \in Bookings =>
          /\ rows'[hold'[s].val].status \in {"HOLD", "EXPIRED"}
          /\ s \in Range(rows'[hold'[s].val].seats)
          /\ \A q \in Procs : task'[q].b = hold'[s].val =>
                s \in Kept(task'[q]) \/ task'[q].to = "EXPIRED"
      BY <1>1, CarefulTypes DEF CarefulInv, KeysInv
    <2>. QED BY <1>6, <2>1, <2>2 DEF CarefulInv, KeysInv, LiveHold, LockedBy
  <1>9. SoldSeatsInv'
    BY <1>1, <1>2, CarefulTypes DEF CarefulInv, SoldSeatsInv
  <1>. QED BY <1>4, <1>5, <1>7, <1>8, <1>9 DEF CarefulInv

\* A call that takes up a booking nobody works on: the keys it has are now its.
LEMMA LoadStep ==
    ASSUME Careful, CarefulInv, SoldInv', NEW p \in Procs, NEW t, Become(p, t),
           UNCHANGED <<hold, booked, rows, told>>,
           task[p].b = None, Owed(task[p]) = {}, task[p].pc # "unlock",
           NEW b \in Bookings, ~InFlight(b), t.b = b,
           Shaped(t), Works(t), Owed(t) = {}, Trying(t) = {},
           t.to # "EXPIRED" => LiveHold(b) /\ Kept(t) = Range(rows[b].seats),
           t.to = "EXPIRED" => Kept(t) = {}
    PROVE  CarefulInv'
  <1>1. \A q \in Procs : task'[q] = IF q = p THEN t ELSE task[q]
    BY OneTask
  <1>2. Freeing(task[p]) = {} /\ \A q \in Procs : task[q].b # b
    BY NoParts DEF InFlight
  <1>3. TaskInv(t)
    <2>1. \A s \in Kept(t) : LockedBy(s, b)
      BY DEF CarefulInv, KeysInv
    <2>2. \A j \in Places(t) : ~Owes(t, j)
      BY PartMembers
    <2>. QED BY <2>1, <2>2 DEF TaskInv, Pends
  <1>4. ASSUME NEW q \in Procs PROVE TaskInv(task[q])'
    BY <1>1, <1>3 DEF CarefulInv, TaskInv, Works, Pends, LockedBy
  <1>5. TasksApart'
    BY <1>1, <1>2 DEF CarefulInv, TasksApart
  <1>6. \A c \in Bookings : InFlight(c)' <=> InFlight(c) \/ c = b
    BY <1>1, CarefulTypes DEF InFlight
  <1>7. RowsInv'
    BY <1>6 DEF CarefulInv, RowsInv
  <1>8. KeysInv'
    <2>1. \A s \in Seats : hold'[s].val = Pending => \E q \in Procs : s \in Owed(task'[q])
      BY <1>1 DEF CarefulInv, KeysInv
    <2>2. \A s \in Seats : hold'[s].val \in Bookings =>
          /\ rows'[hold'[s].val].status \in {"HOLD", "EXPIRED"}
          /\ s \in Range(rows'[hold'[s].val].seats)
          /\ \A q \in Procs : task'[q].b = hold'[s].val =>
                s \in Kept(task'[q]) \/ task'[q].to = "EXPIRED"
      BY <1>1 DEF CarefulInv, KeysInv
    <2>. QED BY <1>6, <2>1, <2>2 DEF CarefulInv, KeysInv, LiveHold, LockedBy
  <1>9. SoldSeatsInv'
    BY <1>1, <1>2, CarefulTypes DEF CarefulInv, SoldSeatsInv
  <1>. QED BY <1>4, <1>5, <1>7, <1>8, <1>9 DEF CarefulInv

\* The DEL of a key the task owes or keeps.  Nobody else counts on that key, and
\* nobody who counts on the seat not being sold is misled.
LEMMA FreeStep ==
    ASSUME Careful, CarefulInv, SoldInv', NEW p \in Procs, NEW t, Become(p, t),
           UNCHANGED <<booked, rows, told>>,
           NEW s \in Owed(task[p]) \cup Kept(task[p]), s \in Seats,
           hold' = [hold EXCEPT ![s] = NoKey],
           NoRace /\ s \in booked => \A q \in Procs : q # p => s \notin Trying(task[q]),
           Shaped(t), Works(t), Owed(t) # {} => t.age = task[p].age, t.b = task[p].b,
           t.to = "EXPIRED" <=> task[p].to = "EXPIRED",
           \A j, k \in Places(t) :
              Owes(t, j) /\ Owes(t, k) /\ t.seats[j] = t.seats[k] => j = k,
           Owed(t) = Owed(task[p]) \ {s}, Kept(t) = Kept(task[p]) \ {s},
           Trying(t) = {},
           Freeing(task[p]) \subseteq {s}
    PROVE  CarefulInv'
  <1>1. \A q \in Procs : task'[q] = IF q = p THEN t ELSE task[q]
    BY OneTask
  <1>2. \A x \in Seats : hold'[x] = IF x = s THEN NoKey ELSE hold[x]
    BY CarefulTypes
  <1>3. \A q \in Procs : Owed(task[q]) \subseteq Seats /\ Kept(task[q]) \subseteq Seats
    BY TaskOfKey
  <1>4. \A q \in Procs : TaskInv(task[q])
    BY DEF CarefulInv
  <1>5. \A q \in Procs : q # p => s \notin Owed(task[q]) /\ s \notin Kept(task[q])
    <2>. SUFFICES ASSUME NEW q \in Procs, q # p
                  PROVE  s \notin Owed(task[q]) /\ s \notin Kept(task[q])
      OBVIOUS
    <2>1. /\ task[p].b = task[q].b => task[p].b = None
          /\ s \notin Owed(task[p]) \/ s \notin Owed(task[q])
      BY DEF CarefulInv, TasksApart
    <2>2. /\ s \in Owed(task[p]) => hold[s].val = Pending
          /\ s \in Owed(task[q]) => hold[s].val = Pending
          /\ s \in Kept(task[p]) => hold[s].val = task[p].b /\ task[p].b \in Bookings
          /\ s \in Kept(task[q]) => hold[s].val = task[q].b /\ task[q].b \in Bookings
      BY TaskOfKey DEF LockedBy
    <2>. QED BY <2>1, <2>2, CarefulTypes
  <1>6. TaskInv(task[p])'
    BY <1>1, <1>2, <1>3, <1>4 DEF TaskInv, Works, Pends, LockedBy
  <1>7. ASSUME NEW q \in Procs, q # p PROVE TaskInv(task[q])'
    BY <1>1, <1>2, <1>3, <1>4, <1>5, <1>7 DEF TaskInv, Works, Pends, LockedBy
  <1>8. TasksApart'
    BY <1>1 DEF CarefulInv, TasksApart
  <1>9. \A c \in Bookings : InFlight(c)' <=> InFlight(c)
    BY <1>1 DEF InFlight
  <1>10. RowsInv'
    BY <1>9 DEF CarefulInv, RowsInv
  <1>11. KeysInv'
    <2>1. \A x \in Seats : hold'[x].val = Pending => \E q \in Procs : x \in Owed(task'[q])
      BY <1>1, <1>2, CarefulTypes DEF CarefulInv, KeysInv
    <2>2. \A x \in Seats : hold'[x].val \in Bookings =>
          /\ rows'[hold'[x].val].status \in {"HOLD", "EXPIRED"}
          /\ x \in Range(rows'[hold'[x].val].seats)
          /\ \A q \in Procs : task'[q].b = hold'[x].val =>
                x \in Kept(task'[q]) \/ task'[q].to = "EXPIRED"
      BY <1>1, <1>2, CarefulTypes DEF CarefulInv, KeysInv
    <2>3. hold[s].val = Pending \/ (hold[s].val = task[p].b /\ hold[s].val \in Bookings)
      BY TaskOfKey DEF LockedBy
    <2>4. \A b \in Bookings : LiveHold(b) /\ ~InFlight(b) => s \notin Range(rows[b].seats)
      BY <2>3, CarefulTypes DEF CarefulInv, KeysInv, InFlight, LockedBy
    <2>5. \A b \in Bookings : LiveHold(b) /\ ~InFlight(b) =>
             Range(rows[b].seats) \subseteq Seats
      BY CarefulTypes DEF Row, Range
    <2>6. ASSUME NEW b \in Bookings, LiveHold(b)', ~InFlight(b)'
          PROVE  \A x \in Range(rows'[b].seats) : LockedBy(x, b)'
      <3>1. LiveHold(b) /\ ~InFlight(b) /\ rows' = rows
        BY <1>9, <2>6 DEF LiveHold
      <3>2. \A x \in Range(rows[b].seats) : LockedBy(x, b) /\ x \in Seats /\ x # s
        BY <2>4, <2>5, <3>1 DEF CarefulInv, KeysInv
      <3>. QED BY <1>2, <3>1, <3>2 DEF LockedBy
    <2>. QED BY <2>1, <2>2, <2>6 DEF KeysInv
  <1>12. SoldSeatsInv'
    BY <1>1, <1>2, CarefulTypes DEF CarefulInv, SoldSeatsInv
  <1>. QED BY <1>6, <1>7, <1>8, <1>10, <1>11, <1>12 DEF CarefulInv
-----------------------------------------------------------------------------
(* Hold. *)

\* rollbackHolds owes exactly the keys the Hold had set.
LEMMA RollbackParts ==
    ASSUME Careful, CarefulInv, NEW p \in Procs, task[p].pc \in {"check", "setnx"}
    PROVE  LET t == Rollback(p, task[p].i - 1)
           IN  /\ t.b = None /\ Shaped(t) /\ Pends(t)
               /\ Owed(t) = Owed(task[p]) /\ Kept(t) = {} /\ Trying(t) = {}
  <1>. DEFINE n == task[p].i - 1
              t == Rollback(p, n)
  <1>1. /\ task[p].seats \in Seq(Seats) /\ task[p].i \in Nat \ {0} /\ n \in 0 .. Len(task[p].seats)
        /\ TaskInv(task[p]) /\ task[p].gone = FALSE /\ Finished(p) = Idle
    <2>1. /\ task[p] \in Task /\ TaskInv(task[p]) /\ Finished(p) = Idle
          /\ task[p].i <= Len(task[p].seats)
      BY CarefulTask DEF InLoop
    <2>2. task[p].seats \in Seq(Seats) /\ task[p].i \in Nat \ {0} /\ Len(task[p].seats) \in Nat
      BY <2>1 DEF Task
    <2>3. n \in 0 .. Len(task[p].seats)
      BY <2>1, <2>2
    <2>. QED BY <2>1, <2>2, <2>3 DEF TaskInv, Shaped
  <1>2. \A s : s \in Owed(task[p]) <=> \E k \in 1 .. n : s = task[p].seats[k]
    BY <1>1, PartMembers DEF Owes, Places
  <1>3. CASE n = 0
    <2>1. t = Idle
      BY <1>1, <1>3 DEF Rollback
    <2>2. Idle.pc = "idle" /\ Idle.b = None /\ Idle.to = None /\ Idle.gone = FALSE /\ Idle.batch = {}
      BY DEF Idle, Start
    <2>3. Owed(Idle) = {} /\ Kept(Idle) = {} /\ Trying(Idle) = {}
      BY <2>2, NoParts
    <2>4. Owed(task[p]) = {}
      BY <1>2, <1>3
    <2>5. Shaped(Idle)
      BY <2>2 DEF Shaped, None
    <2>6. Pends(Idle)
      BY <2>2, <2>3 DEF Pends, Owes
    <2>. QED BY <2>1, <2>2, <2>3, <2>4, <2>5, <2>6
  <1>4. CASE n # 0
    <2>1. /\ t.pc = "release" /\ t.seats = SubSeq(task[p].seats, 1, n) /\ t.i = 1
          /\ t.b = None /\ t.to = None /\ t.batch = {}
          /\ t.age = task[p].age /\ t.gone = task[p].gone
      BY <1>4 DEF Rollback, Idle, Start
    <2>2. /\ Len(SubSeq(task[p].seats, 1, n)) = n
          /\ \A k \in 1 .. n : SubSeq(task[p].seats, 1, n)[k] = task[p].seats[k]
      BY <1>1, <1>4, SubSeqProperties
    <2>. HIDE DEF t
    <2>3. Places(t) = 1 .. n /\ \A k \in 1 .. n : t.seats[k] = task[p].seats[k] /\ Owes(t, k)
      BY <1>1, <2>1, <2>2 DEF Places, Owes
    <2>4. Owed(t) = Owed(task[p])
      <3>. DEFINE mine == {k \in Places(t) : Owes(t, k)}
      <3>3. mine = 1 .. n
        BY <2>3
      <3>4. Owed(t) = {t.seats[k] : k \in mine}
        BY DEF Owed
      <3>. HIDE DEF mine
      <3>1. \A s : s \in Owed(t) <=> \E k \in 1 .. n : s = t.seats[k]
        BY <3>3, <3>4
      <3>2. \A s : s \in Owed(t) <=> s \in Owed(task[p])
        BY <1>2, <2>3, <3>1
      <3>. QED BY <3>2
    <2>5. \A j, k \in 1 .. n : task[p].seats[j] = task[p].seats[k] => j = k
      <3>1. \A k \in 1 .. n : k \in Places(task[p]) /\ Owes(task[p], k)
        BY <1>1 DEF Owes, Places
      <3>. QED BY <1>1, <3>1 DEF TaskInv, Pends
    <2>6. Pends(t)
      BY <1>1, <2>1, <2>3, <2>4, <2>5 DEF TaskInv, Pends
    <2>7. Shaped(t)
      BY <1>1, <2>1 DEF Shaped, None
    <2>. QED BY <2>1, <2>4, <2>6, <2>7, NoParts DEF t
  <1>. HIDE DEF t
  <1>. QED BY <1>3, <1>4 DEF t

\* A new Hold, and those of its calls that change nothing but its task.
LEMMA QuietHolds ==
    ASSUME Careful, CarefulInv, SoldInv', NEW p \in Procs,
           \/ \E seats \in Requests : HoldBegin(p, seats)
           \/ HoldCheck(p)
           \/ HoldSetNX(p) /\ hold[Seat(p)] # NoKey
           \/ HoldStamp(p)
    PROVE  CarefulInv'
  <1>1. /\ task[p] \in Task /\ TaskInv(task[p]) /\ TypeInv
        /\ Sent(p) /\ \A fault \in {"dbFault", "redisFault"} : ~Fails(p, fault) /\ ~LosesReply(p, fault)
    BY CarefulTask
  <1>2. ASSUME NEW seats \in Requests, HoldBegin(p, seats) PROVE CarefulInv'
    <2>. DEFINE t == Start("check", seats, None, None)
    <2>1. /\ t.pc = "check" /\ t.seats = seats /\ t.i = 1 /\ t.b = None /\ t.to = None
          /\ t.gone = FALSE /\ t.batch = {}
      BY StartedTask
    <2>2. Become(p, t) /\ task[p].pc = "idle" /\ UNCHANGED <<hold, booked, rows, told>>
      BY <1>2 DEF HoldBegin, At
    <2>. HIDE DEF t
    <2>3. Shaped(t)
      BY <2>1 DEF Shaped, None
    <2>4. \A k \in Places(t) : ~Owes(t, k)
      BY <2>1 DEF Owes, Places
    <2>5. Owed(t) = {} /\ Kept(t) = {} /\ Trying(t) = {} /\ Owed(task[p]) = {}
      BY <2>1, <2>2, <2>4, PartMembers, NoParts
    <2>6. Pends(t)
      BY <2>4, <2>5 DEF Pends
    <2>7. task[p].b = None
      BY <1>1, <2>2 DEF TaskInv, Shaped
    <2>. QED BY <2>1, <2>2, <2>3, <2>5, <2>6, <2>7, QuietStep
  <1>3. ASSUME task[p].pc \in {"check", "setnx"}, Become(p, Rollback(p, task[p].i - 1)),
               UNCHANGED <<hold, booked, rows, told>>
        PROVE  CarefulInv'
    <2>1. task[p].b = None
      BY <1>1, <1>3 DEF TaskInv, Shaped
    <2>. QED BY <1>3, <2>1, RollbackParts, QuietStep
  <1>4. ASSUME HoldCheck(p), Seat(p) \notin booked PROVE CarefulInv'
    <2>. DEFINE t == Goto(p, "setnx")
    <2>1. SameWork(t, task[p]) /\ t.pc = "setnx" /\ t.i = task[p].i
      BY <1>1, MovedTask
    <2>2. Become(p, t) /\ task[p].pc = "check" /\ UNCHANGED <<hold, booked, rows, told>>
      BY <1>1, <1>4 DEF HoldCheck, At
    <2>. HIDE DEF t
    <2>3. task[p].b = None /\ Shaped(t)
      BY <1>1, <2>1, <2>2 DEF TaskInv, Shaped, SameWork
    <2>4. Places(t) = Places(task[p]) /\ \A k : Owes(t, k) <=> Owes(task[p], k)
      BY <2>1, <2>2 DEF SameWork, Places, Owes
    <2>5. Owed(t) = Owed(task[p]) /\ Kept(t) = {}
      BY <2>1, <2>4, NoParts DEF Owed, SameWork
    <2>6. Pends(t)
      BY <1>1, <2>1, <2>4, <2>5 DEF TaskInv, Pends, SameWork
    <2>7. Trying(t) \cap booked = {}
      BY <1>4, <2>1 DEF Trying, SameWork, Seat
    <2>. QED BY <2>1, <2>2, <2>3, <2>5, <2>6, <2>7, QuietStep DEF SameWork
  <1>5. CASE HoldCheck(p)
    BY <1>1, <1>3, <1>4, <1>5 DEF HoldCheck, At
  <1>6. CASE HoldSetNX(p) /\ hold[Seat(p)] # NoKey
    BY <1>1, <1>3, <1>6 DEF HoldSetNX, At
  <1>7. CASE HoldStamp(p)
    <2>. DEFINE t == Stamped(p)
    <2>1. SameWork(t, task[p]) /\ t.pc = "insert" /\ t.i = task[p].i /\ t.left = TTL
      BY <1>1, MovedTask
    <2>2. Become(p, t) /\ task[p].pc = "stamp" /\ UNCHANGED <<hold, booked, rows, told>>
      BY <1>7 DEF HoldStamp, At, Stamped
    <2>. HIDE DEF t
    <2>3. task[p].b = None /\ Shaped(t)
      BY <1>1, <2>1, <2>2, TimeAssumption DEF TaskInv, Shaped, SameWork, Task
    <2>4. Places(t) = Places(task[p]) /\ \A k : Owes(t, k) <=> Owes(task[p], k)
      BY <2>1, <2>2 DEF SameWork, Places, Owes
    <2>5. Owed(t) = Owed(task[p]) /\ Kept(t) = {} /\ Trying(t) = {}
      BY <2>1, <2>4, NoParts DEF Owed, SameWork
    <2>6. Pends(t)
      BY <1>1, <2>1, <2>4, <2>5 DEF TaskInv, Pends, SameWork
    <2>. QED BY <2>1, <2>2, <2>3, <2>5, <2>6, QuietStep DEF SameWork
  <1>. QED BY <1>2, <1>5, <1>6, <1>7

\* SETNX succeeds: the seat is free, and this Hold is the one that owes the key.
LEMMA SetNXSucceeds ==
    ASSUME Careful, CarefulInv, SoldInv', NEW p \in Procs,
           HoldSetNX(p), hold[Seat(p)] = NoKey
    PROVE  CarefulInv'
  <1>. DEFINE s == Seat(p)
              t == Loop(p, "check", Goto(p, "stamp"))
  <1>1. /\ task[p] \in Task /\ TaskInv(task[p]) /\ TypeInv
        /\ task[p].i <= Len(task[p].seats) /\ task[p].pc = "setnx"
        /\ Sent(p) /\ \A fault \in {"dbFault", "redisFault"} : ~Fails(p, fault) /\ ~LosesReply(p, fault)
    BY CarefulTask DEF HoldSetNX, At, InLoop
  <1>2. /\ task[p].seats \in Seq(Seats) /\ task[p].i \in Places(task[p]) /\ s \in Seats
        /\ Len(task[p].seats) \in Nat /\ task[p].i \in Nat
        /\ task[p].age \in 0 .. MaxDelay
    BY <1>1, ElementOfSeq DEF Task, Places, Seat
  <1>3. /\ SameWork(t, task[p])
        /\ t.pc = IF AtLast(p) THEN "stamp" ELSE "check"
        /\ t.i = IF AtLast(p) THEN task[p].i ELSE task[p].i + 1
    BY <1>1, MovedTask DEF SameWork
  <1>4. /\ Become(p, t) /\ UNCHANGED <<booked, rows, told>>
        /\ hold' = [hold EXCEPT ![s] = [val |-> Pending, ttl |-> TTL]]
    BY <1>1 DEF HoldSetNX
  <1>5. s = task[p].seats[task[p].i] /\ hold[s] = NoKey /\ (NoRace => s \notin booked)
    BY <1>1 DEF Seat, TaskInv, Trying
  <1>. HIDE DEF t, s
  <1>6. \A q \in Procs : task'[q] = IF q = p THEN t ELSE task[q]
    BY <1>4, OneTask
  <1>7. \A x \in Seats : hold'[x] = IF x = s THEN [val |-> Pending, ttl |-> TTL] ELSE hold[x]
    BY <1>2, <1>4, CarefulTypes
  <1>8. Shaped(t) /\ t.b = None /\ task[p].b = None
    BY <1>1, <1>3 DEF TaskInv, Shaped, SameWork
  <1>9. Places(t) = Places(task[p]) /\ \A k \in Places(t) :
           Owes(t, k) <=> Owes(task[p], k) \/ k = task[p].i
    BY <1>1, <1>2, <1>3 DEF SameWork, Places, Owes, AtLast
  <1>10. Owed(t) = Owed(task[p]) \cup {s} /\ Kept(t) = {} /\ Trying(t) = {}
    <2>1. \A x : x \in Owed(t) <=> x \in Owed(task[p]) \cup {s}
      BY <1>2, <1>3, <1>5, <1>9, PartMembers DEF SameWork
    <2>. QED BY <1>3, <2>1, NoParts
  <1>11. \A q \in Procs : s \notin Owed(task[q]) /\ s \notin Kept(task[q])
    BY <1>5, TaskOfKey, CarefulTypes DEF LockedBy
  <1>12. \A q \in Procs : Owed(task[q]) \subseteq Seats /\ Kept(task[q]) \subseteq Seats
    BY TaskOfKey
  <1>13. TaskInv(task[p])'
    <2>1. \A j, k \in Places(t) : Owes(t, j) /\ Owes(t, k) /\ t.seats[j] = t.seats[k] => j = k
      <3>1. \A k \in Places(task[p]) : Owes(task[p], k) => task[p].seats[k] # s
        BY <1>11, PartMembers
      <3>. QED BY <1>1, <1>3, <1>5, <1>9, <3>1 DEF TaskInv, Pends, SameWork
    <2>2. \A x \in Owed(t) : hold'[x].val = Pending /\ hold'[x].ttl >= TTL - t.age
      BY <1>1, <1>2, <1>3, <1>7, <1>10, <1>12, TimeAssumption DEF TaskInv, Pends, SameWork
    <2>. QED BY <1>6, <1>8, <1>10, <2>1, <2>2 DEF TaskInv, Pends, Works
  <1>14. ASSUME NEW q \in Procs, q # p PROVE TaskInv(task[q])'
    <2>1. TaskInv(task[q]) /\ task'[q] = task[q]
      BY <1>6, <1>14 DEF CarefulInv
    <2>2. \A x \in Trying(task[q]) : x \in Seats
      BY <2>1, CarefulTask, ElementOfSeq DEF Trying, Task, InLoop
    <2>. QED BY <1>4, <1>5, <1>7, <1>11, <1>12, <2>1, <2>2 DEF TaskInv, Works, Pends, LockedBy
  <1>15. TasksApart'
    BY <1>6, <1>8, <1>10, <1>11 DEF CarefulInv, TasksApart
  <1>16. \A c \in Bookings : InFlight(c)' <=> InFlight(c)
    BY <1>6, <1>8 DEF InFlight
  <1>17. RowsInv'
    BY <1>4, <1>16 DEF CarefulInv, RowsInv
  <1>18. KeysInv'
    <2>1. \A x \in Seats : hold'[x].val = Pending => \E q \in Procs : x \in Owed(task'[q])
      BY <1>6, <1>7, <1>10 DEF CarefulInv, KeysInv
    <2>2. \A x \in Seats : hold'[x].val \in Bookings =>
          /\ rows'[hold'[x].val].status \in {"HOLD", "EXPIRED"}
          /\ x \in Range(rows'[hold'[x].val].seats)
          /\ \A q \in Procs : task'[q].b = hold'[x].val =>
                x \in Kept(task'[q]) \/ task'[q].to = "EXPIRED"
      BY <1>4, <1>6, <1>7, <1>8, CarefulTypes DEF CarefulInv, KeysInv
    <2>3. ASSUME NEW b \in Bookings, LiveHold(b)', ~InFlight(b)'
          PROVE  \A x \in Range(rows'[b].seats) : LockedBy(x, b)'
      <3>1. LiveHold(b) /\ ~InFlight(b) /\ rows' = rows
        BY <1>4, <1>16, <2>3 DEF LiveHold
      <3>2. Range(rows[b].seats) \subseteq Seats
        BY CarefulTypes DEF Row, Range
      <3>3. \A x \in Range(rows[b].seats) : LockedBy(x, b) /\ x \in Seats /\ x # s
        BY <1>5, <3>1, <3>2, CarefulTypes DEF CarefulInv, KeysInv, LockedBy
      <3>. QED BY <1>7, <3>1, <3>3 DEF LockedBy
    <2>. QED BY <2>1, <2>2, <2>3 DEF KeysInv
  <1>19. SoldSeatsInv'
    <2>1. Freeing(task[p]) = {}
      BY <1>1, NoParts
    <2>2. NoRace => \A x \in booked : x \in Seats /\ x # s
      BY <1>5, CarefulTypes
    <2>. QED BY <1>4, <1>6, <1>7, <1>8, <2>1, <2>2, CarefulTypes DEF CarefulInv, SoldSeatsInv
  <1>. QED BY <1>13, <1>14, <1>15, <1>17, <1>18, <1>19 DEF CarefulInv
\* A seat whose key is owed or kept is not sold, unless it is being freed.
LEMMA LockedNotSold ==
    ASSUME Careful, NoRace, CarefulInv, NEW p \in Procs,
           NEW s \in Owed(task[p]) \cup Kept(task[p]), s \in booked
    PROVE  s \in Freeing(task[p])
  <1>1. hold[s].val # None
    BY TaskOfKey, CarefulTypes DEF LockedBy
  <1>2. PICK q \in Procs : s \in Freeing(task[q])
    BY <1>1, CarefulTypes DEF CarefulInv, SoldSeatsInv
  <1>3. s \in Kept(task[q]) /\ hold[s].val = task[q].b /\ task[q].b \in Bookings
    BY <1>2, TaskOfKey DEF LockedBy
  <1>4. s \in Kept(task[p]) /\ hold[s].val = task[p].b
    BY <1>3, TaskOfKey, CarefulTypes DEF LockedBy
  <1>5. p = q
    BY <1>3, <1>4, CarefulTypes DEF CarefulInv, TasksApart
  <1>. QED BY <1>2, <1>5

\* The INSERT: the new booking has all the seats that this Hold has locked, and
\* nobody else has to do with it.
LEMMA HoldInsertCareful ==
    ASSUME Careful, CarefulInv, SoldInv', NEW p \in Procs, HoldInsert(p)
    PROVE  CarefulInv'
  <1>1. /\ task[p] \in Task /\ TaskInv(task[p]) /\ TypeInv /\ task[p].pc = "insert"
        /\ Sent(p) /\ \A fault \in {"dbFault", "redisFault"} : ~Fails(p, fault) /\ ~LosesReply(p, fault)
    BY CarefulTask DEF HoldInsert, At
  <1>2. PICK b \in Bookings :
           /\ rows[b] = NoRow /\ Become(p, Tagging(p, b))
           /\ rows' = [rows EXCEPT ![b] = [status |-> "HOLD", seats |-> task[p].seats,
                                           left |-> task[p].left]]
    BY <1>1 DEF HoldInsert, Careful, Tagging
  <1>. DEFINE t == Tagging(p, b)
  <1>3. /\ t.pc = "tag" /\ t.seats = task[p].seats /\ t.i = 1 /\ t.b = b /\ t.to = None
        /\ t.batch = {} /\ t.age = task[p].age /\ t.gone = FALSE
    BY StartedTask
  <1>. HIDE DEF t
  <1>4. UNCHANGED <<hold, booked, told>> /\ Become(p, t)
    BY <1>2 DEF HoldInsert, t
  <1>5. \A q \in Procs : task'[q] = IF q = p THEN t ELSE task[q]
    BY <1>4, OneTask
  <1>6. /\ \A c \in Bookings : c # b => rows'[c] = rows[c]
        /\ rows'[b].status = "HOLD" /\ rows'[b].seats = task[p].seats
        /\ rows'[b].left = task[p].left
    BY <1>2, CarefulTypes
  <1>7. /\ rows[b].status = None /\ b \notin told
        /\ \A q \in Procs : task[q].b # b
        /\ \A s \in Seats : hold[s].val # b
    <2>1. rows[b].status = None
      BY <1>2 DEF NoRow
    <2>2. ASSUME NEW q \in Procs PROVE task[q].b # b
      BY <2>1, CarefulTask, CarefulTypes DEF TaskFits
    <2>. QED BY <2>1, <2>2 DEF CarefulInv, RowsInv, KeysInv, None
  <1>8. /\ Places(t) = Places(task[p])
        /\ \A k \in Places(t) : Owes(t, k) /\ Owes(task[p], k) /\ ~Keeps(t, k)
    BY <1>1, <1>3 DEF Places, Owes, Keeps
  <1>9. Owed(t) = Owed(task[p]) /\ Kept(t) = {} /\ Trying(t) = {}
    <2>1. Owed(t) = Owed(task[p])
      BY <1>3, <1>8 DEF Owed
    <2>2. Kept(t) = {}
      BY <1>8, PartMembers
    <2>. QED BY <1>3, <2>1, <2>2, NoParts DEF None
  <1>10. \A q \in Procs : TaskInv(task[q]) /\ task[q].b \in Bookings \cup {None}
    BY CarefulTask DEF Task
  <1>11. TaskInv(task[p])'
    <2>1. task[p].left >= 0 /\ task[p].b = None
      BY <1>1, TimeAssumption DEF Careful, TaskInv, Shaped, Task
    <2>2. Shaped(task[p])'
      BY <1>3, <1>5 DEF Shaped, None
    <2>3. Works(task[p])'
      BY <1>3, <1>4, <1>5, <1>6, <1>7, <2>1 DEF Works, None
    <2>4. Pends(task[p])'
      BY <1>1, <1>3, <1>4, <1>5, <1>8, <1>9 DEF TaskInv, Pends
    <2>. QED BY <1>5, <1>9, <2>2, <2>3, <2>4 DEF TaskInv
  <1>12. ASSUME NEW q \in Procs, q # p PROVE TaskInv(task[q])'
    <2>1. task'[q] = task[q] /\ TaskInv(task[q])
      BY <1>5, <1>10, <1>12
    <2>2. task[q].b # None => rows'[task[q].b] = rows[task[q].b]
      BY <1>6, <1>7, <1>10
    <2>3. \A s \in Kept(task[q]) : task[q].b # None
      BY TaskOfKey, CarefulTypes
    <2>. QED BY <1>4, <2>1, <2>2, <2>3 DEF TaskInv, Works, Pends, LockedBy
  <1>13. TasksApart'
    BY <1>3, <1>5, <1>7, <1>9 DEF CarefulInv, TasksApart
  <1>14. \A c \in Bookings : InFlight(c)' <=> InFlight(c) \/ c = b
    <2>1. task[p].b = None
      BY <1>1 DEF TaskInv, Shaped
    <2>. QED BY <1>3, <1>5, <2>1, CarefulTypes DEF InFlight
  <1>15. RowsInv'
    <2>1. \A j, k \in 1 .. Len(rows'[b].seats) :
             rows'[b].seats[j] = rows'[b].seats[k] => j = k
      BY <1>1, <1>6, <1>8 DEF TaskInv, Pends, Places
    <2>. QED BY <1>4, <1>6, <1>7, <1>14, <2>1 DEF CarefulInv, RowsInv
  <1>16. KeysInv'
    <2>1. \A s \in Seats : hold'[s].val = Pending => \E q \in Procs : s \in Owed(task'[q])
      BY <1>4, <1>5, <1>9 DEF CarefulInv, KeysInv
    <2>2. \A s \in Seats : hold'[s].val \in Bookings =>
          /\ rows'[hold'[s].val].status \in {"HOLD", "EXPIRED"}
          /\ s \in Range(rows'[hold'[s].val].seats)
          /\ \A q \in Procs : task'[q].b = hold'[s].val =>
                s \in Kept(task'[q]) \/ task'[q].to = "EXPIRED"
      BY <1>3, <1>4, <1>5, <1>6, <1>7 DEF CarefulInv, KeysInv
    <2>. QED BY <1>4, <1>6, <1>14, <2>1, <2>2 DEF CarefulInv, KeysInv, LiveHold, LockedBy
  <1>17. SoldSeatsInv'
    <2>1. Freeing(task[p]) = {} /\ task[p].b = None
      BY <1>1, NoParts DEF TaskInv, Shaped
    <2>. QED BY <1>4, <1>5, <2>1 DEF CarefulInv, SoldSeatsInv
  <1>. QED BY <1>11, <1>12, <1>13, <1>15, <1>16, <1>17 DEF CarefulInv
\* What a Hold owes and keeps once one more of its keys carries the booking's id.
LEMMA TagParts ==
    ASSUME Careful, CarefulInv, NEW p \in Procs, task[p].pc = "tag",
           NEW t, t = IF AtLast(p) THEN Idle ELSE Again(p, "tag")
    PROVE  /\ Seat(p) \in Owed(task[p]) /\ Owed(t) = Owed(task[p]) \ {Seat(p)}
           /\ AtLast(p) => Kept(task[p]) \cup {Seat(p)} = Range(task[p].seats)
           /\ Kept(t) = IF AtLast(p) THEN {} ELSE Kept(task[p]) \cup {Seat(p)}
           /\ Shaped(t) /\ t.to = None /\ t.b = IF AtLast(p) THEN None ELSE task[p].b
           /\ ~AtLast(p) => t.pc = "tag" /\ t.seats = task[p].seats /\ t.age = task[p].age
           /\ \A j, k \in Places(t) :
                 Owes(t, j) /\ Owes(t, k) /\ t.seats[j] = t.seats[k] => j = k
           /\ Trying(t) = {}
  <1>. DEFINE s == Seat(p)
  <1>1. /\ task[p] \in Task /\ TaskInv(task[p]) /\ TypeInv
        /\ task[p].i <= Len(task[p].seats) /\ task[p].to = None
    BY CarefulTask DEF InLoop, TaskInv, Shaped
  <1>2. /\ task[p].i \in Places(task[p]) /\ s = task[p].seats[task[p].i]
        /\ task[p].seats \in Seq(Seats) /\ Len(task[p].seats) \in Nat /\ task[p].i \in Nat
    BY <1>1 DEF Task, Places, Seat
  <1>. HIDE DEF s
  <1>3. /\ AtLast(p) => t.pc = "idle" /\ t.b = None /\ t.to = None /\ t.gone = FALSE
                        /\ t.batch = {}
        /\ ~AtLast(p) => SameWork(t, task[p]) /\ t.pc = "tag" /\ t.i = task[p].i + 1
    BY <1>1, MovedTask DEF Idle, Start
  <1>4. \A k \in Places(task[p]) : /\ Owes(task[p], k) <=> k >= task[p].i
                                   /\ Keeps(task[p], k) <=> k < task[p].i
    BY <1>1 DEF Owes, Keeps, None
  <1>5. \A j, k \in Places(task[p]) :
           Owes(task[p], j) /\ Owes(task[p], k) /\ task[p].seats[j] = task[p].seats[k] => j = k
    BY <1>1 DEF TaskInv, Pends
  <1>6. s \in Owed(task[p])
    BY <1>2, <1>4, PartMembers
  <1>7. CASE AtLast(p)
    <2>1. Owed(t) = {} /\ Kept(t) = {} /\ Trying(t) = {}
      BY <1>3, <1>7, NoParts DEF None
    <2>2. Owed(task[p]) = {s}
      <3>1. \A k \in Places(task[p]) : Owes(task[p], k) <=> k = task[p].i
        BY <1>2, <1>4, <1>7 DEF Places, AtLast
      <3>2. \A x : x \in Owed(task[p]) <=> x = s
        BY <1>2, <3>1, PartMembers
      <3>. QED BY <3>2
    <2>3. Kept(task[p]) \cup {s} = Range(task[p].seats)
      <3>1. \A k \in Places(task[p]) : Keeps(task[p], k) <=> k # task[p].i
        BY <1>2, <1>4, <1>7 DEF Places, AtLast
      <3>2. Range(task[p].seats) = {task[p].seats[k] : k \in Places(task[p])}
        BY <1>2 DEF Range, Places
      <3>3. \A x : x \in Range(task[p].seats) <=> x \in Kept(task[p]) \cup {s}
        BY <1>2, <3>1, <3>2, PartMembers
      <3>. QED BY <3>3
    <2>4. Shaped(t) /\ \A k : ~Owes(t, k)
      BY <1>3, <1>7 DEF Shaped, Owes, None
    <2>. QED BY <1>3, <1>6, <1>7, <2>1, <2>2, <2>3, <2>4 DEF s
  <1>8. CASE ~AtLast(p)
    <2>1. /\ Places(t) = Places(task[p]) /\ t.seats = task[p].seats
          /\ t.pc = "tag" /\ t.i = task[p].i + 1 /\ t.to = None
          /\ t.b = task[p].b /\ t.age = task[p].age
      BY <1>1, <1>3, <1>8 DEF SameWork, Places
    <2>2. \A k \in Places(t) : /\ Owes(t, k) <=> Owes(task[p], k) /\ k # task[p].i
                               /\ Keeps(t, k) <=> Keeps(task[p], k) \/ k = task[p].i
      BY <1>2, <1>4, <2>1 DEF Owes, Keeps, Places, None
    <2>3. Owed(t) = Owed(task[p]) \ {s}
      <3>1. \A k \in Places(t) :
               Owes(t, k) <=> Owes(task[p], k) /\ task[p].seats[k] # s
        BY <1>2, <1>4, <1>5, <2>1, <2>2
      <3>2. \A x : x \in Owed(t) <=> x \in Owed(task[p]) /\ x # s
        BY <2>1, <3>1, PartMembers
      <3>. QED BY <3>2
    <2>4. Kept(t) = Kept(task[p]) \cup {s}
      <3>1. \A x : x \in Kept(t) <=> x \in Kept(task[p]) \/ x = s
        BY <1>2, <2>1, <2>2, PartMembers
      <3>. QED BY <3>1
    <2>5. Trying(t) = {}
      BY <2>1, NoParts DEF None
    <2>6. Shaped(t)
      BY <1>1, <1>3, <1>8, <2>1 DEF TaskInv, Shaped, SameWork
    <2>. QED BY <1>5, <1>6, <1>8, <2>1, <2>2, <2>3, <2>4, <2>5, <2>6 DEF s
  <1>. QED BY <1>7, <1>8
\* One of the SETs that put the id of the booking in the keys.  After the last
\* one clients are told.
LEMMA HoldTagCareful ==
    ASSUME Careful, CarefulInv, SoldInv', NEW p \in Procs, HoldTag(p)
    PROVE  CarefulInv'
  <1>1. /\ task[p] \in Task /\ TaskInv(task[p]) /\ TypeInv /\ task[p].pc = "tag"
        /\ task[p].i <= Len(task[p].seats) /\ TaskFits(task[p]) /\ Finished(p) = Idle
        /\ Sent(p) /\ \A fault \in {"dbFault", "redisFault"} : ~Fails(p, fault) /\ ~LosesReply(p, fault)
    BY CarefulTask DEF HoldTag, At, InLoop
  <1>2. PICK s \in Seats : s = Seat(p)
    BY <1>1, ElementOfSeq DEF Task, Seat
  <1>3. PICK b \in Bookings : b = task[p].b /\ b # None
    BY <1>1 DEF TaskFits, Placed, Task
  <1>4. /\ rows[b].status = "HOLD" /\ rows[b].left \in 0 .. TTL /\ b \notin told
        /\ task[p].seats = rows[b].seats
    <2>1. rows[b].left \in -1 .. TTL
      BY CarefulTypes DEF Row
    <2>. QED BY <1>1, <1>3, <2>1, TimeAssumption DEF TaskInv, Shaped, Works, None
  <1>5. PICK t : /\ Become(p, t)
                 /\ t = IF AtLast(p) THEN Idle ELSE Again(p, "tag")
    BY <1>1, MovedTask DEF HoldTag
  <1>6. /\ s \in Owed(task[p]) /\ Owed(t) = Owed(task[p]) \ {s}
        /\ AtLast(p) => Kept(task[p]) \cup {s} = Range(rows[b].seats)
        /\ Kept(t) = IF AtLast(p) THEN {} ELSE Kept(task[p]) \cup {s}
        /\ Shaped(t) /\ t.to = None /\ t.b = IF AtLast(p) THEN None ELSE b
        /\ ~AtLast(p) => t.pc = "tag" /\ t.seats = task[p].seats /\ t.age = task[p].age
        /\ \A j, k \in Places(t) :
              Owes(t, j) /\ Owes(t, k) /\ t.seats[j] = t.seats[k] => j = k
        /\ Trying(t) = {}
    BY <1>1, <1>2, <1>3, <1>4, <1>5, TagParts
  <1>7. /\ hold' = [hold EXCEPT ![s] = [val |-> b, ttl |-> TTL]]
        /\ told' = IF AtLast(p) THEN told \cup {b} ELSE told
        /\ UNCHANGED <<booked, rows>>
    BY <1>1, <1>2, <1>3 DEF HoldTag, TaskInv, Shaped
  <1>8. \A x \in Seats : hold'[x] = IF x = s THEN [val |-> b, ttl |-> TTL] ELSE hold[x]
    BY <1>7, CarefulTypes
  <1>9. \A q \in Procs : task'[q] = IF q = p THEN t ELSE task[q]
    BY <1>5, OneTask
  <1>10. Freeing(task[p]) = {} /\ Trying(task[p]) = {}
    BY <1>1, NoParts DEF TaskInv, Shaped, None
  <1>11. hold[s].val = Pending /\ (NoRace => s \notin booked)
    BY <1>6, <1>10, TaskOfKey, LockedNotSold
  <1>12. \A q \in Procs : /\ Owed(task[q]) \subseteq Seats /\ Kept(task[q]) \subseteq Seats
                          /\ s \notin Kept(task[q])
                          /\ q # p => s \notin Owed(task[q]) /\ task[q].b # b
    <2>1. \A q \in Procs : q # p => s \notin Owed(task[q]) /\ task[q].b # b
      BY <1>3, <1>6 DEF CarefulInv, TasksApart
    <2>. QED BY <1>11, <2>1, TaskOfKey, CarefulTypes DEF LockedBy
  <1>13. TaskInv(task[p])'
    <2>1. Works(task[p])'
      BY <1>3, <1>4, <1>6, <1>7, <1>9 DEF Works, None
    <2>2. Pends(task[p])'
      <3>1. \A x \in Owed(t) : x \in Seats /\ x # s /\ x \in Owed(task[p])
        BY <1>6, <1>12
      <3>2. \A x \in Owed(t) : t.age = task[p].age
        <4>1. AtLast(p) => \A k : ~Owes(t, k)
          BY <1>5 DEF Idle, Start, Owes
        <4>. QED BY <1>6, <4>1, PartMembers
      <3>. QED BY <1>1, <1>6, <1>8, <1>9, <3>1, <3>2 DEF TaskInv, Pends
    <2>3. \A x \in Kept(t) : hold'[x].val = t.b /\ hold'[x].ttl >= rows'[t.b].left
      <3>1. \A x \in Kept(task[p]) : x \in Seats /\ LockedBy(x, b)
        BY <1>3, TaskOfKey
      <3>. QED BY <1>3, <1>4, <1>6, <1>7, <1>8, <1>12, <3>1 DEF LockedBy
    <2>. QED BY <1>6, <1>9, <2>1, <2>2, <2>3 DEF TaskInv, LockedBy
  <1>14. ASSUME NEW q \in Procs, q # p PROVE TaskInv(task[q])'
    <2>1. TaskInv(task[q]) /\ task'[q] = task[q]
      BY <1>9, <1>14 DEF CarefulInv
    <2>2. Works(task[q])'
      BY <1>7, <1>12, <1>14, <2>1 DEF TaskInv, Works
    <2>3. \A x \in Trying(task[q]) : x \in Seats
      BY CarefulTask, ElementOfSeq DEF Trying, Task, InLoop
    <2>. QED BY <1>7, <1>8, <1>11, <1>12, <1>14, <2>1, <2>2, <2>3 DEF TaskInv, Pends, LockedBy
  <1>15. TasksApart'
    BY <1>3, <1>6, <1>9, <1>12 DEF CarefulInv, TasksApart
  <1>16. \A c \in Bookings : InFlight(c)' <=> InFlight(c) /\ (AtLast(p) => c # b)
    BY <1>3, <1>6, <1>9, <1>12, CarefulTypes DEF InFlight
  <1>17. RowsInv'
    BY <1>4, <1>7, <1>16, CarefulTypes DEF CarefulInv, RowsInv, None
  <1>18. KeysInv'
    <2>1. ASSUME NEW x \in Seats, hold'[x].val = Pending
          PROVE  \E q \in Procs : x \in Owed(task'[q])
      <3>1. x # s /\ hold[x].val = Pending
        BY <1>8, <2>1, CarefulTypes
      <3>2. PICK q \in Procs : x \in Owed(task[q])
        BY <3>1 DEF CarefulInv, KeysInv
      <3>. QED BY <1>6, <1>9, <3>1, <3>2
    <2>2. ASSUME NEW x \in Seats, hold'[x].val \in Bookings
          PROVE  /\ rows'[hold'[x].val].status \in {"HOLD", "EXPIRED"}
                 /\ x \in Range(rows'[hold'[x].val].seats)
                 /\ \A q \in Procs : task'[q].b = hold'[x].val =>
                      x \in Kept(task'[q]) \/ task'[q].to = "EXPIRED"
      <3>1. CASE x = s
        <4>1. s \in Range(rows[b].seats)
          BY <1>1, <1>2, <1>4 DEF Task, Seat, Range
        <4>. QED BY <1>3, <1>4, <1>6, <1>7, <1>8, <1>9, <1>12, <3>1, <4>1
      <3>2. CASE x # s
        <4>1. hold'[x] = hold[x] /\ hold[x].val \in Bookings
          BY <1>8, <2>2, <3>2
        <4>2. /\ rows[hold[x].val].status \in {"HOLD", "EXPIRED"}
              /\ x \in Range(rows[hold[x].val].seats)
              /\ \A q \in Procs : task[q].b = hold[x].val =>
                      x \in Kept(task[q]) \/ task[q].to = "EXPIRED"
          BY <4>1 DEF CarefulInv, KeysInv
        <4>3. task[p].to # "EXPIRED"
          BY <1>1 DEF TaskInv, Shaped, None
        <4>. QED BY <1>3, <1>6, <1>7, <1>9, <4>1, <4>2, <4>3, CarefulTypes
      <3>. QED BY <3>1, <3>2
    <2>3. ASSUME NEW c \in Bookings, LiveHold(c)', ~InFlight(c)'
          PROVE  \A x \in Range(rows'[c].seats) : LockedBy(x, c)'
      <3>1. LiveHold(c) /\ (InFlight(c) => AtLast(p) /\ c = b)
        BY <1>7, <1>16, <2>3 DEF LiveHold
      <3>2. Range(rows[c].seats) \subseteq Seats
        BY CarefulTypes DEF Row, Range
      <3>3. CASE ~InFlight(c)
        <4>1. \A x \in Range(rows[c].seats) : LockedBy(x, c)
          BY <3>1, <3>3 DEF CarefulInv, KeysInv
        <4>2. \A x \in Range(rows[c].seats) : x # s
          BY <1>11, <4>1, CarefulTypes DEF LockedBy
        <4>. QED BY <1>7, <1>8, <3>2, <4>1, <4>2 DEF LockedBy
      <3>4. CASE AtLast(p) /\ c = b
        <4>1. \A x \in Kept(task[p]) : LockedBy(x, b) /\ x \in Seats /\ x # s
          BY <1>3, <1>12, TaskOfKey
        <4>. QED BY <1>4, <1>6, <1>7, <1>8, <3>4, <4>1 DEF LockedBy
      <3>. QED BY <3>1, <3>3, <3>4
    <2>. QED BY <2>1, <2>2, <2>3 DEF KeysInv
  <1>19. SoldSeatsInv'
    <2>1. ASSUME NoRace, NEW x \in booked
          PROVE  hold'[x] = NoKey \/ \E q \in Procs : x \in Freeing(task'[q])
      <3>1. x \in Seats /\ x # s
        BY <1>11, <2>1, CarefulTypes
      <3>. QED BY <1>8, <1>9, <1>10, <2>1, <3>1 DEF CarefulInv, SoldSeatsInv
    <2>. QED BY <1>7, <2>1 DEF SoldSeatsInv
  <1>. QED BY <1>13, <1>14, <1>15, <1>17, <1>18, <1>19 DEF CarefulInv
-----------------------------------------------------------------------------
(* Confirm and Cancel. *)

\* A call that has just read a booking: nobody works on that one, so the keys of
\* a booking that is alive are the ones the call will free.
LEMMA LoadsCareful ==
    ASSUME Careful, CarefulInv, SoldInv', NEW p \in Procs, NEW b \in Bookings,
           ConfirmLoad(p, b) \/ CancelLoad(p, b)
    PROVE  CarefulInv'
  <1>1. /\ task[p] \in Task /\ TaskInv(task[p]) /\ task[p].pc = "idle"
        /\ rows[b].status = "HOLD" /\ b \in told /\ b # None
        /\ UNCHANGED <<hold, booked, rows, told>>
    BY CarefulTask, CarefulTypes DEF ConfirmLoad, CancelLoad, At, MayCall
  <1>2. task[p].b = None /\ Owed(task[p]) = {}
    BY <1>1, NoParts DEF TaskInv, Shaped
  <1>3. ~InFlight(b)
    BY DEF Careful, Procs, InFlight, ConfirmLoad, CancelLoad, MayCall
  <1>4. rows[b].seats \in Seq(Seats)
    BY CarefulTypes DEF Row
  <1>5. PICK t :
           /\ Become(p, t)
           /\ \/ t = Start("update", <<>>, b, "EXPIRED") /\ rows[b].left < 0
              \/ t = Start("sadd", rows[b].seats, b, "CONFIRMED") /\ rows[b].left >= 0
              \/ t = Start("release", rows[b].seats, b, "CANCELLED") /\ rows[b].left >= 0
    BY DEF ConfirmLoad, CancelLoad, Careful
  <1>6. /\ t.b = b /\ t.gone = FALSE /\ t.batch = {} /\ t.i = 1
        /\ \/ t.pc = "update" /\ t.to = "EXPIRED" /\ rows[b].left < 0
           \/ /\ t.pc = "sadd" /\ t.to = "CONFIRMED" /\ rows[b].left >= 0
              /\ t.seats = rows[b].seats
           \/ /\ t.pc = "release" /\ t.to = "CANCELLED" /\ rows[b].left >= 0
              /\ t.seats = rows[b].seats
    BY <1>5, StartedTask
  <1>7. Shaped(t) /\ Works(t)
    BY <1>1, <1>6 DEF Shaped, Works, None
  <1>8. Owed(t) = {} /\ Trying(t) = {}
    BY <1>6, NoParts DEF None
  <1>9. t.to = "EXPIRED" => Kept(t) = {}
    BY <1>6, NoParts
  <1>10. ASSUME t.to # "EXPIRED" PROVE LiveHold(b) /\ Kept(t) = Range(rows[b].seats)
    <2>1. \A k \in Places(t) : Keeps(t, k)
      BY <1>6, <1>10 DEF Keeps, Places, None
    <2>2. Range(rows[b].seats) = {rows[b].seats[k] : k \in 1 .. Len(rows[b].seats)}
      BY <1>4 DEF Range
    <2>3. \A x : x \in Kept(t) <=> x \in Range(rows[b].seats)
      BY <1>6, <1>10, <2>1, <2>2, PartMembers DEF Places
    <2>. QED BY <1>1, <1>6, <1>10, <2>3 DEF LiveHold
  <1>. QED BY <1>1, <1>2, <1>3, <1>5, <1>6, <1>7, <1>8, <1>9, <1>10, LoadStep
\* The SADD of a seat whose key this Confirm keeps.
LEMMA ConfirmSAddCareful ==
    ASSUME Careful, CarefulInv, SoldInv', NEW p \in Procs, ConfirmSAdd(p)
    PROVE  CarefulInv'
  <1>1. /\ task[p] \in Task /\ TaskInv(task[p]) /\ TypeInv /\ task[p].pc = "sadd"
        /\ task[p].i <= Len(task[p].seats) /\ TaskFits(task[p])
        /\ Sent(p) /\ \A fault \in {"dbFault", "redisFault"} : ~Fails(p, fault)
    BY CarefulTask DEF ConfirmSAdd, At, InLoop
  <1>2. PICK s \in Seats : s = Seat(p)
    BY <1>1, ElementOfSeq DEF Task, Seat
  <1>3. PICK t : t = Goto(p, "unlock")
    OBVIOUS
  <1>4. /\ SameWork(t, task[p]) /\ t.pc = "unlock" /\ t.i = task[p].i
        /\ task[p].to = "CONFIRMED" /\ task[p].b \in Bookings
    BY <1>1, <1>3, MovedTask DEF TaskFits, Placed, Task, None
  <1>5. booked' = booked \cup {s} /\ UNCHANGED <<hold, rows, told>>
    BY <1>1, <1>2 DEF ConfirmSAdd
  <1>6. \A q \in Procs : task'[q] = IF q = p THEN t ELSE task[q]
    BY <1>3, OneTask DEF ConfirmSAdd
  <1>7. /\ Places(t) = Places(task[p]) /\ task[p].i \in Places(t)
        /\ s = task[p].seats[task[p].i]
        /\ \A k \in Places(t) : Keeps(t, k) <=> Keeps(task[p], k)
        /\ Keeps(t, task[p].i)
    BY <1>1, <1>2, <1>4 DEF SameWork, Places, Keeps, Task, Seat
  <1>8. /\ Kept(t) = Kept(task[p]) /\ Owed(t) = {} /\ Owed(task[p]) = {}
        /\ Trying(t) = {} /\ Freeing(t) = {s} /\ Freeing(task[p]) = {}
        /\ s \in Kept(task[p])
    <2>1. Kept(t) = Kept(task[p])
      BY <1>4, <1>7 DEF Kept, SameWork
    <2>2. s \in Kept(t)
      BY <1>4, <1>7, PartMembers DEF SameWork
    <2>3. Freeing(t) = {s}
      BY <1>4, <1>7 DEF Freeing, SameWork
    <2>. QED BY <1>1, <1>4, <2>1, <2>2, <2>3, NoParts
  <1>9. hold[s] # NoKey
    BY <1>8, TaskOfKey, CarefulTypes DEF LockedBy
  <1>10. TaskInv(task[p])'
    <2>1. Shaped(task[p])' /\ Works(task[p])'
      BY <1>1, <1>4, <1>5, <1>6 DEF TaskInv, Shaped, Works, SameWork
    <2>2. \A k : ~Owes(t, k)
      BY <1>4 DEF Owes
    <2>. QED BY <1>1, <1>4, <1>5, <1>6, <1>8, <2>1, <2>2 DEF TaskInv, Pends, LockedBy, SameWork
  <1>11. ASSUME NEW q \in Procs, q # p PROVE TaskInv(task[q])'
    <2>1. TaskInv(task[q]) /\ task'[q] = task[q]
      BY <1>6, <1>11 DEF CarefulInv
    <2>. QED BY <1>5, <1>9, <2>1 DEF TaskInv, Works, Pends, LockedBy
  <1>12. TasksApart'
    BY <1>4, <1>6, <1>8 DEF CarefulInv, TasksApart, SameWork
  <1>13. \A c \in Bookings : InFlight(c)' <=> InFlight(c)
    BY <1>4, <1>6 DEF InFlight, SameWork
  <1>14. RowsInv'
    BY <1>5, <1>13 DEF CarefulInv, RowsInv
  <1>15. KeysInv'
    <2>1. \A x \in Seats : hold'[x].val = Pending => \E q \in Procs : x \in Owed(task'[q])
      BY <1>5, <1>6, <1>8 DEF CarefulInv, KeysInv
    <2>2. \A x \in Seats : hold'[x].val \in Bookings =>
          /\ rows'[hold'[x].val].status \in {"HOLD", "EXPIRED"}
          /\ x \in Range(rows'[hold'[x].val].seats)
          /\ \A q \in Procs : task'[q].b = hold'[x].val =>
                x \in Kept(task'[q]) \/ task'[q].to = "EXPIRED"
      BY <1>4, <1>5, <1>6, <1>8 DEF CarefulInv, KeysInv, SameWork
    <2>. QED BY <1>5, <1>13, <2>1, <2>2 DEF CarefulInv, KeysInv, LiveHold, LockedBy
  <1>16. SoldSeatsInv'
    <2>1. ASSUME NoRace, NEW x \in booked'
          PROVE  hold'[x] = NoKey \/ \E q \in Procs : x \in Freeing(task'[q])
      <3>1. CASE x = s
        BY <1>6, <1>8, <3>1
      <3>2. CASE x # s
        <4>1. hold[x] = NoKey \/ \E q \in Procs : x \in Freeing(task[q])
          BY <1>5, <2>1, <3>2 DEF CarefulInv, SoldSeatsInv
        <4>. QED BY <1>5, <1>6, <1>8, <4>1
      <3>. QED BY <3>1, <3>2
    <2>. QED BY <2>1 DEF SoldSeatsInv
  <1>. QED BY <1>10, <1>11, <1>12, <1>14, <1>15, <1>16 DEF CarefulInv

\* What is owed and kept after a DEL: everything but the seat just freed.
LEMMA FreedParts ==
    ASSUME Careful, CarefulInv, NEW p \in Procs, task[p].pc \in {"unlock", "release"},
           NEW t, t = IF task[p].pc = "unlock" THEN Loop(p, "sadd", Goto(p, "update"))
                      ELSE Loop(p, "release",
                                IF task[p].to = None THEN Finished(p) ELSE Goto(p, "update"))
    PROVE  /\ Seat(p) \in Owed(task[p]) \cup Kept(task[p])
           /\ Owed(t) = Owed(task[p]) \ {Seat(p)} /\ Kept(t) = Kept(task[p]) \ {Seat(p)}
           /\ Trying(t) = {}
           /\ Freeing(task[p]) \subseteq {Seat(p)}
           /\ Shaped(t) /\ Works(t) /\ t.b = task[p].b /\ t.to = task[p].to
           /\ t.pc # "idle" => t.age = task[p].age
           /\ \A j, k \in Places(t) :
                 Owes(t, j) /\ Owes(t, k) /\ t.seats[j] = t.seats[k] => j = k
  <1>. DEFINE s == Seat(p)
  <1>1. /\ task[p] \in Task /\ TaskInv(task[p]) /\ TypeInv /\ TaskFits(task[p])
        /\ task[p].i <= Len(task[p].seats) /\ Finished(p) = Idle
    BY CarefulTask DEF InLoop
  <1>2. /\ task[p].i \in Places(task[p]) /\ s = task[p].seats[task[p].i]
        /\ task[p].seats \in Seq(Seats) /\ Len(task[p].seats) \in Nat /\ task[p].i \in Nat
    BY <1>1 DEF Task, Places, Seat
  <1>. HIDE DEF s
  <1>3. /\ t = IF AtLast(p)
               THEN IF task[p].to = None THEN Idle ELSE Goto(p, "update")
               ELSE Again(p, IF task[p].pc = "unlock" THEN "sadd" ELSE "release")
        /\ task[p].pc = "unlock" => task[p].to = "CONFIRMED"
        /\ task[p].pc = "release" => task[p].to \in {None, "CANCELLED"}
        /\ task[p].to = None => task[p].b = None
    BY <1>1, MovedTask DEF TaskFits, Placed, TaskInv, Shaped, None
  <1>4. /\ \A k \in Places(task[p]) :
              /\ Owes(task[p], k) <=> task[p].to = None /\ k >= task[p].i
              /\ Keeps(task[p], k) <=> task[p].to # None /\ k >= task[p].i
    BY <1>3 DEF Owes, Keeps, None
  <1>5. \A j, k \in Places(task[p]) : task[p].seats[j] = task[p].seats[k]
                                      /\ j >= task[p].i /\ k >= task[p].i => j = k
    <2>1. CASE task[p].to = None
      BY <1>1, <1>4, <2>1 DEF TaskInv, Pends
    <2>2. CASE task[p].to # None
      <3>1. task[p].b \in Bookings /\ task[p].seats = rows[task[p].b].seats
        BY <1>1, <1>3, <2>2 DEF TaskFits, Placed, TaskInv, Works, Task, None
      <3>. QED BY <3>1 DEF CarefulInv, RowsInv, Places
    <2>. QED BY <2>1, <2>2
  <1>6. s \in Owed(task[p]) \cup Kept(task[p]) /\ Freeing(task[p]) \subseteq {s}
    BY <1>2, <1>4, PartMembers DEF Freeing
  <1>7. CASE AtLast(p) /\ task[p].to = None
    <2>1. /\ t.pc = "idle" /\ t.b = None /\ t.to = None /\ t.gone = FALSE /\ t.batch = {}
      BY <1>3, <1>7 DEF Idle, Start
    <2>2. Owed(task[p]) = {s} /\ Kept(task[p]) = {}
      <3>1. \A k \in Places(task[p]) : Owes(task[p], k) <=> k = task[p].i
        BY <1>2, <1>4, <1>7 DEF Places, AtLast
      <3>2. \A x : x \in Owed(task[p]) <=> x = s
        BY <1>2, <3>1, PartMembers
      <3>. QED BY <1>3, <1>7, <3>2, NoParts DEF None
    <2>3. Owed(t) = {} /\ Kept(t) = {} /\ Trying(t) = {}
      BY <2>1, NoParts DEF None
    <2>4. Shaped(t) /\ Works(t) /\ \A k : ~Owes(t, k)
      BY <2>1 DEF Shaped, Works, Owes, None
    <2>. QED BY <1>3, <1>6, <1>7, <2>1, <2>2, <2>3, <2>4 DEF s
  <1>8. CASE ~(AtLast(p) /\ task[p].to = None)
    <2>1. /\ SameWork(t, task[p]) /\ Places(t) = Places(task[p])
          /\ AtLast(p) => t.pc = "update" /\ t.i = task[p].i
          /\ ~AtLast(p) => t.pc = (IF task[p].pc = "unlock" THEN "sadd" ELSE "release")
                           /\ t.i = task[p].i + 1
      BY <1>1, <1>3, <1>8, MovedTask DEF SameWork, Places
    <2>2. \A k \in Places(t) : /\ Owes(t, k) <=> Owes(task[p], k) /\ k # task[p].i
                               /\ Keeps(t, k) <=> Keeps(task[p], k) /\ k # task[p].i
      <3>1. CASE AtLast(p)
        <4>1. \A k \in Places(t) : k >= task[p].i <=> k = task[p].i
          BY <1>2, <2>1, <3>1 DEF Places, AtLast
        <4>2. \A k \in Places(t) : k < task[p].i \/ k = task[p].i
          BY <1>2, <2>1, <3>1 DEF Places, AtLast
        <4>. QED BY <1>3, <1>4, <1>8, <2>1, <3>1, <4>1, <4>2
             DEF Owes, Keeps, SameWork, None
      <3>2. CASE ~AtLast(p)
        <4>1. \A k \in Places(t) : /\ k >= t.i <=> k >= task[p].i /\ k # task[p].i
                                   /\ k < t.i <=> k < task[p].i \/ k = task[p].i
          BY <1>2, <2>1, <3>2 DEF Places
        <4>. QED BY <1>3, <1>4, <2>1, <3>2, <4>1 DEF Owes, Keeps, SameWork, None
      <3>. QED BY <3>1, <3>2
    <2>3. Owed(t) = Owed(task[p]) \ {s} /\ Kept(t) = Kept(task[p]) \ {s}
      <3>1. \A k \in Places(t) : k >= task[p].i => (k # task[p].i <=> task[p].seats[k] # s)
        BY <1>2, <1>5, <2>1 DEF Places
      <3>2. \A k \in Places(t) :
               /\ Owes(t, k) <=> Owes(task[p], k) /\ task[p].seats[k] # s
               /\ Keeps(t, k) <=> Keeps(task[p], k) /\ task[p].seats[k] # s
        BY <1>4, <2>1, <2>2, <3>1
      <3>3. \A x : x \in Owed(t) <=> x \in Owed(task[p]) /\ x # s
        BY <2>1, <3>2, PartMembers DEF SameWork
      <3>4. \A x : x \in Kept(t) <=> x \in Kept(task[p]) /\ x # s
        BY <2>1, <3>2, PartMembers DEF SameWork
      <3>. QED BY <3>3, <3>4
    <2>4. Trying(t) = {}
      BY <2>1, NoParts
    <2>5. Shaped(t)
      BY <1>1, <1>3, <2>1 DEF TaskInv, Shaped, SameWork, None
    <2>6. Works(t)
      BY <1>1, <1>3, <2>1 DEF TaskInv, Works, SameWork, None
    <2>7. \A j, k \in Places(t) :
             Owes(t, j) /\ Owes(t, k) /\ t.seats[j] = t.seats[k] => j = k
      BY <1>4, <1>5, <2>1, <2>2 DEF SameWork
    <2>. QED BY <1>6, <2>1, <2>3, <2>4, <2>5, <2>6, <2>7 DEF SameWork, s
  <1>. QED BY <1>7, <1>8
\* The DELs, of Confirm, of Cancel and of a Hold that gives up.
LEMMA FreesCareful ==
    ASSUME Careful, CarefulInv, SoldInv', NEW p \in Procs, ConfirmUnlock(p) \/ Release(p)
    PROVE  CarefulInv'
  <1>1. /\ task[p] \in Task /\ TaskInv(task[p]) /\ task[p].pc \in {"unlock", "release"}
        /\ task[p].i <= Len(task[p].seats)
        /\ Sent(p) /\ \A fault \in {"dbFault", "redisFault"} : ~Fails(p, fault)
    BY CarefulTask DEF ConfirmUnlock, Release, At, InLoop
  <1>2. PICK s \in Seats : s = Seat(p)
    BY <1>1, ElementOfSeq DEF Task, Seat
  <1>3. PICK t :
           /\ Become(p, t)
           /\ t = IF task[p].pc = "unlock" THEN Loop(p, "sadd", Goto(p, "update"))
                  ELSE Loop(p, "release",
                            IF task[p].to = None THEN Finished(p) ELSE Goto(p, "update"))
    BY DEF ConfirmUnlock, Release, At
  <1>4. /\ s \in Owed(task[p]) \cup Kept(task[p])
        /\ Owed(t) = Owed(task[p]) \ {s} /\ Kept(t) = Kept(task[p]) \ {s}
        /\ Trying(t) = {}
        /\ Freeing(task[p]) \subseteq {s}
        /\ Shaped(t) /\ Works(t) /\ t.b = task[p].b /\ t.to = task[p].to
        /\ t.pc # "idle" => t.age = task[p].age
        /\ \A j, k \in Places(t) :
              Owes(t, j) /\ Owes(t, k) /\ t.seats[j] = t.seats[k] => j = k
    BY <1>1, <1>2, <1>3, FreedParts
  <1>5. hold' = [hold EXCEPT ![s] = NoKey] /\ UNCHANGED <<booked, rows, told>>
    BY <1>1, <1>2 DEF ConfirmUnlock, Release
  <1>6. Owed(t) # {} => t.age = task[p].age
    BY <1>4, NoParts
  <1>7. ASSUME NoRace, s \in booked PROVE \A q \in Procs : q # p => s \notin Trying(task[q])
    <2>1. s \in Freeing(task[p])
      BY <1>4, <1>7, LockedNotSold
    <2>2. NoGap(p) /\ Procs = Workers
      BY <1>7, <2>1, NoParts DEF ConfirmUnlock, Release, At, Careful, Procs, NoRace
    <2>. QED BY <1>2, <2>2 DEF NoGap, Trying, At, Seat
  <1>. QED BY <1>3, <1>4, <1>5, <1>6, <1>7, FreeStep

\* The UPDATE.  What was sold by the call is now sold by its booking, and a booking
\* that was cancelled has no key left.
LEMMA UpdateStatusCareful ==
    ASSUME Careful, CarefulInv, SoldInv', NEW p \in Procs, UpdateStatus(p)
    PROVE  CarefulInv'
  <1>1. /\ task[p] \in Task /\ TaskInv(task[p]) /\ TypeInv /\ task[p].pc = "update"
        /\ TaskFits(task[p]) /\ Finished(p) = Idle /\ ConfirmFits(task[p])
        /\ Sent(p) /\ \A fault \in {"dbFault", "redisFault"} : ~Fails(p, fault)
    BY CarefulTask DEF UpdateStatus, At, CarefulInv, SoldInv
  <1>2. PICK b \in Bookings : b = task[p].b /\ b # None
    BY <1>1 DEF TaskFits, Placed, Task, None
  <1>3. /\ task[p].to \in {"CONFIRMED", "CANCELLED", "EXPIRED"} /\ rows[b].status = "HOLD"
        /\ b \in told
    BY <1>1, <1>2 DEF TaskFits, Placed, Task, Status, TaskInv, Shaped, Works
  <1>4. PICK t : t = Idle
    OBVIOUS
  <1>5. t.pc = "idle" /\ t.b = None /\ t.to = None /\ t.gone = FALSE /\ t.batch = {}
    BY <1>4 DEF Idle, Start
  <1>6. \A q \in Procs : task'[q] = IF q = p THEN t ELSE task[q]
    BY <1>1, <1>4, OneTask DEF UpdateStatus
  <1>7. /\ UNCHANGED <<hold, booked, told>>
        /\ \A c \in Bookings :
              /\ rows'[c].status = IF c = b THEN task[p].to ELSE rows[c].status
              /\ rows'[c].seats = rows[c].seats /\ rows'[c].left = rows[c].left
    <2>1. ~Fails(p, "dbFault")
      BY <1>1
    <2>2. rows' = [rows EXCEPT ![b].status = task[p].to] /\ UNCHANGED <<hold, booked, told>>
      BY <1>2, <2>1 DEF UpdateStatus
    <2>. QED BY <2>2, CarefulTypes DEF Row
  <1>8. /\ Owed(t) = {} /\ Kept(t) = {} /\ Trying(t) = {} /\ Freeing(t) = {}
        /\ Owed(task[p]) = {} /\ Kept(task[p]) = {} /\ Freeing(task[p]) = {}
    BY <1>1, <1>5, NoParts DEF None
  <1>9. \A q \in Procs : q # p => task[q].b # b
    BY <1>2 DEF CarefulInv, TasksApart
  <1>10. TaskInv(task[p])'
    <2>1. Shaped(t) /\ \A k : ~Owes(t, k)
      BY <1>5 DEF Shaped, Owes, None
    <2>2. Works(task[p])'
      BY <1>5, <1>6 DEF Works
    <2>. QED BY <1>6, <1>8, <2>1, <2>2 DEF TaskInv, Pends
  <1>11. ASSUME NEW q \in Procs, q # p PROVE TaskInv(task[q])'
    <2>1. TaskInv(task[q]) /\ task'[q] = task[q] /\ task[q].b # b
      BY <1>6, <1>9, <1>11 DEF CarefulInv
    <2>2. task[q].b # None => task[q].b \in Bookings
      BY CarefulTask DEF Task
    <2>3. \A s \in Kept(task[q]) : task[q].b # None
      BY TaskOfKey, CarefulTypes
    <2>. QED BY <1>7, <2>1, <2>2, <2>3 DEF TaskInv, Works, Pends, LockedBy
  <1>12. TasksApart'
    BY <1>5, <1>6, <1>8 DEF CarefulInv, TasksApart
  <1>13. \A c \in Bookings : InFlight(c)' <=> InFlight(c) /\ c # b
    BY <1>2, <1>5, <1>6, <1>9, CarefulTypes DEF InFlight
  <1>14. RowsInv'
    BY <1>3, <1>7, <1>13 DEF CarefulInv, RowsInv, None
  <1>15. KeysInv'
    <2>1. \A x \in Seats : hold'[x].val = Pending => \E q \in Procs : x \in Owed(task'[q])
      BY <1>6, <1>7, <1>8 DEF CarefulInv, KeysInv
    <2>2. ASSUME NEW x \in Seats, hold'[x].val \in Bookings
          PROVE  /\ rows'[hold'[x].val].status \in {"HOLD", "EXPIRED"}
                 /\ x \in Range(rows'[hold'[x].val].seats)
                 /\ \A q \in Procs : task'[q].b = hold'[x].val =>
                      x \in Kept(task'[q]) \/ task'[q].to = "EXPIRED"
      <3>1. /\ hold' = hold /\ hold[x].val \in Bookings
            /\ rows[hold[x].val].status \in {"HOLD", "EXPIRED"}
            /\ x \in Range(rows[hold[x].val].seats)
            /\ \A q \in Procs : task[q].b = hold[x].val =>
                      x \in Kept(task[q]) \/ task[q].to = "EXPIRED"
        BY <1>7, <2>2 DEF CarefulInv, KeysInv
      <3>2. hold[x].val = b => task[p].to = "EXPIRED"
        BY <1>2, <1>8, <3>1
      <3>. QED BY <1>5, <1>6, <1>7, <3>1, <3>2, CarefulTypes
    <2>3. ASSUME NEW c \in Bookings, LiveHold(c)', ~InFlight(c)'
          PROVE  \A x \in Range(rows'[c].seats) : LockedBy(x, c)'
      <3>1. c # b
        BY <1>3, <1>7, <2>3 DEF LiveHold
      <3>2. LiveHold(c) /\ ~InFlight(c)
        BY <1>7, <1>13, <2>3, <3>1 DEF LiveHold
      <3>. QED BY <1>7, <3>2 DEF CarefulInv, KeysInv, LockedBy
    <2>. QED BY <2>1, <2>2, <2>3 DEF KeysInv
  <1>16. SoldSeatsInv'
    <2>1. NoRace => \A x \in booked : hold'[x] = NoKey \/ \E q \in Procs : x \in Freeing(task'[q])
      BY <1>6, <1>7, <1>8 DEF CarefulInv, SoldSeatsInv
    <2>. QED BY <1>7, <2>1 DEF SoldSeatsInv
  <1>. QED BY <1>10, <1>11, <1>12, <1>14, <1>15, <1>16 DEF CarefulInv
-----------------------------------------------------------------------------
(* Time. *)

\* What a tick does to one key, one row and one task.
LEMMA TickParts ==
    ASSUME Careful, CarefulInv, Tick
    PROVE  /\ UNCHANGED <<booked, told>>
           /\ \A s \in Seats :
                 /\ hold[s].ttl = 0 => hold'[s] = NoKey
                 /\ hold[s].ttl > 0 => hold'[s].val = hold[s].val
                                       /\ hold'[s].ttl = hold[s].ttl - 1
                 /\ hold[s].ttl \in Nat
           /\ \A b \in Bookings :
                 /\ rows'[b].status = rows[b].status /\ rows'[b].seats = rows[b].seats
                 /\ rows[b].left \in -1 .. TTL
                 /\ rows[b].left < 0 => rows'[b].left = -1
                 /\ rows[b].left >= 0 => rows'[b].left = rows[b].left - 1
           /\ \A p \in Procs :
                 /\ task'[p].pc = task[p].pc /\ task'[p].seats = task[p].seats
                 /\ task'[p].i = task[p].i /\ task'[p].b = task[p].b
                 /\ task'[p].to = task[p].to /\ task'[p].batch = task[p].batch
                 /\ task'[p].gone = task[p].gone
                 /\ task[p].pc # "idle" =>
                       /\ Timely(p) /\ task'[p].age = task[p].age + 1
                       /\ task[p].pc = "insert" => task'[p].left = Elapse(task[p].left)
  <1>1. TypeInv /\ UNCHANGED <<booked, told>>
    BY DEF Tick, CarefulInv, SoldInv
  <1>2. ASSUME NEW s \in Seats
        PROVE  /\ hold[s].ttl = 0 => hold'[s] = NoKey
               /\ hold[s].ttl > 0 => hold'[s].val = hold[s].val
                                     /\ hold'[s].ttl = hold[s].ttl - 1
               /\ hold[s].ttl \in Nat
    <2>1. hold[s] \in Key /\ hold[s].ttl \in Nat
      BY CarefulTypes DEF Key
    <2>2. hold'[s] = IF hold[s].ttl = 0 THEN NoKey ELSE [hold[s] EXCEPT !.ttl = @ - 1]
      BY DEF Tick
    <2>. QED BY <2>1, <2>2 DEF Key
  <1>3. ASSUME NEW b \in Bookings
        PROVE  /\ rows[b].left \in -1 .. TTL
               /\ rows[b].left < 0 => rows'[b].left = -1
               /\ rows[b].left >= 0 => rows'[b].left = rows[b].left - 1
    <2>1. rows[b] \in Row /\ rows[b].left \in -1 .. TTL
      BY CarefulTypes DEF Row
    <2>2. rows'[b] = [rows[b] EXCEPT !.left = Elapse(@)]
      BY DEF Tick
    <2>. QED BY <2>1, <2>2, TimeAssumption DEF Row, Elapse
  <1>4. ASSUME NEW p \in Procs, task[p].pc # "idle"
        PROVE  /\ Timely(p) /\ task'[p].age = task[p].age + 1
               /\ task[p].pc = "insert" => task'[p].left = Elapse(task[p].left)
    <2>1. task[p] \in Task /\ Timely(p)
      BY <1>4, CarefulTask DEF Tick, Careful, At
    <2>. DEFINE o == Older(p)
    <2>2. o.age = task[p].age + 1 /\ o.left = task[p].left /\ o \in Task
      <3>1. task[p].age + 1 \in 0 .. MaxDelay
        BY <2>1, TimeAssumption DEF Timely, Task
      <3>2. o = [task[p] EXCEPT !.age = task[p].age + 1]
        BY <2>1 DEF Timely, Older, Task
      <3>. QED BY <2>1, <3>1, <3>2 DEF Task
    <2>3. task'[p] = [o EXCEPT !.left = IF At(p, "insert") THEN Elapse(@) ELSE @]
      BY <1>4 DEF Tick, At
    <2>. HIDE DEF o
    <2>. QED BY <2>1, <2>2, <2>3 DEF Task, At
  <1>. QED BY <1>1, <1>2, <1>3, <1>4, TickAges

\* A key that a task owes or keeps outlives the tick, and so does one that locks
\* the seat of a booking that may still be sold after it.
LEMMA TickCareful ==
    ASSUME Careful, CarefulInv, SoldInv', Tick
    PROVE  CarefulInv'
  <1>1. ASSUME NEW p \in Procs
        PROVE  /\ task[p] \in Task /\ TaskInv(task[p]) /\ TaskFits(task[p])
               /\ task[p].b \in Bookings \cup {None} /\ task[p].age \in Nat
               /\ InLoop(task[p]) => task[p].i <= Len(task[p].seats)
    BY CarefulTask DEF Task
  <1>2. ASSUME NEW p \in Procs
        PROVE  /\ Owed(task'[p]) = Owed(task[p]) /\ Kept(task'[p]) = Kept(task[p])
               /\ Trying(task'[p]) = Trying(task[p])
               /\ Freeing(task'[p]) = Freeing(task[p])
               /\ Places(task'[p]) = Places(task[p])
               /\ \A k : Owes(task'[p], k) <=> Owes(task[p], k)
    <2>1. /\ task'[p].pc = task[p].pc /\ task'[p].seats = task[p].seats
          /\ task'[p].i = task[p].i /\ task'[p].to = task[p].to
      BY TickParts
    <2>. QED BY <2>1 DEF Owed, Kept, Trying, Freeing, Places, Owes, Keeps
  <1>3. ASSUME NEW p \in Procs, NEW s \in Owed(task[p])
        PROVE  hold[s].ttl > 0 /\ hold'[s].val = Pending /\ hold'[s].ttl >= TTL - task'[p].age
    <2>1. s \in Seats /\ hold[s].val = Pending /\ hold[s].ttl >= TTL - task[p].age
      BY TaskOfKey
    <2>2. task[p].pc # "idle"
      BY NoParts
    <2>3. task[p].age < MaxDelay /\ task'[p].age = task[p].age + 1
      BY <2>2, TickParts DEF Timely
    <2>4. hold[s].ttl \in Nat /\ hold[s].ttl > 0
      BY <1>1, <2>1, <2>3, TickParts, TimeAssumption DEF Careful
    <2>5. hold'[s].val = hold[s].val /\ hold'[s].ttl = hold[s].ttl - 1
      BY <2>1, <2>4, TickParts
    <2>. QED BY <1>1, <2>1, <2>3, <2>4, <2>5, TimeAssumption
  <1>4. ASSUME NEW p \in Procs, task[p].b # None, task[p].to # "EXPIRED"
        PROVE  rows[task[p].b].left > 0 /\ rows'[task[p].b].left = rows[task[p].b].left - 1
    <2>1. task[p].pc # "idle" /\ rows[task[p].b].left >= 0 /\ task[p].b \in Bookings
      BY <1>1, <1>4 DEF TaskInv, Shaped, Works
    <2>2. rows[task[p].b].left # 0
      BY <1>4, <2>1, TickParts DEF Timely
    <2>. QED BY <2>1, <2>2, TickParts
  <1>5. ASSUME NEW s \in Seats, NEW b \in Bookings, LockedBy(s, b), rows[b].left > 0
        PROVE  hold[s].ttl > 0 /\ LockedBy(s, b)'
    <2>1. hold[s].val = b /\ hold[s].ttl >= rows[b].left /\ rows[b].left \in -1 .. TTL
      BY <1>5, TickParts DEF LockedBy
    <2>2. hold[s].ttl \in Nat /\ hold[s].ttl > 0
      BY <1>5, <2>1, TickParts, TimeAssumption
    <2>3. hold'[s].val = b /\ hold'[s].ttl = hold[s].ttl - 1
          /\ rows'[b].left = rows[b].left - 1
      BY <1>5, <2>1, <2>2, TickParts, TimeAssumption
    <2>. QED BY <2>1, <2>2, <2>3, TimeAssumption DEF LockedBy
  <1>6. ASSUME NEW p \in Procs, NEW s \in Kept(task[p])
        PROVE  s \in Seats /\ hold[s].ttl > 0 /\ LockedBy(s, task[p].b)'
    <2>1. /\ s \in Seats /\ task[p].b \in Bookings /\ LockedBy(s, task[p].b)
          /\ task[p].to # "EXPIRED"
      BY TaskOfKey
    <2>2. PICK b \in Bookings : b = task[p].b /\ task'[p].b = b
      BY <2>1, TickParts
    <2>3. rows[b].left > 0
      BY <1>4, <2>1, <2>2, CarefulTypes
    <2>4. hold[s].ttl > 0 /\ LockedBy(s, b)'
      BY <1>5, <2>1, <2>2, <2>3
    <2>. QED BY <2>1, <2>2, <2>4 DEF LockedBy
  <1>7. ASSUME NoRace, NEW s \in booked, hold'[s] = NoKey PROVE hold[s] = NoKey
    <2>1. hold[s] # NoKey => \E q \in Procs : s \in Freeing(task[q])
      BY <1>7 DEF CarefulInv, SoldSeatsInv
    <2>2. ASSUME NEW q \in Procs, s \in Freeing(task[q]) PROVE FALSE
      <3>1. s \in Kept(task[q]) /\ task[q].b \in Bookings
        BY <2>2, TaskOfKey
      <3>. QED BY <1>6, <1>7, <2>2, <3>1, TickParts, CarefulTypes DEF LockedBy
    <2>. QED BY <2>1, <2>2
  <1>8. ASSUME NEW p \in Procs PROVE TaskInv(task[p])'
    <2>1. TaskInv(task[p]) /\ task[p] \in Task
      BY <1>1
    <2>2. Shaped(task[p])'
      <3>1. task[p].pc = "insert" => task'[p].left >= TTL - task'[p].age
        <4>. SUFFICES ASSUME task[p].pc = "insert" PROVE task'[p].left >= TTL - task'[p].age
          OBVIOUS
        <4>1. /\ task[p].left >= TTL - task[p].age /\ task[p].age < MaxDelay
              /\ task'[p].age = task[p].age + 1 /\ task'[p].left = Elapse(task[p].left)
          BY <2>1, TickParts DEF TaskInv, Shaped, Timely
        <4>. QED BY <2>1, <4>1, TimeAssumption DEF Elapse, Careful, Task
      <3>. QED BY <2>1, <3>1, TickParts DEF TaskInv, Shaped
    <2>3. Works(task[p])'
      <3>. SUFFICES ASSUME task[p].b # None
                    PROVE  /\ rows'[task[p].b].status = "HOLD"
                           /\ task[p].to = "EXPIRED" =>
                                 task[p].pc = "update" /\ rows'[task[p].b].left < 0
                           /\ task[p].to # "EXPIRED" =>
                                 /\ rows'[task[p].b].left >= 0
                                 /\ task[p].seats = rows'[task[p].b].seats
                           /\ task[p].pc = "tag" <=> task[p].b \notin told'
        BY TickParts DEF Works
      <3>1. task[p].b \in Bookings
        BY <1>1
      <3>2. /\ rows[task[p].b].status = "HOLD"
            /\ task[p].to = "EXPIRED" => task[p].pc = "update" /\ rows[task[p].b].left < 0
            /\ task[p].to # "EXPIRED" =>
                  rows[task[p].b].left >= 0 /\ task[p].seats = rows[task[p].b].seats
            /\ task[p].pc = "tag" <=> task[p].b \notin told
        BY <2>1 DEF TaskInv, Works
      <3>3. task[p].to # "EXPIRED" => rows'[task[p].b].left >= 0
        BY <1>4, <3>1, TickParts
      <3>4. task[p].to = "EXPIRED" => rows'[task[p].b].left < 0
        BY <3>1, <3>2, TickParts
      <3>. QED BY <3>1, <3>2, <3>3, <3>4, TickParts
    <2>4. Pends(task[p])'
      <3>1. \A j, k \in Places(task[p]) : Owes(task[p], j) /\ Owes(task[p], k)
                  /\ task[p].seats[j] = task[p].seats[k] => j = k
        BY <2>1 DEF TaskInv, Pends
      <3>2. task'[p].seats = task[p].seats
        BY TickParts
      <3>. QED BY <1>2, <1>3, <3>1, <3>2 DEF Pends
    <2>5. \A s \in Kept(task[p]) : LockedBy(s, task[p].b)'
      BY <1>6
    <2>6. NoRace => \A s \in Trying(task[p]) : hold'[s] = NoKey => s \notin booked'
      BY <1>7, <2>1, TickParts DEF TaskInv
    <2>7. task'[p].b = task[p].b
      BY TickParts
    <2>. QED BY <1>2, <2>2, <2>3, <2>4, <2>5, <2>6, <2>7 DEF TaskInv, LockedBy
  <1>9. TasksApart'
    <2>1. \A q \in Procs : task'[q].b = task[q].b
      BY TickParts
    <2>. QED BY <1>2, <2>1 DEF CarefulInv, TasksApart
  <1>10. \A c \in Bookings : InFlight(c)' <=> InFlight(c)
    BY TickParts DEF InFlight
  <1>11. RowsInv'
    <2>1. told' = told /\ \A b \in Bookings :
             rows'[b].status = rows[b].status /\ rows'[b].seats = rows[b].seats
      BY TickParts
    <2>. QED BY <1>10, <2>1 DEF CarefulInv, RowsInv
  <1>12. \A s \in Seats : hold'[s].val = hold[s].val \/ hold'[s] = NoKey
    BY TickParts, TimeAssumption
  <1>13. KeysInv'
    <2>1. \A x \in Seats : hold'[x].val = Pending => \E q \in Procs : x \in Owed(task'[q])
      BY <1>2, <1>12, CarefulTypes DEF CarefulInv, KeysInv
    <2>2. ASSUME NEW x \in Seats, hold'[x].val \in Bookings
          PROVE  /\ rows'[hold'[x].val].status \in {"HOLD", "EXPIRED"}
                 /\ x \in Range(rows'[hold'[x].val].seats)
                 /\ \A q \in Procs : task'[q].b = hold'[x].val =>
                      x \in Kept(task'[q]) \/ task'[q].to = "EXPIRED"
      <3>1. hold'[x].val = hold[x].val
        BY <1>12, <2>2, CarefulTypes
      <3>. QED BY <1>2, <2>2, <3>1, TickParts DEF CarefulInv, KeysInv
    <2>3. ASSUME NEW c \in Bookings, LiveHold(c)', ~InFlight(c)'
          PROVE  \A x \in Range(rows'[c].seats) : LockedBy(x, c)'
      <3>1. rows[c].left > 0 /\ LiveHold(c) /\ ~InFlight(c)
        BY <1>10, <2>3, TickParts, TimeAssumption DEF LiveHold
      <3>2. \A x \in Range(rows[c].seats) : LockedBy(x, c) /\ x \in Seats
        BY <3>1, CarefulTypes DEF CarefulInv, KeysInv, Row, Range
      <3>3. rows'[c].seats = rows[c].seats
        BY TickParts
      <3>. QED BY <1>5, <3>1, <3>2, <3>3
    <2>. QED BY <2>1, <2>2, <2>3 DEF KeysInv
  <1>14. SoldSeatsInv'
    <2>1. NoRace => \A x \in booked : hold'[x] = NoKey \/ \E q \in Procs : x \in Freeing(task'[q])
      <3>1. \A x \in Seats : hold[x] = NoKey => hold'[x] = NoKey
        BY TickParts, CarefulTypes
      <3>. QED BY <1>2, <3>1, CarefulTypes DEF CarefulInv, SoldSeatsInv
    <2>. QED BY <2>1, TickParts DEF SoldSeatsInv
  <1>. QED BY <1>8, <1>9, <1>11, <1>13, <1>14 DEF CarefulInv
-----------------------------------------------------------------------------
(* CarefulInv is inductive. *)

LEMMA CarefulInvInitially == Init => CarefulInv
  <1>. SUFFICES ASSUME Init PROVE CarefulInv
    OBVIOUS
  <1>1. /\ Idle.pc = "idle" /\ Idle.b = None /\ Idle.to = None /\ Idle.gone = FALSE
        /\ Idle.batch = {}
    BY DEF Idle, Start
  <1>2. /\ \A p \in Procs : task[p] = Idle
        /\ \A s \in Seats : hold[s].val = None
        /\ \A b \in Bookings : rows[b].status = None /\ rows[b].seats = <<>>
        /\ booked = {} /\ told = {}
    BY DEF Init, NoKey, NoRow
  <1>3. Owed(Idle) = {} /\ Kept(Idle) = {} /\ Trying(Idle) = {} /\ \A k : ~Owes(Idle, k)
    BY <1>1, NoParts DEF Owes
  <1>4. TaskInv(Idle)
    BY <1>1, <1>3 DEF TaskInv, Shaped, Works, Pends, None
  <1>5. TasksApart
    BY <1>1, <1>2, <1>3 DEF TasksApart
  <1>6. RowsInv
    BY <1>2, EmptySeq DEF RowsInv, None
  <1>7. KeysInv
    BY <1>2, BookingsAssumption DEF KeysInv, LiveHold, None, Pending
  <1>. QED BY <1>2, <1>4, <1>5, <1>6, <1>7, SoldInvInitially DEF CarefulInv, SoldSeatsInv

LEMMA CarefulInvIsInductive ==
    ASSUME Careful
    PROVE  CarefulInv /\ [Next]_vars => CarefulInv'
  <1>. SUFFICES ASSUME CarefulInv, [Next]_vars PROVE CarefulInv'
    OBVIOUS
  <1>1. SoldInv'
    BY SoldInvIsInductive DEF CarefulInv, Careful, NoRedisFaults
  <1>2. Procs = Workers /\ Jobs = {}
    BY DEF Procs, Careful
  <1>3. ASSUME NEW p \in Workers, ClientStep(p) PROVE CarefulInv'
    BY <1>1, <1>2, <1>3, QuietHolds, LoadsCareful DEF ClientStep, ClientLeaves, Careful
  <1>4. ASSUME NEW p \in Workers, HandlerStep(p) PROVE CarefulInv'
    <2>1. CASE HoldSetNX(p)
      BY <1>1, <1>2, <2>1, QuietHolds, SetNXSucceeds
    <2>. QED BY <1>1, <1>2, <1>4, <2>1, QuietHolds, HoldInsertCareful, HoldTagCareful,
                ConfirmSAddCareful, FreesCareful DEF HandlerStep
  <1>5. ASSUME NEW p \in Procs, Release(p) \/ UpdateStatus(p) \/ Crash(p) PROVE CarefulInv'
    BY <1>1, <1>5, FreesCareful, UpdateStatusCareful DEF Crash, Careful
  <1>6. CASE RedisRestart
    BY <1>6 DEF RedisRestart, Careful
  <1>7. CASE UNCHANGED vars
    BY <1>1, <1>7 DEF vars, CarefulInv, TaskInv, Works, Pends, LockedBy, TasksApart,
       RowsInv, KeysInv, SoldSeatsInv, NoRace, LiveHold, InFlight
  <1>. QED BY <1>1, <1>2, <1>3, <1>4, <1>5, <1>6, <1>7, TickCareful DEF Next
-----------------------------------------------------------------------------
(* What the locks are for. *)

\* The keys of a booking that clients know of and may still pay carry its id, and
\* outlive the time that is left to pay.  This is under Careful, that is without
\* failures and restarts, without the CronJob, with one call at a time on a booking,
\* none past expires_at and none slower than MaxDelay; the race between SISMEMBER and
\* SETNX does it no harm.  Each of the exclusions is needed.  Two of them need no
\* failure to break it: the CronJob and a call that is still deleting keys after
\* another call has ended its booking delete by name the keys of whoever has the
\* seats now.
THEOREM HoldsAreAlwaysLocked ==
    ASSUME Careful
    PROVE  Spec => []HoldsAreLocked
  <1>1. CarefulInv => HoldsAreLocked
    BY CarefulTypes DEF CarefulInv, KeysInv, HoldsAreLocked, LockedBy
  <1>. QED BY <1>1, CarefulInvInitially, CarefulInvIsInductive, PTL DEF Spec

-----------------------------------------------------------------------------
(* The service implements SeatLedger.  The bookings an INSERT must not collide
   with are the ones that own seats: their seats are locked for them, or sold. *)

\* The k-th seat has been sold by this Confirm.
Sells(t, k) ==
    /\ t.to = "CONFIRMED"
    /\ t.pc = "update" \/ k < t.i \/ (k = t.i /\ t.pc = "unlock")

\* The seats this Hold has locked belong to no booking that is open or sold.
LEMMA OfferedSeatsAreFree ==
    ASSUME Careful, NoRace, CarefulInv, NEW p \in Procs, task[p].pc = "insert",
           NEW s \in Owed(task[p]), NEW c \in Bookings,
           rows[c].status = "CONFIRMED" \/ (LiveHold(c) /\ ~BeingCancelled(c))
    PROVE  s \notin Range(rows[c].seats)
  <1>. SUFFICES ASSUME s \in Range(rows[c].seats) PROVE FALSE
    OBVIOUS
  <1>1. s \in Seats /\ hold[s].val = Pending /\ s \notin booked
    BY TaskOfKey, LockedNotSold, NoParts
  <1>2. rows[c].status # "CONFIRMED"
    BY <1>1 DEF CarefulInv, SoldInv, ConfirmedSeatsAreSold
  <1>3. LiveHold(c) /\ ~BeingCancelled(c)
    BY <1>2
  <1>4. PICK q \in Procs : task[q].b = c
    BY <1>1, <1>3, CarefulTypes DEF CarefulInv, KeysInv, LockedBy, InFlight
  <1>5. /\ task[q] \in Task /\ TaskInv(task[q]) /\ TaskFits(task[q]) /\ c # None
        /\ ConfirmFits(task[q]) /\ q \in Workers
    BY CarefulTask, CarefulTypes DEF CarefulInv, SoldInv
  <1>6. /\ task[q].to \in {None, "CONFIRMED"} /\ task[q].seats = rows[c].seats
        /\ task[q].pc \in {"tag", "sadd", "unlock", "update"}
    <2>1. task[q].to \in Status \cup {None} /\ task[q].pc \in PCs /\ rows[c].left \in Int
      BY <1>5, CarefulTypes DEF Task, Row
    <2>2. task[q].to \notin {"HOLD", "CANCELLED", "EXPIRED"} /\ task[q].seats = rows[c].seats
      BY <1>3, <1>4, <1>5, <2>1 DEF TaskInv, Shaped, Works, LiveHold, BeingCancelled
    <2>3. task[q].pc \notin {"idle", "check", "setnx", "stamp", "insert", "next", "release"}
      BY <1>4, <1>5, <2>2 DEF TaskInv, Shaped
    <2>. QED BY <2>1, <2>2, <2>3 DEF Status, PCs
  <1>7. PICK k \in Places(task[q]) : s = task[q].seats[k]
    BY <1>5, <1>6 DEF Places, Range, Task
  <1>8. Owes(task[q], k) \/ Keeps(task[q], k) \/ Sells(task[q], k)
    <2>1. task[q].i \in Nat /\ k \in Nat
      BY <1>5 DEF Task, Places
    <2>. QED BY <1>5, <1>6, <2>1 DEF Owes, Keeps, Sells, TaskFits, Placed
  <1>9. CASE Owes(task[q], k)
    <2>1. s \in Owed(task[q])
      BY <1>7, <1>9, PartMembers
    <2>2. p # q
      BY <1>6
    <2>. QED BY <2>1, <2>2 DEF CarefulInv, TasksApart
  <1>10. CASE Keeps(task[q], k)
    <2>1. s \in Kept(task[q])
      BY <1>7, <1>10, PartMembers
    <2>. QED BY <1>1, <1>4, <2>1, TaskOfKey, CarefulTypes DEF LockedBy
  <1>11. CASE Sells(task[q], k)
    <2>1. task[q].seats[k] \in booked
      BY <1>5, <1>7, <1>11 DEF ConfirmFits, Sells, Places, TaskInv, Shaped
    <2>. QED BY <1>1, <1>7, <2>1
  <1>. QED BY <1>8, <1>9, <1>10, <1>11

\* The ledger sees nothing of a step that leaves the table alone and neither begins
\* nor ends a Cancel.
LEMMA LedgerSeesNothing ==
    ASSUME CarefulInv, NEW p \in Procs, NEW t, Become(p, t), rows' = rows,
           t.to = "CANCELLED" <=> task[p].to = "CANCELLED",
           t.to = "CANCELLED" => t.b = task[p].b
    PROVE  UNCHANGED <<Outcome, Wants>>
  <1>1. \A q \in Procs : task'[q] = IF q = p THEN t ELSE task[q]
    BY OneTask
  <1>2. \A c : BeingCancelled(c)' <=> BeingCancelled(c)
    BY <1>1 DEF BeingCancelled, Procs
  <1>3. Wants' = Wants
    BY DEF Wants
  <1>4. ASSUME NEW c \in Bookings PROVE Outcome'[c] = Outcome[c]
    BY <1>2 DEF Outcome, LiveHold
  <1>5. Outcome' = [c \in Bookings |-> Outcome'[c]] /\ Outcome = [c \in Bookings |-> Outcome[c]]
    BY DEF Outcome
  <1>. QED BY <1>3, <1>4, <1>5
\* What a Hold does before its INSERT and after it.
LEMMA HoldsStutter ==
    ASSUME Careful, CarefulInv, NEW p \in Procs,
           \/ \E seats \in Requests : HoldBegin(p, seats)
           \/ HoldCheck(p) \/ HoldSetNX(p) \/ HoldStamp(p) \/ HoldTag(p)
    PROVE  UNCHANGED <<Outcome, Wants>>
  <1>1. /\ task[p] \in Task /\ TaskInv(task[p]) /\ TypeInv
        /\ InLoop(task[p]) => task[p].i <= Len(task[p].seats)
    BY CarefulTask
  <1>2. task[p].to = None
    BY <1>1 DEF TaskInv, Shaped, HoldBegin, HoldCheck, HoldSetNX, HoldStamp, HoldTag, At
  <1>3. ASSUME task[p].pc \in {"check", "setnx"} PROVE Rollback(p, task[p].i - 1).to = None
    BY <1>1, <1>3, RollbackIsGood DEF InLoop, Task
  <1>4. /\ \A pc : Goto(p, pc).to = None /\ Again(p, pc).to = None
        /\ Stamped(p).to = None /\ Finished(p).to = None
        /\ \A again, done : done.to = None => Loop(p, again, done).to = None
    BY <1>1, <1>2, MovedTask, FinishedIsGood DEF SameWork
  <1>5. \E t : Become(p, t) /\ t.to = None /\ rows' = rows
    <2>1. CASE \E seats \in Requests : HoldBegin(p, seats)
      BY <2>1, StartedTask DEF HoldBegin
    <2>2. CASE HoldCheck(p)
      BY <1>3, <1>4, <2>2 DEF HoldCheck, At
    <2>3. CASE HoldSetNX(p)
      BY <1>3, <1>4, <2>3 DEF HoldSetNX, At
    <2>4. CASE HoldStamp(p)
      BY <1>4, <2>4 DEF HoldStamp, Stamped
    <2>5. CASE HoldTag(p)
      BY <1>4, <2>5 DEF HoldTag
    <2>. QED BY <2>1, <2>2, <2>3, <2>4, <2>5
  <1>. QED BY <1>2, <1>5, LedgerSeesNothing DEF None

\* A Confirm that has read its row, and the calls of Confirm and Cancel but the
\* UPDATE.
LEMMA CallsStutter ==
    ASSUME Careful, CarefulInv, NEW p \in Procs,
           \/ \E b \in Bookings : ConfirmLoad(p, b)
           \/ ConfirmSAdd(p) \/ ConfirmUnlock(p) \/ Release(p)
    PROVE  UNCHANGED <<Outcome, Wants>>
  <1>1. /\ task[p] \in Task /\ TaskInv(task[p]) /\ TypeInv
    BY CarefulTask
  <1>2. ASSUME NEW b \in Bookings, ConfirmLoad(p, b) PROVE UNCHANGED <<Outcome, Wants>>
    <2>1. task[p].to = None
      BY <1>1, <1>2 DEF TaskInv, Shaped, ConfirmLoad, At
    <2>2. \E t : Become(p, t) /\ t.to \in {"EXPIRED", "CONFIRMED"} /\ rows' = rows
      BY <1>2, StartedTask DEF ConfirmLoad
    <2>. QED BY <2>1, <2>2, LedgerSeesNothing DEF None
  <1>3. CASE ConfirmSAdd(p)
    <2>1. /\ Goto(p, "unlock").to = task[p].to /\ Goto(p, "unlock").b = task[p].b
      BY <1>1, MovedTask DEF SameWork
    <2>. QED BY <1>3, <2>1, LedgerSeesNothing DEF ConfirmSAdd
  <1>4. CASE ConfirmUnlock(p) \/ Release(p)
    <2>1. PICK t :
           /\ Become(p, t)
           /\ t = IF task[p].pc = "unlock" THEN Loop(p, "sadd", Goto(p, "update"))
                  ELSE Loop(p, "release",
                            IF task[p].to = None THEN Finished(p) ELSE Goto(p, "update"))
           /\ task[p].pc \in {"unlock", "release"} /\ rows' = rows
      BY <1>4 DEF ConfirmUnlock, Release, At
    <2>2. t.b = task[p].b /\ t.to = task[p].to
      BY <2>1, FreedParts
    <2>. QED BY <2>1, <2>2, LedgerSeesNothing
  <1>. QED BY <1>2, <1>3, <1>4

\* Outcome and Wants are functions of the bookings.
LEMMA LedgerFunctions ==
    /\ Outcome = [c \in Bookings |-> Outcome[c]] /\ Outcome' = [c \in Bookings |-> Outcome'[c]]
    /\ Wants = [c \in Bookings |-> Wants[c]] /\ Wants' = [c \in Bookings |-> Wants'[c]]
    /\ \A c \in Bookings : Wants[c] = Range(rows[c].seats) /\ Wants'[c] = Range(rows'[c].seats)
  BY DEF Outcome, Wants

\* The INSERT offers the seats to the new booking.
LEMMA HoldInsertOffers ==
    ASSUME Careful, NoRace, CarefulInv, SoldInv', NEW p \in Procs, HoldInsert(p)
    PROVE  \E b \in Bookings, S \in SUBSET Seats : Ledger!Offer(b, S)
  <1>1. /\ task[p] \in Task /\ TaskInv(task[p]) /\ TypeInv /\ task[p].pc = "insert"
        /\ Sent(p) /\ \A fault \in {"dbFault", "redisFault"} : ~Fails(p, fault) /\ ~LosesReply(p, fault)
    BY CarefulTask DEF HoldInsert, At
  <1>2. PICK b \in Bookings :
           /\ rows[b] = NoRow /\ Become(p, Tagging(p, b))
           /\ rows' = [rows EXCEPT ![b] = [status |-> "HOLD", seats |-> task[p].seats,
                                           left |-> task[p].left]]
    BY <1>1 DEF HoldInsert, Careful, Tagging
  <1>3. /\ \A c \in Bookings : c # b => rows'[c] = rows[c]
        /\ rows'[b].status = "HOLD" /\ rows'[b].seats = task[p].seats
        /\ rows'[b].left = task[p].left /\ rows[b].status = None
    BY <1>2, CarefulTypes DEF NoRow
  <1>4. \A q \in Procs : task'[q] = IF q = p THEN Tagging(p, b) ELSE task[q]
    BY <1>2, OneTask
  <1>5. Tagging(p, b).to = None /\ task[p].to = None /\ \A q \in Procs : task[q].b # b
    <2>1. ASSUME NEW q \in Procs PROVE task[q].b # b
      BY <1>3, CarefulTask, CarefulTypes DEF TaskFits
    <2>. QED BY <1>1, <2>1, StartedTask DEF TaskInv, Shaped
  <1>6. (\A c : BeingCancelled(c)' <=> BeingCancelled(c)) /\ ~BeingCancelled(b)
    BY <1>4, <1>5 DEF BeingCancelled, Procs, None
  <1>7. task[p].left >= 0
    BY <1>1, TimeAssumption DEF Careful, TaskInv, Shaped, Task
  <1>. DEFINE S == Range(task[p].seats)
  <1>8. S \in SUBSET Seats /\ S \subseteq Owed(task[p])
    <2>1. task[p].seats \in Seq(Seats) /\ \A k \in Places(task[p]) : Owes(task[p], k)
      BY <1>1 DEF Owes, Task
    <2>. QED BY <2>1, PartMembers DEF Range, Places
  <1>9. Outcome[b] = "none" /\ Outcome'[b] = "open" /\ Wants'[b] = S
    <2>1. Outcome[b] = "none"
      BY <1>3 DEF Outcome, LiveHold, None
    <2>2. Outcome'[b] = "open"
      BY <1>3, <1>6, <1>7 DEF Outcome, LiveHold, None
    <2>. QED BY <1>3, <2>1, <2>2, LedgerFunctions
  <1>10. \A c \in Bookings : c # b => Outcome'[c] = Outcome[c] /\ Wants'[c] = Wants[c]
    <2>1. ASSUME NEW c \in Bookings, c # b PROVE Outcome'[c] = Outcome[c]
      BY <1>3, <1>6, <2>1 DEF Outcome, LiveHold
    <2>. QED BY <1>3, <2>1, LedgerFunctions
  <1>11. ASSUME NEW c \in Bookings, Outcome[c] \in {"open", "sold"}
         PROVE  Wants[c] \cap S = {}
    <2>1. rows[c].status = "CONFIRMED" \/ (LiveHold(c) /\ ~BeingCancelled(c))
      BY <1>11 DEF Outcome
    <2>2. \A s \in S : s \notin Range(rows[c].seats)
      BY <1>1, <1>8, <2>1, OfferedSeatsAreFree
    <2>. QED BY <2>2, LedgerFunctions
  <1>. HIDE DEF S
  <1>12. /\ Outcome' = [Outcome EXCEPT ![b] = "open"]
         /\ Wants' = [Wants EXCEPT ![b] = S]
    BY <1>9, <1>10, LedgerFunctions
  <1>. QED BY <1>8, <1>9, <1>11, <1>12 DEF Ledger!Offer, Ledger!Owns

\* A Cancel decides when it has read the row.
LEMMA CancelLoadDecides ==
    ASSUME Careful, CarefulInv, NEW p \in Procs, NEW b \in Bookings, CancelLoad(p, b)
    PROVE  Ledger!Decide(b, "cancelled")
  <1>. DEFINE t == Start("release", rows[b].seats, b, "CANCELLED")
  <1>1. t.b = b /\ t.to = "CANCELLED"
    BY StartedTask
  <1>2. Become(p, t) /\ rows' = rows /\ LiveHold(b) /\ p \in Workers
    BY CarefulTask DEF CancelLoad, Careful, LiveHold
  <1>. HIDE DEF t
  <1>3. \A q \in Procs : task'[q] = IF q = p THEN t ELSE task[q]
    BY <1>2, OneTask
  <1>4. task[p].to = None /\ \A q \in Workers : task[q].b # b
    BY CarefulTask DEF CancelLoad, At, MayCall, Careful, TaskInv, Shaped
  <1>5. /\ \A c : BeingCancelled(c)' <=> BeingCancelled(c) \/ c = b
        /\ ~BeingCancelled(b)
    BY <1>1, <1>2, <1>3, <1>4 DEF BeingCancelled, Procs, None
  <1>6. Outcome[b] = "open" /\ Outcome'[b] = "cancelled"
    BY <1>2, <1>5 DEF Outcome, LiveHold, None
  <1>7. \A c \in Bookings : c # b => Outcome'[c] = Outcome[c]
    <2>1. ASSUME NEW c \in Bookings, c # b PROVE Outcome'[c] = Outcome[c]
      BY <1>2, <1>5, <2>1 DEF Outcome, LiveHold
    <2>. QED BY <2>1
  <1>8. Outcome' = [Outcome EXCEPT ![b] = "cancelled"]
    BY <1>6, <1>7, LedgerFunctions
  <1>9. Wants' = Wants
    BY <1>2 DEF Wants
  <1>. QED BY <1>6, <1>8, <1>9 DEF Ledger!Decide

\* The UPDATE of a Confirm sells the booking; the others store what the ledger knew.
LEMMA UpdateStatusDecides ==
    ASSUME Careful, CarefulInv, NEW p \in Procs, UpdateStatus(p)
    PROVE  \/ Ledger!Decide(task[p].b, "sold") /\ task[p].b \in Bookings
           \/ UNCHANGED <<Outcome, Wants>>
  <1>1. /\ task[p] \in Task /\ TaskInv(task[p]) /\ task[p].pc = "update" /\ p \in Workers
        /\ TaskFits(task[p]) /\ Finished(p) = Idle
        /\ Sent(p) /\ \A fault \in {"dbFault", "redisFault"} : ~Fails(p, fault)
    BY CarefulTask DEF UpdateStatus, At
  <1>2. PICK b \in Bookings : b = task[p].b /\ b # None
    BY <1>1 DEF TaskFits, Placed, Task, None
  <1>3. /\ task[p].to \in {"CONFIRMED", "CANCELLED", "EXPIRED"} /\ rows[b].status = "HOLD"
        /\ task[p].to = "EXPIRED" => rows[b].left < 0
        /\ task[p].to # "EXPIRED" => rows[b].left >= 0
    BY <1>1, <1>2 DEF TaskFits, Placed, Task, Status, TaskInv, Shaped, Works
  <1>4. Idle.to = None
    BY DEF Idle, Start
  <1>5. \A q \in Procs : task'[q] = IF q = p THEN Idle ELSE task[q]
    BY <1>1, OneTask DEF UpdateStatus
  <1>6. \A c \in Bookings :
              /\ rows'[c].status = IF c = b THEN task[p].to ELSE rows[c].status
              /\ rows'[c].seats = rows[c].seats /\ rows'[c].left = rows[c].left
              /\ rows[c].left \in Int
    <2>1. rows' = [rows EXCEPT ![b].status = task[p].to]
      BY <1>1, <1>2 DEF UpdateStatus
    <2>. QED BY <2>1, CarefulTypes DEF Row
  <1>7. /\ \A c : c # b => (BeingCancelled(c)' <=> BeingCancelled(c))
        /\ BeingCancelled(b) <=> task[p].to = "CANCELLED"
        /\ ~BeingCancelled(b)'
    <2>1. \A q \in Procs : q # p => task[q].b # b
      BY <1>2 DEF CarefulInv, TasksApart
    <2>. QED BY <1>1, <1>2, <1>4, <1>5, <2>1 DEF BeingCancelled, Procs, None
  <1>8. \A c \in Bookings : c # b => Outcome'[c] = Outcome[c]
    <2>1. ASSUME NEW c \in Bookings, c # b PROVE Outcome'[c] = Outcome[c]
      BY <1>6, <1>7, <2>1 DEF Outcome, LiveHold
    <2>. QED BY <2>1
  <1>9. Wants' = Wants
    BY <1>6 DEF Wants
  <1>10. CASE task[p].to = "CONFIRMED"
    <2>1. Outcome[b] = "open" /\ Outcome'[b] = "sold"
      BY <1>3, <1>6, <1>7, <1>10 DEF Outcome, LiveHold, None
    <2>2. Outcome' = [Outcome EXCEPT ![b] = "sold"]
      BY <1>8, <2>1, LedgerFunctions
    <2>. QED BY <1>2, <1>9, <2>1, <2>2 DEF Ledger!Decide
  <1>11. CASE task[p].to # "CONFIRMED"
    <2>1. Outcome'[b] = Outcome[b]
      BY <1>3, <1>6, <1>7, <1>11 DEF Outcome, LiveHold, None
    <2>. QED BY <1>8, <1>9, <2>1, LedgerFunctions
  <1>. QED BY <1>10, <1>11

\* A tick makes the bookings lapse that it takes past their expires_at.
LEMMA TickLapses ==
    ASSUME Careful, CarefulInv, Tick
    PROVE  \E B \in SUBSET Bookings : Ledger!Lapse(B)
  <1>. DEFINE B == {b \in Bookings : Outcome[b] = "open" /\ rows[b].left = 0}
  <1>1. \A c : BeingCancelled(c)' <=> BeingCancelled(c)
    BY TickParts DEF BeingCancelled, Procs
  <1>2. ASSUME NEW c \in Bookings
        PROVE  Outcome'[c] = IF c \in B THEN "lapsed" ELSE Outcome[c]
    <2>1. /\ rows'[c].status = rows[c].status /\ rows[c].left \in Int
          /\ rows[c].left < 0 => rows'[c].left = -1
          /\ rows[c].left >= 0 => rows'[c].left = rows[c].left - 1
      BY TickParts
    <2>2. CASE rows[c].left = 0
      BY <1>1, <2>1, <2>2 DEF Outcome, LiveHold, None
    <2>3. CASE rows[c].left # 0
      <3>1. LiveHold(c)' <=> LiveHold(c)
        BY <2>1, <2>3 DEF LiveHold
      <3>. QED BY <1>1, <2>1, <2>3, <3>1 DEF Outcome
    <2>. QED BY <2>2, <2>3
  <1>3. Wants' = Wants
    BY TickParts DEF Wants
  <1>. HIDE DEF B
  <1>4. Outcome' = [c \in Bookings |-> IF c \in B THEN "lapsed" ELSE Outcome[c]]
    BY <1>2, LedgerFunctions
  <1>5. B \in SUBSET Bookings /\ \A b \in B : Outcome[b] = "open"
    BY DEF B
  <1>. QED BY <1>3, <1>4, <1>5 DEF Ledger!Lapse

\* Every step of the service is a step of the ledger, or none.
LEMMA ServiceStepsAreLedgerSteps ==
    ASSUME Careful, NoRace, CarefulInv, SoldInv', [Next]_vars
    PROVE  [Ledger!LedgerNext]_<<Outcome, Wants>>
  <1>1. Procs = Workers /\ Jobs = {}
    BY DEF Procs, Careful
  <1>2. ASSUME NEW p \in Workers, ClientStep(p)
        PROVE  Ledger!LedgerNext \/ UNCHANGED <<Outcome, Wants>>
    <2>1. CASE \E seats \in Requests : HoldBegin(p, seats)
      BY <1>1, <2>1, HoldsStutter
    <2>2. CASE \E b \in Bookings : ConfirmLoad(p, b)
      BY <1>1, <2>2, CallsStutter
    <2>3. CASE \E b \in Bookings : CancelLoad(p, b)
      BY <1>1, <2>3, CancelLoadDecides DEF Ledger!LedgerNext
    <2>. QED BY <1>2, <2>1, <2>2, <2>3 DEF ClientStep, ClientLeaves, Careful
  <1>3. ASSUME NEW p \in Workers, HandlerStep(p)
        PROVE  Ledger!LedgerNext \/ UNCHANGED <<Outcome, Wants>>
    <2>1. CASE HoldInsert(p)
      BY <1>1, <2>1, HoldInsertOffers DEF Ledger!LedgerNext
    <2>2. CASE HoldCheck(p) \/ HoldSetNX(p) \/ HoldStamp(p) \/ HoldTag(p)
      BY <1>1, <2>2, HoldsStutter
    <2>3. CASE ConfirmSAdd(p) \/ ConfirmUnlock(p)
      BY <1>1, <2>3, CallsStutter
    <2>. QED BY <1>3, <2>1, <2>2, <2>3 DEF HandlerStep
  <1>4. ASSUME NEW p \in Procs, Release(p) \/ UpdateStatus(p) \/ Crash(p)
        PROVE  Ledger!LedgerNext \/ UNCHANGED <<Outcome, Wants>>
    <2>1. CASE UpdateStatus(p)
      BY <2>1, UpdateStatusDecides DEF Ledger!LedgerNext
    <2>. QED BY <1>4, <2>1, CallsStutter DEF Crash, Careful
  <1>5. CASE Tick
    BY <1>5, TickLapses DEF Ledger!LedgerNext
  <1>6. CASE UNCHANGED vars
    BY <1>6 DEF vars, Outcome, Wants, LiveHold, BeingCancelled
  <1>. QED BY <1>1, <1>2, <1>3, <1>4, <1>5, <1>6 DEF Next, RedisRestart, Careful

LEMMA ServiceStartsAsLedger == Init => Ledger!LedgerInit
  <1>. SUFFICES ASSUME Init PROVE Ledger!LedgerInit
    OBVIOUS
  <1>1. \A b \in Bookings : rows[b].status = None /\ Range(rows[b].seats) = {}
    BY DEF Init, NoRow, Range
  <1>2. \A b \in Bookings : Outcome[b] = "none" /\ Wants[b] = {}
    BY <1>1 DEF Outcome, Wants, LiveHold, None
  <1>. QED BY <1>2, LedgerFunctions DEF Ledger!LedgerInit

\* Under Careful and NoRace booking-service implements the ledger: Holds, Confirms and
\* Cancels of any number of handlers, which interleave at every call, look like
\* indivisible decisions, each about one booking.  With the CronJob, two calls at once
\* on a booking, a late Cancel, a slow handler or the race between SISMEMBER and SETNX
\* they do not, and none of these is a failure.
THEOREM ServiceIsALedger ==
    ASSUME Careful, NoRace
    PROVE  Spec => ImplementsLedger
  <1>1. CarefulInv /\ [Next]_vars => CarefulInv'
    BY CarefulInvIsInductive
  <1>2. CarefulInv => SoldInv
    BY DEF CarefulInv
  <1>3. CarefulInv /\ SoldInv' /\ [Next]_vars => [Ledger!LedgerNext]_<<Outcome, Wants>>
    BY ServiceStepsAreLedgerSteps
  <1>. QED BY <1>1, <1>2, <1>3, CarefulInvInitially, ServiceStartsAsLedger, PTL
           DEF Spec, ImplementsLedger, Ledger!LedgerSpec, Ledger!ledgerVars
-----------------------------------------------------------------------------
(* What the ledger is worth.  This is about SeatLedger alone: it uses nothing of
   Outcome and Wants but their names. *)

LedgerInv == Ledger!LedgerTypeOK /\ Ledger!SeatsAreExclusive

LEMMA LedgerInvInitially == Ledger!LedgerInit => LedgerInv
  BY DEF Ledger!LedgerInit, LedgerInv, Ledger!LedgerTypeOK, Ledger!SeatsAreExclusive,
         Ledger!Owns, Ledger!Outcomes

\* An Offer takes seats nobody owns; a Lapse or a decision only takes owners away.
LEMMA LedgerInvIsInductive ==
    LedgerInv /\ [Ledger!LedgerNext]_<<Outcome, Wants>> => LedgerInv'
  <1>. SUFFICES ASSUME LedgerInv, [Ledger!LedgerNext]_<<Outcome, Wants>> PROVE LedgerInv'
    OBVIOUS
  <1>. USE DEF LedgerInv, Ledger!LedgerTypeOK, Ledger!SeatsAreExclusive, Ledger!Owns,
               Ledger!Outcomes
  <1>1. ASSUME NEW b \in Bookings, NEW S \in SUBSET Seats, Ledger!Offer(b, S) PROVE LedgerInv'
    BY <1>1 DEF Ledger!Offer
  <1>2. ASSUME NEW B \in SUBSET Bookings, Ledger!Lapse(B) PROVE LedgerInv'
    BY <1>2 DEF Ledger!Lapse
  <1>3. ASSUME NEW b \in Bookings, NEW decision \in {"sold", "cancelled"},
               Ledger!Decide(b, decision)
        PROVE  LedgerInv'
    BY <1>3 DEF Ledger!Decide
  <1>4. CASE UNCHANGED <<Outcome, Wants>>
    BY <1>4
  <1>. QED BY <1>1, <1>2, <1>3, <1>4 DEF Ledger!LedgerNext

\* No seat is owned by two bookings, open or sold, in any state of the ledger.
LEMMA NoSeatHasTwoOwners == Ledger!LedgerSpec => []Ledger!SeatsAreExclusive
  <1>1. LedgerInv => Ledger!SeatsAreExclusive
    BY DEF LedgerInv
  <1>. QED BY <1>1, LedgerInvInitially, LedgerInvIsInductive, PTL
           DEF Ledger!LedgerSpec, Ledger!ledgerVars

\* Therefore no seat is sold twice under Careful and NoRace: without failures and
\* restarts, without the CronJob, with one call at a time on each booking, none past
\* expires_at and none slower than MaxDelay, and without a Confirm between a Hold's
\* SISMEMBER and its SETNX.  Whatever else Holds, Confirms and Cancels do to each other
\* is harmless.  Each of the exclusions is needed: the code sells a seat twice with
\* any one of them.
THEOREM NoSeatIsSoldTwice ==
    ASSUME Careful, NoRace
    PROVE  Spec => []NoDoubleSale
  <1>1. Ledger!SeatsAreExclusive => NoDoubleSale
    <2>1. ASSUME NEW b \in Bookings, rows[b].status = "CONFIRMED"
          PROVE  Outcome[b] = "sold" /\ Wants[b] = Range(rows[b].seats)
      BY <2>1 DEF Outcome, Wants, LiveHold, None
    <2>. QED BY <2>1 DEF Ledger!SeatsAreExclusive, Ledger!Owns, NoDoubleSale
  <1>. QED BY <1>1, ServiceIsALedger, NoSeatHasTwoOwners, PTL DEF ImplementsLedger
=============================================================================
