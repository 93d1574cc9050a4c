--------------------------- MODULE BookingService ---------------------------
(***************************************************************************)
(* booking-service: seats of one showtime are locked with Redis keys that  *)
(* carry a TTL (hold:<showtime>:<seat>), sold by adding them to a Redis    *)
(* set (booked:<showtime>), and every attempt is a row of the Postgres     *)
(* table bookings.  The module models the three handlers that change this  *)
(* state (Hold, Confirm, Cancel), the CronJob mode of the same binary, and *)
(* what surrounds them: key expiry, clients that go away, pods that die,   *)
(* calls to Redis and Postgres that fail.                                  *)
(*                                                                         *)
(* Every call to Redis or Postgres is one atomic step.  Between two calls  *)
(* of a handler any other handler, on any replica, may run.                *)
(*                                                                         *)
(* Time.  Expiry times are kept as the time that remains: hold[s].ttl and  *)
(* rows[b].left count down together at every Tick.  Redis drops a key when *)
(* the clock is past its expiry, and both Confirm (After) and the CronJob  *)
(* (expires_at < now()) call a booking expired when the clock is past      *)
(* expires_at, so in all three 0 is still alive and below 0 is expired.    *)
(* One clock: skew between Redis, Postgres and the pods is not modelled.   *)
(***************************************************************************)
EXTENDS Integers, Sequences, FiniteSets, Functions

CONSTANTS
    Seats,      \* the seats of one showtime
    Requests,   \* the seat lists that the bodies of POST /bookings/hold carry
    Bookings,   \* the ids gen_random_uuid() may return
    Workers,    \* the request goroutines, over all the replicas of the service
    Jobs,       \* the CronJob's pods (no concurrencyPolicy: several may overlap)
    TTL,        \* HOLD_TTL_SECONDS, in ticks
    MaxDelay,   \* the ticks that may pass while a handler is running
    Env         \* what the environment may do, a subset of Conduct

\* crash         a pod dies, with the handlers that run in it
\* leave         a client disconnects and the context of its request ends
\* dbFault       a Postgres call fails, redisFault: a Redis call fails
\* redisRestart  the Redis pod restarts; its Deployment has no volume
\* duplicate     a booking gets Confirm or Cancel while another one is running
\* gap           a Confirm frees a seat that a Hold has just read as not sold
\* lateCancel    a client cancels a booking after its expires_at
\* slow          no bound on how long a handler takes (see Timely)
Conduct == {"crash", "leave", "dbFault", "redisFault", "redisRestart",
            "duplicate", "gap", "lateCancel", "slow"}

None == "none"
Pending == "pending"    \* bookingIDPlaceholder

ASSUME BookingsAssumption == {None, Pending} \cap Bookings = {}
ASSUME RequestsAssumption == Requests \subseteq Seq(Seats)
ASSUME ProcsAssumption    == Workers \cap Jobs = {}
ASSUME TimeAssumption     == TTL \in Nat \ {0} /\ MaxDelay \in Nat
ASSUME EnvAssumption      == Env \subseteq Conduct

VARIABLES
    hold,       \* Redis: the hold key of each seat
    booked,     \* Redis: the set of the seats sold
    rows,       \* Postgres: the table bookings
    told,       \* the booking ids that a 201 has carried to a client
    task        \* what each goroutine and each CronJob pod is doing

vars == <<hold, booked, rows, told, task>>

Procs  == Workers \cup Jobs
Status == {"HOLD", "CONFIRMED", "CANCELLED", "EXPIRED"}

NoKey == [val |-> None, ttl |-> 0]
NoRow == [status |-> None, seats |-> <<>>, left |-> -1]

\* A handler or a pod with work to do, as it starts:
\* pc     the call that comes next       seats  the seats the loop runs over
\* i      the seat the loop is at        b      the booking it works on
\* to     the status it will store       left   expiresAt, before the INSERT
\* batch  what the CronJob has to do     age    ticks since it started
\* gone   the request's context has ended: its calls fail without being sent
Start(pc, seats, b, to) ==
    [pc |-> pc, seats |-> seats, i |-> 1, b |-> b, to |-> to,
     left |-> 0, batch |-> {}, age |-> 0, gone |-> FALSE]
Idle == Start("idle", <<>>, None, None)

PCs == {"idle", "check", "setnx", "stamp", "insert", "tag", "sadd", "unlock",
        "release", "update", "next"}

Key  == [val : Bookings \cup {None, Pending}, ttl : 0 .. TTL]
Row  == [status : Status \cup {None}, seats : Seq(Seats), left : -1 .. TTL]
Task == [pc : PCs, seats : Seq(Seats), i : Nat \ {0},
         b : Bookings \cup {None}, to : Status \cup {None}, left : -1 .. TTL,
         batch : SUBSET Bookings, age : 0 .. MaxDelay, gone : BOOLEAN]

Init ==
    /\ hold = [s \in Seats |-> NoKey]
    /\ booked = {}
    /\ rows = [b \in Bookings |-> NoRow]
    /\ told = {}
    /\ task = [p \in Procs |-> Idle]
-----------------------------------------------------------------------------
At(p, pc)  == task[p].pc = pc
Seat(p)    == task[p].seats[task[p].i]
AtLast(p)  == task[p].i = Len(task[p].seats)
Become(p, t) == task' = [task EXCEPT ![p] = t]
Goto(p, pc)  == [task[p] EXCEPT !.pc = pc]

\* Mutant of Loop: the loop runs one past the last seat.
LoopPastEnd(p, again, done) ==
    IF task[p].i > Len(task[p].seats) THEN done
    ELSE [Goto(p, again) EXCEPT !.i = @ + 1]

\* The loop over the seats: at the next seat, or past the last one.
Loop(p, again, done) ==
    IF AtLast(p) THEN done ELSE [Goto(p, again) EXCEPT !.i = @ + 1]

\* A call takes effect, or it fails.  A call whose reply is lost takes effect
\* and fails: the handlers that ignore the error cannot tell it from success.
Sent(p)         == ~task[p].gone
Fails(p, fault) == task[p].gone \/ fault \in Env
LosesReply(p, fault) == ~task[p].gone /\ fault \in Env

\* The response is written; the CronJob goes on with the rest of its batch.
Finished(p) ==
    IF task[p].batch = {} THEN Idle
    ELSE [Idle EXCEPT !.pc = "next", !.batch = task[p].batch, !.age = task[p].age]

\* Mutant of Rollback: the seat acquired last is forgotten.
RollbackForgetsOne(p, n) ==
    IF n <= 1 THEN Finished(p)
    ELSE [Idle EXCEPT !.pc = "release", !.seats = SubSeq(task[p].seats, 1, n - 1),
                      !.age = task[p].age, !.gone = task[p].gone]

\* rollbackHolds on the first n seats, then the error response.
Rollback(p, n) ==
    IF n = 0 THEN Finished(p)
    ELSE [Idle EXCEPT !.pc = "release", !.seats = SubSeq(task[p].seats, 1, n),
                      !.age = task[p].age, !.gone = task[p].gone]
-----------------------------------------------------------------------------
(* Hold: POST /bookings/hold. *)

\* Bound: the ids are finitely many, so no more requests start than ids are left.
Holding   == {p \in Procs : task[p].pc \in {"check", "setnx", "stamp", "insert"}}
IdsRemain == Cardinality(Holding) < Cardinality({b \in Bookings : rows[b] = NoRow})

\* The body is decoded and validated, movie-service knows the showtime.
HoldBegin(p, seats) ==
    /\ At(p, "idle") /\ IdsRemain
    /\ seats # <<>>
    /\ Become(p, Start("check", seats, None, None))
    /\ UNCHANGED <<hold, booked, rows, told>>

\* Mutant of HoldCheck: SETNX alone is trusted, as if sold seats kept their keys.
HoldCheckNothing(p) ==
    /\ At(p, "check")
    /\ Become(p, Goto(p, "setnx"))
    /\ UNCHANGED <<hold, booked, rows, told>>

\* 2a. SISMEMBER: a seat already sold, or an error, rolls the request back.
HoldCheck(p) ==
    /\ At(p, "check")
    /\ \/ Sent(p) /\ Seat(p) \notin booked /\ Become(p, Goto(p, "setnx"))
       \/ Sent(p) /\ Seat(p) \in booked /\ Become(p, Rollback(p, task[p].i - 1))
       \/ Fails(p, "redisFault") /\ Become(p, Rollback(p, task[p].i - 1))
    /\ UNCHANGED <<hold, booked, rows, told>>

\* 2b. SETNX with the TTL.  The seat joins heldSeats only on a good reply.
HoldSetNX(p) ==
    /\ At(p, "setnx")
    /\ \/ /\ Sent(p) /\ hold[Seat(p)] = NoKey
          /\ hold' = [hold EXCEPT ![Seat(p)] = [val |-> Pending, ttl |-> TTL]]
          /\ Become(p, Loop(p, "check", Goto(p, "stamp")))
       \/ /\ Sent(p) /\ hold[Seat(p)] # NoKey
          /\ Become(p, Rollback(p, task[p].i - 1))
          /\ UNCHANGED hold
       \/ /\ LosesReply(p, "redisFault") /\ hold[Seat(p)] = NoKey
          /\ hold' = [hold EXCEPT ![Seat(p)] = [val |-> Pending, ttl |-> TTL]]
          /\ Become(p, Rollback(p, task[p].i - 1))
       \/ /\ Fails(p, "redisFault")
          /\ Become(p, Rollback(p, task[p].i - 1))
          /\ UNCHANGED hold
    /\ UNCHANGED <<booked, rows, told>>

\* 3. expiresAt is computed in the handler, before the INSERT is sent.
HoldStamp(p) ==
    /\ At(p, "stamp")
    /\ Become(p, [Goto(p, "insert") EXCEPT !.left = TTL])
    /\ UNCHANGED <<hold, booked, rows, told>>

\* INSERT ... RETURNING id; on an error every seat of heldSeats is released.
HoldInsert(p) ==
    /\ At(p, "insert")
    /\ \/ \E b \in Bookings :
             /\ Sent(p) /\ rows[b] = NoRow
             /\ rows' = [rows EXCEPT ![b] = [status |-> "HOLD",
                             seats |-> task[p].seats, left |-> task[p].left]]
             /\ \/ Become(p, [Start("tag", task[p].seats, b, None)
                                EXCEPT !.age = task[p].age])
                \/ /\ "dbFault" \in Env
                   /\ Become(p, Rollback(p, Len(task[p].seats)))
       \/ /\ Fails(p, "dbFault")
          /\ Become(p, Rollback(p, Len(task[p].seats)))
          /\ UNCHANGED rows
    /\ UNCHANGED <<hold, booked, told>>

\* Mutant of HoldTag: the SET keeps the TTL the key had (KEEPTTL).
HoldTagKeepTTL(p) ==
    /\ At(p, "tag")
    /\ \/ Sent(p) /\ hold' = [hold EXCEPT ![Seat(p)].val = task[p].b]
       \/ Fails(p, "redisFault") /\ UNCHANGED hold
    /\ Become(p, Loop(p, "tag", Finished(p)))
    /\ told' = IF AtLast(p) /\ ~task[p].gone THEN told \cup {task[p].b} ELSE told
    /\ UNCHANGED <<booked, rows>>

\* Mutant of HoldTag: a watchdog that renews the locks, from the first seat
\* again after the last, and never stops.
HoldTagRenews(p) ==
    /\ At(p, "tag")
    /\ \/ /\ Sent(p)
          /\ hold' = [hold EXCEPT ![Seat(p)] = [val |-> task[p].b, ttl |-> TTL]]
       \/ Fails(p, "redisFault") /\ UNCHANGED hold
    /\ Become(p, Loop(p, "tag", [Goto(p, "tag") EXCEPT !.i = 1]))
    /\ told' = IF AtLast(p) /\ ~task[p].gone THEN told \cup {task[p].b} ELSE told
    /\ UNCHANGED <<booked, rows>>

\* 4. SET the key to the booking id, with a new TTL, whoever holds it now and
\* whether or not the call works.  After the last one, the 201.
HoldTag(p) ==
    /\ At(p, "tag")
    /\ \/ /\ Sent(p)
          /\ hold' = [hold EXCEPT ![Seat(p)] = [val |-> task[p].b, ttl |-> TTL]]
       \/ Fails(p, "redisFault") /\ UNCHANGED hold
    /\ Become(p, Loop(p, "tag", Finished(p)))
    /\ told' = IF AtLast(p) /\ ~task[p].gone THEN told \cup {task[p].b} ELSE told
    /\ UNCHANGED <<booked, rows>>
-----------------------------------------------------------------------------
(* Confirm and Cancel: POST /bookings/{id}/confirm and /cancel. *)

\* A client, or payment-service for it, names a booking it was told about.
\* Without "duplicate" it waits for the answer to one call before the next.
MayCall(b) ==
    /\ b \in told
    /\ "duplicate" \in Env \/ \A q \in Workers : task[q].b # b

\* Mutant of ConfirmLoad: expires_at is not checked.
ConfirmLoadAnyTime(p, b) ==
    /\ At(p, "idle") /\ MayCall(b)
    /\ rows[b].status = "HOLD"
    /\ Become(p, Start("sadd", rows[b].seats, b, "CONFIRMED"))
    /\ UNCHANGED <<hold, booked, rows, told>>

\* Mutant of ConfirmLoad: the status is not checked.
ConfirmLoadAnyStatus(p, b) ==
    /\ At(p, "idle") /\ MayCall(b)
    /\ rows[b].left >= 0
    /\ Become(p, Start("sadd", rows[b].seats, b, "CONFIRMED"))
    /\ UNCHANGED <<hold, booked, rows, told>>

\* SELECT, then the two checks on the row that came back.  A row that is not
\* HOLD is answered 409 and changes nothing.
ConfirmLoad(p, b) ==
    /\ At(p, "idle") /\ MayCall(b)
    /\ rows[b].status = "HOLD"
    /\ \/ /\ rows[b].left < 0
          /\ Become(p, Start("update", <<>>, b, "EXPIRED"))
       \/ /\ rows[b].left >= 0
          /\ Become(p, Start("sadd", rows[b].seats, b, "CONFIRMED"))
    /\ UNCHANGED <<hold, booked, rows, told>>

\* SADD booked:<showtime> <seat>; an error is ignored.
ConfirmSAdd(p) ==
    /\ At(p, "sadd")
    /\ \/ Sent(p) /\ booked' = booked \cup {Seat(p)}
       \/ Fails(p, "redisFault") /\ UNCHANGED booked
    /\ Become(p, Goto(p, "unlock"))
    /\ UNCHANGED <<hold, rows, told>>

\* Without "gap" no Hold is between the SISMEMBER and the SETNX of that seat.
NoGap(p) == \A q \in Workers : ~(At(q, "setnx") /\ Seat(q) = Seat(p))

\* DEL hold:<showtime>:<seat>, by name, whatever its value; errors ignored.
ConfirmUnlock(p) ==
    /\ At(p, "unlock") /\ ("gap" \in Env \/ NoGap(p))
    /\ \/ Sent(p) /\ hold' = [hold EXCEPT ![Seat(p)] = NoKey]
       \/ Fails(p, "redisFault") /\ UNCHANGED hold
    /\ Become(p, Loop(p, "sadd", Goto(p, "update")))
    /\ UNCHANGED <<booked, rows, told>>

\* Mutant of CancelLoad: a booking in any status can be cancelled.
CancelLoadAnyStatus(p, b) ==
    /\ At(p, "idle") /\ MayCall(b)
    /\ rows[b].left >= 0
    /\ Become(p, Start("release", rows[b].seats, b, "CANCELLED"))
    /\ UNCHANGED <<hold, booked, rows, told>>

\* Cancel checks the status only, never expires_at.
CancelLoad(p, b) ==
    /\ At(p, "idle") /\ MayCall(b)
    /\ "lateCancel" \in Env \/ rows[b].left >= 0
    /\ rows[b].status = "HOLD"
    /\ Become(p, Start("release", rows[b].seats, b, "CANCELLED"))
    /\ UNCHANGED <<hold, booked, rows, told>>
-----------------------------------------------------------------------------
(* The CronJob: booking-service -cleanup-expired-holds. *)

\* Mutant of CleanupSelect: the comparison with now() is the wrong way round.
CleanupSelectLive(p) ==
    LET live == {b \in Bookings : rows[b].status = "HOLD" /\ rows[b].left > 0}
    IN  /\ At(p, "idle")
        /\ live # {}
        /\ Become(p, [Idle EXCEPT !.pc = "next", !.batch = live])
        /\ UNCHANGED <<hold, booked, rows, told>>

\* SELECT ... WHERE status = 'HOLD' AND expires_at < now().
CleanupSelect(p) ==
    LET expired == {b \in Bookings : rows[b].status = "HOLD" /\ rows[b].left < 0}
    IN  /\ At(p, "idle")
        /\ expired # {}
        /\ Become(p, [Idle EXCEPT !.pc = "next", !.batch = expired])
        /\ UNCHANGED <<hold, booked, rows, told>>

\* The next booking of the batch, in whatever order the SELECT returned it.
CleanupNext(p) ==
    /\ At(p, "next")
    /\ \E b \in task[p].batch :
          Become(p, [Start("release", rows[b].seats, b, "EXPIRED")
                       EXCEPT !.batch = task[p].batch \ {b}, !.age = task[p].age])
    /\ UNCHANGED <<hold, booked, rows, told>>
-----------------------------------------------------------------------------
(* The two loops that the handlers and the CronJob share. *)

\* DEL of the keys by name: rollbackHolds, and the CronJob's loop.
Release(p) ==
    /\ At(p, "release")
    /\ \/ Sent(p) /\ hold' = [hold EXCEPT ![Seat(p)] = NoKey]
       \/ Fails(p, "redisFault") /\ UNCHANGED hold
    /\ Become(p, Loop(p, "release",
                      IF task[p].to = None THEN Finished(p) ELSE Goto(p, "update")))
    /\ UNCHANGED <<booked, rows, told>>

\* Mutant of UpdateStatus: the UPDATE does not use the context of the request.
UpdateStatusDetached(p) ==
    /\ At(p, "update")
    /\ \/ rows' = [rows EXCEPT ![task[p].b].status = task[p].to]
       \/ "dbFault" \in Env /\ UNCHANGED rows
    /\ Become(p, Finished(p))
    /\ UNCHANGED <<hold, booked, told>>

\* UPDATE bookings SET status = $1 WHERE id = $2: no condition on the status.
UpdateStatus(p) ==
    /\ At(p, "update")
    /\ \/ Sent(p) /\ rows' = [rows EXCEPT ![task[p].b].status = task[p].to]
       \/ Fails(p, "dbFault") /\ UNCHANGED rows
    /\ Become(p, Finished(p))
    /\ UNCHANGED <<hold, booked, told>>
-----------------------------------------------------------------------------
(* The environment. *)

\* A pod dies.  Killing the handlers of a pod is a sequence of these steps.
Crash(p) ==
    /\ "crash" \in Env /\ ~At(p, "idle")
    /\ Become(p, Idle)
    /\ UNCHANGED <<hold, booked, rows, told>>

\* net/http ends the context of the request.  The CronJob has Background().
ClientLeaves(p) ==
    /\ "leave" \in Env /\ ~At(p, "idle") /\ ~task[p].gone
    /\ Become(p, [task[p] EXCEPT !.gone = TRUE])
    /\ UNCHANGED <<hold, booked, rows, told>>

\* The Redis container starts again, empty.
RedisRestart ==
    /\ "redisRestart" \in Env
    /\ hold' = [s \in Seats |-> NoKey] /\ booked' = {}
    /\ UNCHANGED <<rows, told, task>>

Older(p) == [task[p] EXCEPT !.age = IF @ < MaxDelay THEN @ + 1 ELSE @]
Elapse(left) == IF left < 0 THEN -1 ELSE left - 1

\* Without "slow" a handler ends within MaxDelay, and a call on a booking ends
\* before that booking expires.
Timely(p) ==
    /\ task[p].age < MaxDelay
    /\ task[p].b # None => rows[task[p].b].left # 0

Tick ==
    /\ "slow" \in Env \/ \A p \in Procs : At(p, "idle") \/ Timely(p)
    /\ hold' = [s \in Seats |-> IF hold[s].ttl = 0 THEN NoKey
                                ELSE [hold[s] EXCEPT !.ttl = @ - 1]]
    /\ rows' = [b \in Bookings |-> [rows[b] EXCEPT !.left = Elapse(@)]]
    /\ task' = [p \in Procs |-> IF At(p, "idle") THEN task[p] ELSE
                  [Older(p) EXCEPT !.left = IF At(p, "insert") THEN Elapse(@) ELSE @]]
    /\ UNCHANGED <<booked, told>>
-----------------------------------------------------------------------------
HandlerStep(p) ==
    \/ HoldCheck(p) \/ HoldSetNX(p) \/ HoldStamp(p) \/ HoldInsert(p) \/ HoldTag(p)
    \/ ConfirmSAdd(p) \/ ConfirmUnlock(p)

JobStep(p) == CleanupSelect(p) \/ CleanupNext(p)

ClientStep(p) ==
    \/ \E seats \in Requests : HoldBegin(p, seats)
    \/ \E b \in Bookings : ConfirmLoad(p, b) \/ CancelLoad(p, b)
    \/ ClientLeaves(p)

Next ==
    \/ \E p \in Workers : ClientStep(p) \/ HandlerStep(p)
    \/ \E p \in Jobs : JobStep(p)
    \/ \E p \in Procs : Release(p) \/ UpdateStatus(p) \/ Crash(p)
    \/ RedisRestart
    \/ Tick

Spec == Init /\ [][Next]_vars

\* Calls return, the clock advances, the CronJob is scheduled again and again, and
\* it is neither killed at the same step nor refused the UPDATE by Postgres for ever.
FairSpec ==
    /\ Spec
    /\ WF_vars(Tick)
    /\ \A p \in Workers : WF_vars(HandlerStep(p) \/ Release(p) \/ UpdateStatus(p))
    /\ \A p \in Jobs : /\ WF_vars(JobStep(p) \/ Release(p) \/ UpdateStatus(p))
                      /\ SF_vars(CleanupNext(p)) /\ SF_vars(Release(p))
                      /\ SF_vars(UpdateStatus(p) /\ rows' # rows)
-----------------------------------------------------------------------------
\* The values every variable takes; a loop index is inside its list of seats.
TypeOK ==
    /\ hold \in [Seats -> Key]
    /\ booked \subseteq Seats
    /\ rows \in [Bookings -> Row]
    /\ told \subseteq Bookings
    /\ task \in [Procs -> Task]
    /\ \A p \in Procs : task[p].pc \in {"check", "setnx", "tag", "sadd", "unlock", "release"}
          => task[p].i <= Len(task[p].seats)

\* A CONFIRMED booking owns all its seats: Confirm stores CONFIRMED only after
\* the SADD of the last seat, and nothing takes a seat out of the booked set.
\* It has to survive crashes, lost clients, Postgres errors, duplicate calls
\* and the CronJob at any point of the loop.
ConfirmedSeatsAreSold ==
    \A b \in Bookings : rows[b].status = "CONFIRMED" => Range(rows[b].seats) \subseteq booked

LiveHold(b) == rows[b].status = "HOLD" /\ rows[b].left >= 0
InFlight(b) == \E p \in Procs : task[p].b = b

\* As long as a booking can still be confirmed and no call works on it, the
\* hold keys of its seats carry its id and outlive expires_at: the lock that
\* keeps everybody else away covers the whole time in which it may be sold.
HoldsAreLocked ==
    \A b \in told : LiveHold(b) /\ ~InFlight(b) =>
        \A s \in Range(rows[b].seats) :
            hold[s].val = b /\ hold[s].ttl >= rows[b].left

\* A key is never left behind to lock a seat for nobody: "pending" belongs to
\* a Hold that will tag or release it, a booking id to a booking that has not
\* been sold or cancelled, or on which a call is at work.
Acquired(p) == IF task[p].pc \in {"stamp", "insert"} THEN Range(task[p].seats)
               ELSE IF task[p].pc \in {"check", "setnx"}
                    THEN Range(SubSeq(task[p].seats, 1, task[p].i - 1))
               ELSE IF task[p].pc \in {"release", "tag"}
                    THEN Range(SubSeq(task[p].seats, task[p].i, Len(task[p].seats)))
               ELSE {}
NoOrphanLocks ==
    \A s \in Seats :
        /\ hold[s].val = Pending => \E p \in Procs : s \in Acquired(p)
        /\ hold[s].val \in Bookings =>
              rows[hold[s].val].status \in {"HOLD", "EXPIRED"} \/ InFlight(hold[s].val)

\* Once no call works on a booking with that seat, a seat is in the booked set
\* only because a CONFIRMED booking has it: none is lost to a booking that was
\* cancelled or has expired.
SoldSeatsAreConfirmed ==
    \A s \in booked : \E b \in Bookings :
        /\ s \in Range(rows[b].seats)
        /\ rows[b].status = "CONFIRMED" \/ InFlight(b)

\* No seat is sold twice.
NoDoubleSale ==
    \A a, b \in Bookings :
        a # b /\ rows[a].status = "CONFIRMED" /\ rows[b].status = "CONFIRMED"
        => Range(rows[a].seats) \cap Range(rows[b].seats) = {}

\* The bookings as the ledger sees them.  A Cancel decides when it has read the
\* row, since it gives the seats away before it stores the status.  Past
\* expires_at a HOLD has lapsed, whether or not EXPIRED has been written.
BeingCancelled(b) == \E p \in Workers : task[p].b = b /\ task[p].to = "CANCELLED"
Outcome == [b \in Bookings |->
    CASE rows[b].status = "CONFIRMED" -> "sold"
      [] rows[b].status = "CANCELLED" -> "cancelled"
      [] rows[b].status = None        -> "none"
      [] rows[b].status = "HOLD" /\ BeingCancelled(b)   -> "cancelled"
      [] LiveHold(b) /\ ~BeingCancelled(b)              -> "open"
      [] OTHER                        -> "lapsed"]
Wants == [b \in Bookings |-> Range(rows[b].seats)]
Ledger == INSTANCE SeatLedger WITH outcome <- Outcome, wants <- Wants

\* The service implements the ledger, with any number of handlers at once, when
\* nothing fails, no CronJob runs, calls are timely, a booking has one call at a
\* time and no late cancel, and one race is left out ("gap").
ImplementsLedger == Ledger!LedgerSpec

\* What a booking has become it stays: CONFIRMED, CANCELLED and EXPIRED are final.
OutcomeIsFinal ==
    [][\A b \in Bookings : rows[b].status \in {"CONFIRMED", "CANCELLED", "EXPIRED"}
         => rows'[b].status = rows[b].status]_vars

\* main.go:26-29 says of the CronJob that the TTL alone decides whether a seat is
\* locked and that the cleanup does not touch that: it frees no seat whose key
\* names a booking that is still alive.
CleanupKeepsLocks ==
    [][\A p \in Jobs, s \in Seats :
         Release(p) /\ hold[s].val \in Bookings /\ LiveHold(hold[s].val)
         => hold'[s] = hold[s]]_vars

\* A lock is always released in the end, by its owner or by the TTL, even when
\* its owner died, its client left or Redis failed.
LocksAreReleased == \A s \in Seats : hold[s] # NoKey ~> hold[s] = NoKey

\* A booking nobody paid for in time does not stay HOLD for ever.
ExpiredHoldsAreResolved ==
    \A b \in Bookings :
        rows[b].status = "HOLD" /\ rows[b].left < 0 ~> rows[b].status # "HOLD"
=============================================================================
