----------------------------- MODULE SeatLedger -----------------------------
(***************************************************************************)
(* What booking-service promises, without Redis, Postgres or time: a seat  *)
(* is offered to one booking at a time, and a sold seat is never offered   *)
(* again.  Each action is one indivisible decision about a booking.        *)
(***************************************************************************)
EXTENDS Integers

CONSTANTS Seats, Bookings

VARIABLES
    outcome,    \* how far each booking has come
    wants       \* the seats of each booking

ledgerVars == <<outcome, wants>>

Outcomes == {"none", "open", "lapsed", "cancelled", "sold"}

LedgerTypeOK ==
    /\ outcome \in [Bookings -> Outcomes]
    /\ wants \in [Bookings -> SUBSET Seats]

\* A booking excludes the others while it may be sold and once it is sold.
Owns(b) == outcome[b] \in {"open", "sold"}

LedgerInit ==
    /\ outcome = [b \in Bookings |-> "none"]
    /\ wants = [b \in Bookings |-> {}]

\* A client gets the seats it asked for, all of them or none.
Offer(b, S) ==
    /\ outcome[b] = "none"
    /\ \A c \in Bookings : Owns(c) => wants[c] \cap S = {}
    /\ outcome' = [outcome EXCEPT ![b] = "open"]
    /\ wants' = [wants EXCEPT ![b] = S]

\* Time runs out for the bookings of B at once.
Lapse(B) ==
    /\ \A b \in B : outcome[b] = "open"
    /\ outcome' = [b \in Bookings |-> IF b \in B THEN "lapsed" ELSE outcome[b]]
    /\ UNCHANGED wants

Decide(b, decision) ==
    /\ outcome[b] = "open"
    /\ outcome' = [outcome EXCEPT ![b] = decision]
    /\ UNCHANGED wants

LedgerNext ==
    \/ \E b \in Bookings, S \in SUBSET Seats : Offer(b, S)
    \/ \E B \in SUBSET Bookings : Lapse(B)
    \/ \E b \in Bookings, decision \in {"sold", "cancelled"} : Decide(b, decision)

LedgerSpec == LedgerInit /\ [][LedgerNext]_ledgerVars

\* Two bookings never own the same seat: in particular none is sold twice.
SeatsAreExclusive ==
    \A a, b \in Bookings : a # b /\ Owns(a) /\ Owns(b) => wants[a] \cap wants[b] = {}
=============================================================================
