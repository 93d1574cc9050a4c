--------------------------- MODULE PaymentOutcome ---------------------------
(***************************************************************************)
(* PaymentService with a history of what went wrong, to say what a payment *)
(* comes to when nothing did, and what no fault can do to it.              *)
(***************************************************************************)
EXTENDS PaymentService

VARIABLES
    disturbed,      \* history: the payments that a fault has touched
    crossed,        \* history: the bookings on which two calls crossed
    bypassed        \* history: the bookings that a client has confirmed itself

\* In this step a call that the handler of p makes, or the call to Confirm that it
\* has made, fails or is cut off.  That Confirm refuses a booking that is not HOLD,
\* or is late, is no fault, whether the caller still waits for it or not.
Disturbed(p) ==
    \/ Crash(p) \/ ClientLeaves(p)
    \/ GiveUp(p) /\ call[p] # "refused"
    \/ At(p, "new") /\ task'[p].pc = "done"
    \/ /\ call'[p] = "refused"
       /\ call[p] \in {"loaded", "ok"} \/ (call[p] = "sent" /\ booking[task[p].b] = "HOLD")
    \/ At(p, "update") /\ task'[p].pc # "update" /\ rows'[p] # task[p].outcome
    \/ At(p, "publish") /\ task'[p].pc = "done" /\ p \notin events'

\* What the calls that have read b as HOLD are about to make of it.
Deciding(b) ==
    {status \in Status :
        \/ \E p \in Payments : /\ task[p].b = b
                               /\ \/ call[p] = "loaded" /\ status = "CONFIRMED"
                                  \/ call[p] = "expired" /\ status = "EXPIRED"
        \/ \E o \in Others : other[o] = [b |-> b, to |-> status]}

\* One of them will sell the booking, and another one will not.
Crossing(b) == "CONFIRMED" \in Deciding(b) /\ Deciding(b) # {"CONFIRMED"}

Bypassing(b) == \E o \in Others : other[o] = [b |-> b, to |-> "CONFIRMED"]

History ==
    /\ disturbed' = disturbed \cup {p \in Payments : Disturbed(p)}
    /\ crossed' = crossed \cup {b \in Bookings : Crossing(b)'}
    /\ bypassed' = bypassed \cup {b \in Bookings : Bypassing(b)'}

outcomeVars == <<vars, disturbed, crossed, bypassed>>

OutcomeInit == Init /\ disturbed = {} /\ crossed = {} /\ bypassed = {}
OutcomeNext == Next /\ History

OutcomeSpec == OutcomeInit /\ [][OutcomeNext]_outcomeVars
-----------------------------------------------------------------------------
\* A booking somebody was told is sold: it is no longer HOLD, and it stays CONFIRMED
\* unless a call that will cancel it, or let it expire, had read it as HOLD while
\* the one that sold it was still to store CONFIRMED.
StaysSold(b) == booking[b] # "HOLD" /\ (b \notin crossed => booking[b] = "CONFIRMED")

\* Money is kept only for a booking that is sold, whatever happened to the call in
\* between and whoever else confirms, cancels or cleans up; only calls that crossed
\* can undo the sale.
SuccessMeansConfirmed ==
    \A p \in Payments : rows[p] = "SUCCESS" => StaysSold(task[p].b)

\* A ticket goes out only for a booking that is sold, in the same sense, and for a
\* payment that is not recorded as failed.
EventMeansSold ==
    \A p \in events : StaysSold(task[p].b) /\ rows[p] # "FAILED"

\* A payment that nothing has disturbed ends as it should: the booking is
\* confirmed, the row is SUCCESS and the event is out, or none of the three.
Complete(p) ==
    /\ rows[p] \in {"SUCCESS", "FAILED"}
    /\ (call[p] = "ok") <=> (rows[p] = "SUCCESS")
    /\ (call[p] = "ok") <=> (p \in events)

\* A booking is sold without a payment that says so, or without a ticket, only
\* when a fault has touched one of its payments or a client has sent Confirm itself;
\* and every payment that was not touched is complete, whatever happens to the
\* others at the same time.
OnlyFaultsLose ==
    /\ \A p \in Payments \ disturbed : At(p, "done") => Complete(p)
    /\ \A b \in Bookings \ bypassed :
          booking[b] = "CONFIRMED" /\ (\A p \in Payments : task[p].b = b => At(p, "done"))
          => \E p \in Payments : /\ task[p].b = b
                                 /\ p \in disturbed \/ (rows[p] = "SUCCESS" /\ p \in events)
=============================================================================
