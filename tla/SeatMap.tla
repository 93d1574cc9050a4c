------------------------------ MODULE SeatMap ------------------------------
(***************************************************************************)
(* GET /showtimes/{id}/seats beside the handlers that change the seats.    *)
(* The reader SCANs the hold keys page by page, then takes the booked set  *)
(* with SMEMBERS; Holds, Confirms, Cancels and expiries run in between.    *)
(***************************************************************************)
EXTENDS BookingService

VARIABLES
    read,       \* the request: where it is, and what it has collected
    wasFree     \* history: the seats free at some moment of this request

seatMapVars == <<hold, booked, rows, told, task, read, wasFree>>

\* pc   the next call              todo     the part of the keyspace not scanned
\* held, booked    the two lists of the response
NoRead == [pc |-> "idle", todo |-> {}, held |-> {}, booked |-> {}]

Read == [pc : {"idle", "scan", "smembers", "done"}, todo : SUBSET Seats,
         held : SUBSET Seats, booked : SUBSET Seats]

SeatMapTypeOK == TypeOK /\ read \in Read /\ wasFree \subseteq Seats

SeatMapInit == Init /\ read = NoRead /\ wasFree = {}

ReadBegin ==
    /\ read.pc = "idle"
    /\ read' = [NoRead EXCEPT !.pc = "scan", !.todo = Seats]

\* Mutant of ScanPage: the page that ends the SCAN is dropped.
ScanDropsLastPage ==
    /\ read.pc = "scan"
    /\ \E page \in SUBSET read.todo :
          /\ page # {}
          /\ read' = [read EXCEPT
                !.todo = @ \ page,
                !.held = IF page = read.todo THEN @
                         ELSE @ \cup {s \in page : hold[s] # NoKey},
                !.pc   = IF page = read.todo THEN "smembers" ELSE "scan"]

\* One page of the SCAN.  Redis visits every key that stays in place at least
\* once, in an order of its own, and skips keys that have expired.
ScanPage ==
    /\ read.pc = "scan"
    /\ \E page \in SUBSET read.todo :
          /\ page # {}
          /\ read' = [read EXCEPT
                !.todo = @ \ page,
                !.held = @ \cup {s \in page : hold[s] # NoKey},
                !.pc   = IF page = read.todo THEN "smembers" ELSE "scan"]

ReadBooked ==
    /\ read.pc = "smembers"
    /\ read' = [read EXCEPT !.pc = "done", !.booked = booked]

\* The 200 is written, or a Redis error ended the request with a 500.
ReadEnd ==
    /\ \/ read.pc = "done"
       \/ read.pc \in {"scan", "smembers"} /\ "redisFault" \in Env
    /\ read' = NoRead

GetSeatMap == ReadBegin \/ ScanPage \/ ReadBooked \/ ReadEnd

Free(s) == hold[s] = NoKey /\ s \notin booked

RecordFree ==
    wasFree' = IF read'.pc = "idle" THEN {} ELSE wasFree \cup {s \in Seats : Free(s)'}

SeatMapNext ==
    /\ \/ Next /\ UNCHANGED read
       \/ GetSeatMap /\ UNCHANGED vars
    /\ RecordFree

SeatMapSpec == SeatMapInit /\ [][SeatMapNext]_seatMapVars
-----------------------------------------------------------------------------
\* A seat that was taken during the whole request is shown as taken, although
\* the two lists are read at different times and a Confirm moves seats from one
\* to the other: it adds to the booked set before it deletes the hold key, and
\* the reader looks at the hold keys before it looks at the booked set.
TakenSeatsAreShown ==
    read.pc = "done" => Seats \ wasFree \subseteq read.held \cup read.booked
=============================================================================
