--------------------------- MODULE SeatMapProofs ---------------------------
(***************************************************************************)
(* Proof that the seat map shows every seat that was taken during the      *)
(* whole request, for any seats and handlers and in any environment.       *)
(*                                                                         *)
(* The argument: as long as the request runs, a seat that has been taken   *)
(* ever since it began is still to be scanned, or has been seen, or has    *)
(* been sold and will be in the set that is read last.  A seat is only     *)
(* taken out of that set when Redis loses everything, and then it is free. *)
(***************************************************************************)
EXTENDS SeatMap, BookingServiceProofs

\* Where a seat is that was never free during this request.
Tracked(s) ==
    \/ s \in read.todo
    \/ s \in read.held
    \/ IF read.pc = "done" THEN s \in read.booked ELSE s \in booked

ReadInv ==
    /\ TypeInv /\ SeatMapTypeOK
    /\ read.pc \in {"smembers", "done"} => read.todo = {}
    /\ read.pc = "idle" => wasFree = {}
    /\ read.pc # "idle" => \A s \in Seats \ wasFree : ~Free(s) /\ Tracked(s)
-----------------------------------------------------------------------------
\* A seat that has been sold stays in the booked set or becomes free.
LEMMA SoldStaysTaken ==
    ASSUME TypeInv, [Next]_vars, NEW s \in Seats, s \in booked, ~Free(s)'
    PROVE  s \in booked'
  <1>. USE DEF ConfirmSAdd, Release, UpdateStatus, Crash
  <1>1. ASSUME NEW p \in Workers, ClientStep(p) PROVE booked' = booked
    BY <1>1 DEF ClientStep, HoldBegin, ConfirmLoad, CancelLoad, ClientLeaves
  <1>2. ASSUME NEW p \in Workers, HandlerStep(p) PROVE booked \subseteq booked'
    BY <1>2 DEF HandlerStep, HoldCheck, HoldSetNX, HoldStamp, HoldInsert, HoldTag, ConfirmUnlock
  <1>3. ASSUME NEW p \in Jobs, JobStep(p) PROVE booked' = booked
    BY <1>3 DEF JobStep, CleanupSelect, CleanupNext
  <1>4. CASE RedisRestart
    BY <1>4 DEF RedisRestart, Free
  <1>. QED BY <1>1, <1>2, <1>3, <1>4 DEF Next, Tick, vars

\* The handlers, the clock and the environment go on during the request.
LEMMA OthersKeepReadInv ==
    ASSUME ReadInv, [Next]_vars, UNCHANGED read, RecordFree
    PROVE  ReadInv'
  <1>1. TypeInv' /\ TypeOK'
    BY TypeInvIsInductive DEF ReadInv, TypeInv
  <1>2. /\ read.pc = "idle" => wasFree' = {}
        /\ read.pc # "idle" => wasFree' = wasFree \cup {s \in Seats : Free(s)'}
    BY DEF RecordFree
  <1>3. SeatMapTypeOK'
    BY <1>1, <1>2 DEF ReadInv, SeatMapTypeOK
  <1>4. ASSUME read.pc # "idle", NEW s \in Seats \ wasFree' PROVE ~Free(s)' /\ Tracked(s)'
    <2>1. s \notin wasFree /\ ~Free(s)' /\ Tracked(s)
      BY <1>2, <1>4 DEF ReadInv
    <2>2. s \in booked => s \in booked'
      BY <2>1, SoldStaysTaken DEF ReadInv
    <2>. QED BY <2>1, <2>2 DEF Tracked
  <1>. QED BY <1>1, <1>2, <1>3, <1>4 DEF ReadInv

\* A call of the request itself.
LEMMA ReaderKeepsReadInv ==
    ASSUME ReadInv, GetSeatMap, UNCHANGED vars, RecordFree
    PROVE  ReadInv'
  <1>1. read \in Read /\ wasFree \subseteq Seats /\ booked \subseteq Seats /\ TypeInv /\ TypeOK
    BY DEF ReadInv, SeatMapTypeOK, TypeOK
  <1>2. TypeInv' /\ TypeOK' /\ hold' = hold /\ booked' = booked
    <2>1. [Next]_vars
      OBVIOUS
    <2>. QED BY <1>1, <2>1, TypeInvIsInductive DEF TypeInv, vars
  <1>3. \A s : Free(s)' <=> Free(s)
    BY <1>2 DEF Free
  <1>4. /\ read'.pc = "idle" => wasFree' = {}
        /\ read'.pc # "idle" => wasFree' = wasFree \cup {s \in Seats : Free(s)}
    BY <1>3 DEF RecordFree
  <1>5. wasFree' \subseteq Seats
    BY <1>1, <1>4
  <1>6. ASSUME read' \in Read, read'.pc \in {"smembers", "done"} => read'.todo = {},
               read'.pc # "idle" => \A s \in Seats : ~Free(s) /\ s \notin wasFree => Tracked(s)'
        PROVE  ReadInv'
    BY <1>2, <1>3, <1>4, <1>5, <1>6 DEF ReadInv, SeatMapTypeOK
  <1>7. CASE ReadBegin
    <2>1. read' \in Read /\ read'.pc = "scan" /\ read'.todo = Seats
      BY <1>7 DEF ReadBegin, NoRead, Read
    <2>. QED BY <1>6, <2>1 DEF Tracked
  <1>8. CASE ScanPage
    <2>1. PICK page \in SUBSET read.todo :
             read' = [read EXCEPT
                !.todo = @ \ page,
                !.held = @ \cup {s \in page : hold[s] # NoKey},
                !.pc   = IF page = read.todo THEN "smembers" ELSE "scan"]
      BY <1>8 DEF ScanPage
    <2>2. read.pc = "scan" /\ page \subseteq Seats
      BY <1>1, <1>8 DEF ScanPage, Read
    <2>3. /\ read'.todo = read.todo \ page
          /\ read'.held = read.held \cup {s \in page : hold[s] # NoKey}
          /\ read'.pc = IF page = read.todo THEN "smembers" ELSE "scan"
          /\ read' \in Read
      BY <1>1, <2>1, <2>2 DEF Read
    <2>4. \A s \in Seats : ~Free(s) /\ s \notin wasFree => Tracked(s)'
      BY <1>2, <2>2, <2>3 DEF ReadInv, Tracked, Free
    <2>. QED BY <1>6, <2>3, <2>4
  <1>9. CASE ReadBooked
    <2>1. /\ read.pc = "smembers" /\ read'.pc = "done" /\ read'.booked = booked
          /\ read'.todo = read.todo /\ read'.held = read.held /\ read' \in Read
      BY <1>1, <1>9 DEF ReadBooked, Read
    <2>2. \A s \in Seats : ~Free(s) /\ s \notin wasFree => Tracked(s)'
      BY <2>1 DEF ReadInv, Tracked
    <2>. QED BY <1>6, <2>1, <2>2 DEF ReadInv
  <1>10. CASE ReadEnd
    <2>1. read' \in Read /\ read'.pc = "idle"
      BY <1>10 DEF ReadEnd, NoRead, Read
    <2>. QED BY <1>6, <2>1
  <1>. QED BY <1>7, <1>8, <1>9, <1>10 DEF GetSeatMap

LEMMA ReadInvInitially == SeatMapInit => ReadInv
  BY TypeInvInitially
  DEF SeatMapInit, ReadInv, TypeInv, SeatMapTypeOK, NoRead, Read

LEMMA ReadInvIsInductive == ReadInv /\ [SeatMapNext]_seatMapVars => ReadInv'
  <1>. SUFFICES ASSUME ReadInv, [SeatMapNext]_seatMapVars PROVE ReadInv'
    OBVIOUS
  <1>1. CASE SeatMapNext
    BY <1>1, OthersKeepReadInv, ReaderKeepsReadInv DEF SeatMapNext
  <1>2. CASE UNCHANGED seatMapVars
    <2>1. UNCHANGED vars /\ UNCHANGED <<read, wasFree>>
      BY <1>2 DEF seatMapVars, vars
    <2>2. TypeInv' /\ TypeOK'
      BY <2>1, TypeInvIsInductive DEF ReadInv, TypeInv
    <2>. QED BY <2>1, <2>2 DEF ReadInv, SeatMapTypeOK, Tracked, Free, vars
  <1>. QED BY <1>1, <1>2
-----------------------------------------------------------------------------
\* The request holds seats in all its lists, whatever happens beside it.
THEOREM SeatMapTypeCorrect == SeatMapSpec => []SeatMapTypeOK
  <1>1. ReadInv => SeatMapTypeOK
    BY DEF ReadInv
  <1>. QED BY <1>1, ReadInvInitially, ReadInvIsInductive, PTL DEF SeatMapSpec

\* A seat that was taken during the whole of GET /showtimes/{id}/seats is in one of
\* the two lists of the response, in any environment.
THEOREM TakenSeatsAreAlwaysShown == SeatMapSpec => []TakenSeatsAreShown
  <1>1. ReadInv => TakenSeatsAreShown
    BY DEF ReadInv, TakenSeatsAreShown, Tracked
  <1>. QED BY <1>1, ReadInvInitially, ReadInvIsInductive, PTL DEF SeatMapSpec
=============================================================================
