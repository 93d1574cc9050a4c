---------------------------- MODULE MovieService ----------------------------
(***************************************************************************)
(* movie-service: movies, cinemas and the showtimes that refer to both.    *)
(* Every handler is one SQL statement, so that it is one step here; what   *)
(* surrounds the statement (the network, the gateway, the other service)   *)
(* is not.  Hold of booking-service is here as far as it asks for the      *)
(* showtime: what it does then is in BookingService.                       *)
(*                                                                         *)
(* What the rows say (titles, prices) is left out: nothing depends on it.  *)
(***************************************************************************)
EXTENDS Naturals

CONSTANTS
    Movies, Cinemas, Showtimes,     \* the ids that gen_random_uuid may give
    Requests                        \* the HTTP requests that can be under way

VARIABLES
    movies,     \* the ids of the rows
    cinemas,
    showtimes,  \* the rows: id, movie, cinema
    issued,     \* the ids that have been given to a row, once and for all
    call        \* what the services are doing for each request

movieVars == <<movies, cinemas, showtimes, issued, call>>

Ids == Movies \cup Cinemas \cup Showtimes
Showtime == [id : Showtimes, movie : Movies, cinema : Cinemas]

\* The handlers that change rows, and the others.
Changes == {"CreateMovie", "UpdateMovie", "DeleteMovie", "CreateCinema", "CreateShowtime"}
Reads == {"ListMovies", "GetMovie", "ListCinemas", "GetCinema", "ListShowtimes", "GetShowtime"}

\* What a request asks for is chosen when its handler runs, since nothing that
\* happens before depends on it but the way it has taken through the gateway.
\* at     where the request is         may   the handlers that it can be for
\* op, on the change it asked for      code  the status of the answer
\* shows  the movies that the answer shows to exist
\* did    history: it has changed a row
NoCall == [at |-> "none", may |-> {}, op |-> "none", on |-> "none",
           code |-> 0, shows |-> {}, did |-> FALSE]

MovieInit ==
    /\ movies = {} /\ cinemas = {} /\ showtimes = {}
    /\ issued = {}
    /\ call = [r \in Requests |-> NoCall]
-----------------------------------------------------------------------------
Asks(r, op) == call[r].at = "handler" /\ op \in call[r].may

\* Mutant of Failure: whatever the database says is taken for bad input.
FailureIsBadInput(op) == 400

\* What a handler answers when its statement ends in an error.
Failure(op) == IF op \in {"CreateShowtime", "Hold"} THEN 400 ELSE 500

Reply(r, op, on, code, shows, did) ==
    call' = [call EXCEPT ![r] = [at |-> "reply", may |-> {}, op |-> op, on |-> on,
                                 code |-> code, shows |-> shows, did |-> did]]

\* The answer to a request that changes nothing.
Shows(r, code, shows) ==
    /\ Reply(r, "none", "none", code, shows, FALSE)
    /\ UNCHANGED <<movies, cinemas, showtimes, issued>>

\* The answer to a change; or the error that says no more than that the connection
\* to Postgres is gone, when the statement may have been executed.
Answers(r, op, on, code, shows, did) ==
    \/ Reply(r, op, on, code, shows, did)
    \/ Reply(r, op, on, Failure(op), {}, did)

\* The body cannot be decoded, a CHECK fails, or Postgres cannot be reached.
Fails(r) ==
    /\ \/ \E op \in Changes : /\ Asks(r, op)
                             /\ \E code \in {400, Failure(op)} :
                                   Reply(r, op, "none", code, {}, FALSE)
       \/ \E op \in Reads : Asks(r, op) /\ Reply(r, "none", "none", Failure(op), {}, FALSE)
    /\ UNCHANGED <<movies, cinemas, showtimes, issued>>

CreateMovie(r) ==
    /\ Asks(r, "CreateMovie")
    /\ \E m \in Movies \ issued :
          /\ movies' = movies \cup {m}
          /\ issued' = issued \cup {m}
          /\ Answers(r, "CreateMovie", m, 201, {m}, TRUE)
    /\ UNCHANGED <<cinemas, showtimes>>

\* rows.Err is not read: a list that the connection cuts short is answered 200.
ListMovies(r) == Asks(r, "ListMovies") /\ \E part \in SUBSET movies : Shows(r, 200, part)

GetMovie(r) ==
    /\ Asks(r, "GetMovie")
    /\ \E m \in Movies : IF m \in movies THEN Shows(r, 200, {m}) ELSE Shows(r, 404, {})

\* Mutant of UpdateMovie: INSERT ... ON CONFLICT DO UPDATE.
UpdateMovieOrCreate(r) ==
    /\ Asks(r, "UpdateMovie")
    /\ \E m \in Movies :
          /\ movies' = movies \cup {m}
          /\ Answers(r, "UpdateMovie", m, 200, {m}, TRUE)
    /\ UNCHANGED <<cinemas, showtimes, issued>>

\* UPDATE ... WHERE id = ... RETURNING: no row comes back to life.
UpdateMovie(r) ==
    /\ Asks(r, "UpdateMovie")
    /\ \E m \in Movies :
          IF m \in movies THEN Answers(r, "UpdateMovie", m, 200, {m}, TRUE)
                          ELSE Answers(r, "UpdateMovie", m, 404, {}, FALSE)
    /\ UNCHANGED <<movies, cinemas, showtimes, issued>>

\* Mutant of DeleteMovie: RowsAffected is not looked at.
DeleteMovieBlind(r) ==
    /\ Asks(r, "DeleteMovie")
    /\ \E m \in Movies :
          /\ movies' = movies \ {m}
          /\ showtimes' = {s \in showtimes : s.movie # m}
          /\ Answers(r, "DeleteMovie", m, 204, {}, m \in movies)
    /\ UNCHANGED <<cinemas, issued>>

\* ON DELETE CASCADE takes the showtimes of the movie.
DeleteMovie(r) ==
    /\ Asks(r, "DeleteMovie")
    /\ \E m \in Movies :
          /\ movies' = movies \ {m}
          /\ showtimes' = {s \in showtimes : s.movie # m}
          /\ IF m \in movies THEN Answers(r, "DeleteMovie", m, 204, {}, TRUE)
                             ELSE Answers(r, "DeleteMovie", m, 404, {}, FALSE)
    /\ UNCHANGED <<cinemas, issued>>

CreateCinema(r) ==
    /\ Asks(r, "CreateCinema")
    /\ \E k \in Cinemas \ issued :
          /\ cinemas' = cinemas \cup {k}
          /\ issued' = issued \cup {k}
          /\ Answers(r, "CreateCinema", k, 201, {}, TRUE)
    /\ UNCHANGED <<movies, showtimes>>

ListCinemas(r) == Asks(r, "ListCinemas") /\ Shows(r, 200, {})

GetCinema(r) ==
    /\ Asks(r, "GetCinema")
    /\ \E k \in Cinemas : Shows(r, IF k \in cinemas THEN 200 ELSE 404, {})

\* Mutant of CreateShowtime: no foreign key.
CreateShowtimeUnchecked(r) ==
    /\ Asks(r, "CreateShowtime")
    /\ \E m \in Movies, k \in Cinemas, i \in Showtimes \ issued :
          /\ showtimes' = showtimes \cup {[id |-> i, movie |-> m, cinema |-> k]}
          /\ issued' = issued \cup {i}
          /\ Answers(r, "CreateShowtime", i, 201, {m}, TRUE)
    /\ UNCHANGED <<movies, cinemas>>

\* The foreign keys decide, and a violation is an error like any other: 400.
CreateShowtime(r) ==
    /\ Asks(r, "CreateShowtime")
    /\ \E m \in Movies, k \in Cinemas, i \in Showtimes \ issued :
          IF m \in movies /\ k \in cinemas
          THEN /\ showtimes' = showtimes \cup {[id |-> i, movie |-> m, cinema |-> k]}
               /\ issued' = issued \cup {i}
               /\ Answers(r, "CreateShowtime", i, 201, {m}, TRUE)
          ELSE /\ Answers(r, "CreateShowtime", i, 400, {}, FALSE)
               /\ UNCHANGED <<showtimes, issued>>
    /\ UNCHANGED <<movies, cinemas>>

\* The filters by movie and by cinema are left out.
ListShowtimes(r) ==
    /\ Asks(r, "ListShowtimes")
    /\ \E part \in SUBSET {s.movie : s \in showtimes} : Shows(r, 200, part)

GetShowtime(r) ==
    /\ Asks(r, "GetShowtime")
    /\ \/ \E s \in showtimes : Shows(r, 200, {s.movie})
       \/ (\E i \in Showtimes : \A s \in showtimes : s.id # i) /\ Shows(r, 404, {})

\* Hold asks for the showtime first, and goes on with what it was told; when
\* it is told nothing, for whatever reason, it refuses.
HoldAsks(r) ==
    /\ Asks(r, "Hold")
    /\ \E s \in showtimes :
          call' = [call EXCEPT ![r] = [NoCall EXCEPT !.at = "quoted", !.shows = {s.movie}]]
    /\ UNCHANGED <<movies, cinemas, showtimes, issued>>

HoldRefused(r) == Asks(r, "Hold") /\ Shows(r, Failure("Hold"), {})

\* The rest of Hold, which takes its time: 201, 409 when it refuses, or 500 when Redis
\* or Postgres does.
HoldEnds(r) ==
    /\ call[r].at = "quoted"
    /\ Shows(r, 201, call[r].shows) \/ \E code \in {409, 500} : Shows(r, code, {})

Handler(r) ==
    \/ CreateMovie(r) \/ ListMovies(r) \/ GetMovie(r) \/ UpdateMovie(r) \/ DeleteMovie(r)
    \/ CreateCinema(r) \/ ListCinemas(r) \/ GetCinema(r)
    \/ CreateShowtime(r) \/ ListShowtimes(r) \/ GetShowtime(r)
    \/ HoldAsks(r) \/ HoldRefused(r) \/ HoldEnds(r)
    \/ Fails(r)
-----------------------------------------------------------------------------
\* However requests overlap, a showtime has its movie and its cinema: one that is
\* created beside the DELETE of its movie is refused or goes with it.
NoOrphanShowtimes ==
    \A s \in showtimes : s.movie \in movies /\ s.cinema \in cinemas
=============================================================================
