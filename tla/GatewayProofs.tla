--------------------------- MODULE GatewayProofs ---------------------------
(***************************************************************************)
(* Proofs about Gateway with MovieService behind it, for any numbers of    *)
(* rows, clients and requests under way, any rate and any token life:      *)
(* types (GatewayTypes), NoOrphanShowtimes, NoStaleAnswer,                 *)
(* AnswersTellTheTruth, OneDeleteWins; by whichever way requests come.     *)
(*                                                                         *)
(* The argument: an id that was given once is never given again (issued),  *)
(* so that a deleted movie stays deleted; what a request shows was in the  *)
(* tables when its statement ran, and the movies it was known to miss were *)
(* not.  Of the limiter nothing is used but that it lets requests through. *)
(***************************************************************************)
EXTENDS Gateway, RateLimiterProofs, TLAPS

Codes == {0, 200, 201, 204, 400, 404, 409, 500}
DoneCodes == {200, 201}
UndoneCodes == {400, 404}

Call == [at : {"none", "handler", "quoted", "reply"},
         may : {{}, PublicRoutes, PrivateRoutes, IngressRoutes},
         op : {"none"} \cup Changes, on : {"none"} \cup Ids, code : Codes,
         shows : SUBSET Movies, did : BOOLEAN]

Client == [waits : BOOLEAN, knew : SUBSET Movies]

\* What the answer code to op says of whether a row was changed.
Truth(op, code, did) ==
    /\ code \in 200 .. 299 => did = TRUE
    /\ code \in 400 .. 499 => did = FALSE \/ op = "CreateShowtime"

\* A request d of client e, beside the rows mv of movies, the ids iss that were
\* given and the movies del for which a 204 was heard.
Sound(d, e, mv, iss, del) ==
    /\ d \in Call /\ e \in Client
    /\ e.waits = TRUE => d.at # "none"
    /\ e.knew \subseteq del /\ d.shows \cap e.knew = {}
    /\ d.at = "reply" /\ d.code = 204 =>
          d.on \in Movies /\ d.on \in iss /\ d.on \notin mv /\ d.on \notin del
    /\ d.at = "reply" /\ d.op \in Changes => Truth(d.op, d.code, d.did)

RowsOK ==
    /\ movies \subseteq Movies /\ movies \subseteq issued
    /\ cinemas \subseteq Cinemas /\ cinemas \subseteq issued
    /\ showtimes \subseteq Showtime /\ issued \subseteq Ids
    /\ NoOrphanShowtimes
    /\ deleted \subseteq Movies /\ deleted \subseteq issued /\ deleted \cap movies = {}

\* No two requests answer 204 for the same movie.
Distinct ==
    \A r, q \in Requests :
        /\ r # q /\ call[r].at = "reply" /\ call[q].at = "reply"
        /\ call[r].code = 204 /\ call[q].code = 204
        => call[r].on # call[q].on

CallsOK ==
    /\ call \in [Requests -> Call] /\ client \in [Requests -> Client]
    /\ \A r \in Requests : Sound(call[r], client[r], movies, issued, deleted)
    /\ Distinct

TokensOK == token \in [Clients -> 0 .. TokenLife]

GInv == RowsOK /\ CallsOK /\ TokensOK
-----------------------------------------------------------------------------
(* One request. *)

\* New ids were not given before, and rows that go do no harm.
LEMMA SoundStays ==
    ASSUME NEW d, NEW e, NEW mv, NEW iss, NEW del, NEW mv2, NEW iss2,
           Sound(d, e, mv, iss, del), mv2 \cap iss \subseteq mv, iss \subseteq iss2
    PROVE  Sound(d, e, mv2, iss2, del)
  BY DEF Sound

LEMMA NothingIsSound ==
    ASSUME NEW mv, NEW iss, NEW del
    PROVE  Sound(NoCall, NoClient, mv, iss, del)
  <1>1. NoCall \in Call /\ NoCall.at = "none" /\ NoCall.shows = {} /\ NoCall.did = FALSE
    BY DEF NoCall, Call, Codes
  <1>2. NoClient \in Client /\ NoClient.waits = FALSE /\ NoClient.knew = {}
    BY DEF NoClient, Client
  <1> QED
    BY <1>1, <1>2 DEF Sound

\* The request has its answer.
LEMMA ReplyIsSound ==
    ASSUME NEW e \in Client, NEW mv2, NEW iss2, NEW del, e.knew \subseteq del,
           NEW op \in {"none"} \cup Changes, NEW on \in {"none"} \cup Ids, NEW code \in Codes,
           NEW shows \in SUBSET Movies, NEW did \in BOOLEAN,
           shows \cap e.knew = {},
           code = 204 => on \in Movies /\ on \in iss2 /\ on \notin mv2 /\ on \notin del,
           op \in Changes => Truth(op, code, did)
    PROVE  Sound([at |-> "reply", may |-> {}, op |-> op, on |-> on,
                  code |-> code, shows |-> shows, did |-> did], e, mv2, iss2, del)
  <1> DEFINE n == [at |-> "reply", may |-> {}, op |-> op, on |-> on,
                   code |-> code, shows |-> shows, did |-> did]
  <1>1. /\ n.at = "reply" /\ n.may = {} /\ n.op = op /\ n.on = on
        /\ n.code = code /\ n.shows = shows /\ n.did = did
    OBVIOUS
  <1>2. n \in Call
    BY DEF Call
  <1> HIDE DEF n
  <1>3. Sound(n, e, mv2, iss2, del)
    BY <1>1, <1>2 DEF Sound
  <1> QED
    BY <1>3 DEF n
-----------------------------------------------------------------------------
(* The calls after one has been answered. *)

LEMMA ReplyKeeps ==
    ASSUME CallsOK, NEW r \in Requests, call[r].at # "none",
           NEW op \in {"none"} \cup Changes, NEW on \in {"none"} \cup Ids, NEW code \in Codes,
           NEW shows \in SUBSET Movies, NEW did \in BOOLEAN,
           Reply(r, op, on, code, shows, did), UNCHANGED <<client, deleted>>,
           movies' \cap issued \subseteq movies, issued \subseteq issued',
           shows \cap client[r].knew = {},
           code = 204 => /\ on \in Movies /\ on \in issued' /\ on \in movies
                         /\ on \notin movies' /\ on \notin deleted,
           op \in Changes => Truth(op, code, did)
    PROVE  CallsOK'
  <1> DEFINE n == [at |-> "reply", may |-> {}, op |-> op, on |-> on,
                   code |-> code, shows |-> shows, did |-> did]
  <1>1. call' = [call EXCEPT ![r] = n]
    BY DEF Reply
  <1>2. /\ n.at = "reply" /\ n.on = on /\ n.code = code
    OBVIOUS
  <1>3. Sound(n, client[r], movies', issued', deleted)
    <2>1. client[r] \in Client /\ client[r].knew \subseteq deleted
      BY DEF CallsOK, Sound
    <2> QED
      BY <2>1, ReplyIsSound
  <1> HIDE DEF n
  <1>4. ASSUME NEW q \in Requests, q # r
        PROVE  call'[q] = call[q] /\ Sound(call[q], client[q], movies', issued', deleted)
    <2>1. Sound(call[q], client[q], movies, issued, deleted)
      BY DEF CallsOK
    <2> QED
      BY <1>1, <1>4, <2>1, SoundStays DEF CallsOK
  <1>5. call'[r] = n /\ call' \in [Requests -> Call]
    BY <1>1, <1>3 DEF CallsOK, Sound
  <1>6. \A q \in Requests : Sound(call'[q], client'[q], movies', issued', deleted')
    BY <1>3, <1>4, <1>5
  <1>7. Distinct'
    <2>1. \A q \in Requests : q # r /\ call[q].at = "reply" /\ call[q].code = 204
              => call[q].on \notin movies
      BY DEF CallsOK, Sound
    <2>2. \A q \in Requests : q # r => call'[q] = call[q]
      BY <1>4
    <2> QED
      BY <1>2, <1>5, <2>1, <2>2 DEF CallsOK, Distinct
  <1> QED
    BY <1>5, <1>6, <1>7 DEF CallsOK

\* A change is answered, or ends in an error.
LEMMA AnswersKeep ==
    ASSUME CallsOK, NEW r \in Requests, call[r].at # "none",
           NEW op \in Changes, NEW on \in {"none"} \cup Ids, NEW code \in Codes,
           NEW shows \in SUBSET Movies, NEW did \in BOOLEAN,
           Answers(r, op, on, code, shows, did), UNCHANGED <<client, deleted>>,
           movies' \cap issued \subseteq movies, issued \subseteq issued',
           shows \cap client[r].knew = {},
           code = 204 => /\ on \in Movies /\ on \in issued' /\ on \in movies
                         /\ on \notin movies' /\ on \notin deleted,
           Truth(op, code, did)
    PROVE  CallsOK'
  <1>1. CASE Reply(r, op, on, code, shows, did)
    BY <1>1, ReplyKeeps
  <1>2. CASE Reply(r, op, on, Failure(op), {}, did)
    <2>1. Failure(op) \in {400, 500} /\ (Failure(op) = 400 => op = "CreateShowtime")
      BY DEF Failure, Changes
    <2>2. Failure(op) \in Codes /\ Failure(op) # 204 /\ Truth(op, Failure(op), did)
      BY <2>1 DEF Codes, Truth
    <2> QED
      BY <1>2, <2>2, ReplyKeeps
  <1> QED
    BY <1>1, <1>2 DEF Answers

\* A read is answered; so is a Hold.
LEMMA ShowsKeeps ==
    ASSUME CallsOK, NEW r \in Requests, call[r].at # "none",
           NEW code \in Codes \ {204}, NEW shows \in SUBSET Movies,
           Shows(r, code, shows), UNCHANGED <<client, deleted>>, shows \cap client[r].knew = {}
    PROVE  CallsOK'
  <1>1. UNCHANGED <<movies, issued>> /\ Reply(r, "none", "none", code, shows, FALSE)
    BY DEF Shows
  <1>2. "none" \notin Changes
    BY DEF Changes
  <1> QED
    BY <1>1, <1>2, ReplyKeeps
-----------------------------------------------------------------------------
(* The handlers. *)

\* What is in the tables is not what was known to be deleted.
LEMMA ShowsAreLive ==
    ASSUME RowsOK, CallsOK, NEW r \in Requests, NEW shows, shows \subseteq movies
    PROVE  shows \in SUBSET Movies /\ shows \cap client[r].knew = {}
  <1>1. client[r].knew \subseteq deleted
    BY DEF CallsOK, Sound
  <1> QED
    BY <1>1 DEF RowsOK

\* Nor is an id that is new.
LEMMA NewIsUnknown ==
    ASSUME RowsOK, CallsOK, NEW r \in Requests, NEW m \in Movies \ issued
    PROVE  {m} \cap client[r].knew = {}
  <1>1. client[r].knew \subseteq deleted
    BY DEF CallsOK, Sound
  <1> QED
    BY <1>1 DEF RowsOK

\* A row was written, and the answer is 200, 201 or an error of the connection.
LEMMA DoneKeeps ==
    ASSUME CallsOK, NEW r \in Requests, call[r].at # "none",
           NEW op \in Changes, NEW on \in Ids, NEW code \in DoneCodes,
           NEW shows \in SUBSET Movies, shows \cap client[r].knew = {},
           Answers(r, op, on, code, shows, TRUE), UNCHANGED <<client, deleted>>,
           movies' \cap issued \subseteq movies, issued \subseteq issued'
    PROVE  CallsOK'
  <1>1. Truth(op, code, TRUE)
    BY DEF Truth, DoneCodes
  <1>2. code \in Codes /\ code # 204 /\ on \in {"none"} \cup Ids /\ TRUE \in BOOLEAN
    BY DEF Codes, DoneCodes
  <1> QED
    BY <1>1, <1>2, AnswersKeep

\* A movie is gone, and the answer is 204 or an error of the connection.
LEMMA GoneKeeps ==
    ASSUME CallsOK, NEW r \in Requests, call[r].at # "none",
           NEW op \in Changes, NEW on \in Movies,
           Answers(r, op, on, 204, {}, TRUE), UNCHANGED <<client, deleted>>,
           movies' \cap issued \subseteq movies, issued \subseteq issued',
           on \in issued', on \in movies, on \notin movies', on \notin deleted
    PROVE  CallsOK'
  <1>1. Truth(op, 204, TRUE)
    BY DEF Truth
  <1>2. 204 \in Codes /\ on \in {"none"} \cup Ids /\ TRUE \in BOOLEAN
    BY DEF Codes, Ids
  <1>3. {} \in SUBSET Movies /\ {} \cap client[r].knew = {}
    OBVIOUS
  <1>4. 204 = 204 => /\ on \in Movies /\ on \in issued' /\ on \in movies
                     /\ on \notin movies' /\ on \notin deleted
    OBVIOUS
  <1> QED
    BY <1>1, <1>2, <1>3, <1>4, AnswersKeep, Zenon

\* No row was changed, and the answer is 4xx or an error of the connection.
LEMMA UndoneKeeps ==
    ASSUME CallsOK, NEW r \in Requests, call[r].at # "none",
           NEW op \in Changes, NEW on \in Ids, NEW code \in UndoneCodes,
           Answers(r, op, on, code, {}, FALSE), UNCHANGED <<client, deleted>>,
           movies' \cap issued \subseteq movies, issued \subseteq issued'
    PROVE  CallsOK'
  <1>1. Truth(op, code, FALSE)
    BY DEF Truth, UndoneCodes
  <1>2. code \in Codes /\ code # 204 /\ on \in {"none"} \cup Ids
    BY DEF Codes, UndoneCodes
  <1>3. {} \in SUBSET Movies /\ {} \cap client[r].knew = {}
    OBVIOUS
  <1> QED
    BY <1>1, <1>2, <1>3, AnswersKeep

LEMMA CodesTell ==
    /\ 200 \in DoneCodes /\ 201 \in DoneCodes
    /\ 400 \in UndoneCodes /\ 404 \in UndoneCodes
  BY DEF DoneCodes, UndoneCodes

LEMMA CreateMovieKeeps ==
    ASSUME RowsOK, CallsOK, NEW r \in Requests, CreateMovie(r), UNCHANGED <<client, deleted>>
    PROVE  RowsOK' /\ CallsOK'
  <1>1. PICK m \in Movies \ issued :
            /\ movies' = movies \cup {m} /\ issued' = issued \cup {m}
            /\ Answers(r, "CreateMovie", m, 201, {m}, TRUE)
    BY DEF CreateMovie
  <1>2. UNCHANGED <<cinemas, showtimes>>
    BY DEF CreateMovie
  <1>3. RowsOK'
    BY <1>1, <1>2 DEF RowsOK, NoOrphanShowtimes, Ids
  <1>4. call[r].at # "none"
    BY DEF CreateMovie, Asks
  <1>5. "CreateMovie" \in Changes /\ m \in Ids
    BY DEF Changes, Ids
  <1>6. movies' \cap issued \subseteq movies /\ issued \subseteq issued'
    BY <1>1
  <1>7. {m} \in SUBSET Movies
    OBVIOUS
  <1>8. {m} \cap client[r].knew = {}
    BY NewIsUnknown
  <1>9. Answers(r, "CreateMovie", m, 201, {m}, TRUE) /\ 201 \in DoneCodes
    BY <1>1, CodesTell
  <1>10. CallsOK'
    BY <1>4, <1>5, <1>6, <1>7, <1>8, <1>9, DoneKeeps, Zenon
  <1> QED
    BY <1>3, <1>10

LEMMA UpdateMovieKeeps ==
    ASSUME RowsOK, CallsOK, NEW r \in Requests, UpdateMovie(r), UNCHANGED <<client, deleted>>
    PROVE  RowsOK' /\ CallsOK'
  <1>1. UNCHANGED <<movies, cinemas, showtimes, issued>>
    BY DEF UpdateMovie
  <1>2. RowsOK'
    BY <1>1 DEF RowsOK, NoOrphanShowtimes
  <1>3. call[r].at # "none"
    BY DEF UpdateMovie, Asks
  <1>4. PICK m \in Movies :
            \/ m \in movies /\ Answers(r, "UpdateMovie", m, 200, {m}, TRUE)
            \/ m \notin movies /\ Answers(r, "UpdateMovie", m, 404, {}, FALSE)
    BY DEF UpdateMovie
  <1>5. "UpdateMovie" \in Changes /\ m \in Ids
    BY DEF Changes, Ids
  <1>6. movies' \cap issued \subseteq movies /\ issued \subseteq issued'
    BY <1>1
  <1>7. CASE m \in movies /\ Answers(r, "UpdateMovie", m, 200, {m}, TRUE)
    <2>1. {m} \in SUBSET Movies /\ {m} \cap client[r].knew = {}
      BY <1>7, ShowsAreLive
    <2>2. Answers(r, "UpdateMovie", m, 200, {m}, TRUE) /\ 200 \in DoneCodes
      BY <1>7, CodesTell
    <2>3. CallsOK'
      BY <1>3, <1>5, <1>6, <2>1, <2>2, DoneKeeps, Zenon
    <2> QED
      BY <1>2, <2>3
  <1>8. CASE m \notin movies /\ Answers(r, "UpdateMovie", m, 404, {}, FALSE)
    <2>1. Answers(r, "UpdateMovie", m, 404, {}, FALSE) /\ 404 \in UndoneCodes
      BY <1>8, CodesTell
    <2>2. CallsOK'
      BY <1>3, <1>5, <1>6, <2>1, UndoneKeeps, Zenon
    <2> QED
      BY <1>2, <2>2
  <1> QED
    BY <1>4, <1>7, <1>8

LEMMA DeleteMovieKeeps ==
    ASSUME RowsOK, CallsOK, NEW r \in Requests, DeleteMovie(r), UNCHANGED <<client, deleted>>
    PROVE  RowsOK' /\ CallsOK'
  <1>1. PICK m \in Movies :
            /\ movies' = movies \ {m} /\ showtimes' = {s \in showtimes : s.movie # m}
            /\ \/ m \in movies /\ Answers(r, "DeleteMovie", m, 204, {}, TRUE)
               \/ m \notin movies /\ Answers(r, "DeleteMovie", m, 404, {}, FALSE)
    BY DEF DeleteMovie
  <1>2. UNCHANGED <<cinemas, issued>>
    BY DEF DeleteMovie
  <1>3. RowsOK'
    BY <1>1, <1>2 DEF RowsOK, NoOrphanShowtimes
  <1>4. call[r].at # "none"
    BY DEF DeleteMovie, Asks
  <1>5. "DeleteMovie" \in Changes /\ m \in Ids
    BY DEF Changes, Ids
  <1>6. movies' \cap issued \subseteq movies /\ issued \subseteq issued'
    BY <1>1, <1>2
  <1>7. CASE m \in movies /\ Answers(r, "DeleteMovie", m, 204, {}, TRUE)
    <2>1. m \in issued' /\ m \notin movies' /\ m \notin deleted
      BY <1>1, <1>2, <1>7 DEF RowsOK
    <2>2. CallsOK'
      BY <1>4, <1>5, <1>6, <1>7, <2>1, GoneKeeps, Zenon
    <2> QED
      BY <1>3, <2>2
  <1>8. CASE m \notin movies /\ Answers(r, "DeleteMovie", m, 404, {}, FALSE)
    <2>1. Answers(r, "DeleteMovie", m, 404, {}, FALSE) /\ 404 \in UndoneCodes
      BY <1>8, CodesTell
    <2>2. CallsOK'
      BY <1>4, <1>5, <1>6, <2>1, UndoneKeeps, Zenon
    <2> QED
      BY <1>3, <2>2
  <1> QED
    BY <1>1, <1>7, <1>8

LEMMA CreateCinemaKeeps ==
    ASSUME RowsOK, CallsOK, NEW r \in Requests, CreateCinema(r), UNCHANGED <<client, deleted>>
    PROVE  RowsOK' /\ CallsOK'
  <1>1. PICK k \in Cinemas \ issued :
            /\ cinemas' = cinemas \cup {k} /\ issued' = issued \cup {k}
            /\ Answers(r, "CreateCinema", k, 201, {}, TRUE)
    BY DEF CreateCinema
  <1>2. UNCHANGED <<movies, showtimes>>
    BY DEF CreateCinema
  <1>3. RowsOK'
    BY <1>1, <1>2 DEF RowsOK, NoOrphanShowtimes, Ids
  <1>4. call[r].at # "none"
    BY DEF CreateCinema, Asks
  <1>5. "CreateCinema" \in Changes /\ k \in Ids
    BY DEF Changes, Ids
  <1>6. movies' \cap issued \subseteq movies /\ issued \subseteq issued'
    BY <1>1, <1>2
  <1>7. {} \in SUBSET Movies /\ {} \cap client[r].knew = {}
    OBVIOUS
  <1>8. Answers(r, "CreateCinema", k, 201, {}, TRUE) /\ 201 \in DoneCodes
    BY <1>1, CodesTell
  <1>9. CallsOK'
    BY <1>4, <1>5, <1>6, <1>7, <1>8, DoneKeeps, Zenon
  <1> QED
    BY <1>3, <1>9

LEMMA CreateShowtimeKeeps ==
    ASSUME RowsOK, CallsOK, NEW r \in Requests, CreateShowtime(r), UNCHANGED <<client, deleted>>
    PROVE  RowsOK' /\ CallsOK'
  <1> DEFINE Row(m, k, i) == [id |-> i, movie |-> m, cinema |-> k]
  <1>1. PICK m \in Movies, k \in Cinemas, i \in Showtimes \ issued :
            IF m \in movies /\ k \in cinemas
            THEN /\ showtimes' = showtimes \cup {Row(m, k, i)} /\ issued' = issued \cup {i}
                 /\ Answers(r, "CreateShowtime", i, 201, {m}, TRUE)
            ELSE /\ Answers(r, "CreateShowtime", i, 400, {}, FALSE)
                 /\ UNCHANGED <<showtimes, issued>>
    BY ZenonT(40) DEF CreateShowtime
  <1>2. UNCHANGED <<movies, cinemas>>
    BY DEF CreateShowtime
  <1>4. call[r].at # "none"
    BY DEF CreateShowtime, Asks
  <1>5. "CreateShowtime" \in Changes /\ i \in Ids
    BY DEF Changes, Ids
  <1>6. movies' \cap issued \subseteq movies /\ issued \subseteq issued'
    BY <1>1, <1>2
  <1>7. CASE /\ m \in movies /\ k \in cinemas
             /\ showtimes' = showtimes \cup {Row(m, k, i)} /\ issued' = issued \cup {i}
             /\ Answers(r, "CreateShowtime", i, 201, {m}, TRUE)
    <2>1. Row(m, k, i) \in Showtime /\ Row(m, k, i).movie = m /\ Row(m, k, i).cinema = k
      BY DEF Showtime
    <2>2. RowsOK'
      <3> HIDE DEF Row
      <3> QED
        BY <1>2, <1>5, <1>7, <2>1 DEF RowsOK, NoOrphanShowtimes
    <2>3. {m} \in SUBSET Movies /\ {m} \cap client[r].knew = {}
      BY <1>7, ShowsAreLive
    <2>4. Answers(r, "CreateShowtime", i, 201, {m}, TRUE) /\ 201 \in DoneCodes
      BY <1>7, CodesTell
    <2>5. CallsOK'
      BY <1>4, <1>5, <1>6, <2>3, <2>4, DoneKeeps, Zenon
    <2> QED
      BY <2>2, <2>5
  <1>8. CASE /\ Answers(r, "CreateShowtime", i, 400, {}, FALSE)
             /\ UNCHANGED <<showtimes, issued>>
    <2>1. RowsOK'
      BY <1>2, <1>8 DEF RowsOK, NoOrphanShowtimes
    <2>2. Answers(r, "CreateShowtime", i, 400, {}, FALSE) /\ 400 \in UndoneCodes
      BY <1>8, CodesTell
    <2>3. CallsOK'
      BY <1>4, <1>5, <1>6, <2>2, UndoneKeeps, Zenon
    <2> QED
      BY <2>1, <2>3
  <1> QED
    BY <1>1, <1>7, <1>8

\* What the handlers that only read answer.
LEMMA ReadsKeep ==
    ASSUME RowsOK, CallsOK, NEW r \in Requests, UNCHANGED <<client, deleted>>,
           \/ ListMovies(r) \/ GetMovie(r) \/ ListCinemas(r) \/ GetCinema(r)
           \/ ListShowtimes(r) \/ GetShowtime(r) \/ HoldRefused(r)
    PROVE  RowsOK' /\ CallsOK'
  <1>1. \E code \in Codes \ {204}, shows \in SUBSET movies : Shows(r, code, shows)
    <2>0. 200 \in Codes \ {204} /\ 400 \in Codes \ {204} /\ 404 \in Codes \ {204}
      BY DEF Codes
    <2>1. \A s \in showtimes : {s.movie} \in SUBSET movies
      BY DEF RowsOK, NoOrphanShowtimes
    <2>2. {s.movie : s \in showtimes} \in SUBSET movies
      BY <2>1
    <2>3. CASE ListMovies(r)
      BY <2>0, <2>3 DEF ListMovies
    <2>4. CASE GetMovie(r)
      <3>1. PICK m \in Movies : \/ m \in movies /\ Shows(r, 200, {m})
                                \/ Shows(r, 404, {})
        BY <2>4 DEF GetMovie
      <3> QED
        BY <2>0, <3>1
    <2>5. CASE ListCinemas(r)
      BY <2>0, <2>5 DEF ListCinemas
    <2>6. CASE GetCinema(r)
      BY <2>0, <2>6 DEF GetCinema
    <2>7. CASE ListShowtimes(r)
      BY <2>0, <2>2, <2>7 DEF ListShowtimes
    <2>8. CASE GetShowtime(r)
      <3>1. CASE \E s \in showtimes : Shows(r, 200, {s.movie})
        <4>1. PICK s \in showtimes : Shows(r, 200, {s.movie})
          BY <3>1
        <4>2. {s.movie} \in SUBSET movies /\ 200 \in Codes \ {204}
          BY <2>0, <2>1
        <4> USE <4>2
        <4> WITNESS 200 \in Codes \ {204}, {s.movie} \in SUBSET movies
        <4> QED
          BY <4>1
      <3>2. CASE Shows(r, 404, {})
        BY <2>0, <3>2
      <3> QED
        BY <2>8, <3>1, <3>2 DEF GetShowtime
    <2>9. CASE HoldRefused(r)
      BY <2>0, <2>9 DEF HoldRefused, Failure
    <2> QED
      BY <2>3, <2>4, <2>5, <2>6, <2>7, <2>8, <2>9
  <1>2. PICK code \in Codes \ {204}, shows \in SUBSET movies : Shows(r, code, shows)
    BY <1>1
  <1>3. UNCHANGED <<movies, cinemas, showtimes, issued>>
    BY <1>2 DEF Shows
  <1>4. RowsOK'
    BY <1>3 DEF RowsOK, NoOrphanShowtimes
  <1>5. call[r].at # "none"
    BY DEF ListMovies, GetMovie, ListCinemas, GetCinema, ListShowtimes, GetShowtime,
           HoldRefused, Asks
  <1>6. shows \in SUBSET Movies /\ shows \cap client[r].knew = {}
    BY ShowsAreLive
  <1> QED
    BY <1>2, <1>4, <1>5, <1>6, ShowsKeeps

LEMMA HoldEndsKeeps ==
    ASSUME RowsOK, CallsOK, NEW r \in Requests, HoldEnds(r), UNCHANGED <<client, deleted>>
    PROVE  RowsOK' /\ CallsOK'
  <1>1. PICK code \in Codes \ {204}, shows \in {call[r].shows, {}} : Shows(r, code, shows)
    <2>1. \A code \in {201, 409, 500} : code \in Codes \ {204}
      BY DEF Codes
    <2> QED
      BY <2>1 DEF HoldEnds
  <1>2. UNCHANGED <<movies, cinemas, showtimes, issued>>
    BY <1>1 DEF Shows
  <1>3. RowsOK'
    BY <1>2 DEF RowsOK, NoOrphanShowtimes
  <1>4. call[r].at # "none"
    BY DEF HoldEnds
  <1>5. call[r].shows \in SUBSET Movies /\ call[r].shows \cap client[r].knew = {}
    BY DEF CallsOK, Sound, Call
  <1> QED
    BY <1>1, <1>3, <1>4, <1>5, ShowsKeeps

LEMMA FailsKeeps ==
    ASSUME RowsOK, CallsOK, NEW r \in Requests, Fails(r), UNCHANGED <<client, deleted>>
    PROVE  RowsOK' /\ CallsOK'
  <1>1. UNCHANGED <<movies, cinemas, showtimes, issued>>
    BY DEF Fails
  <1>2. RowsOK'
    BY <1>1 DEF RowsOK, NoOrphanShowtimes
  <1>3. call[r].at # "none"
    BY DEF Fails, Asks
  <1>4. PICK op \in {"none"} \cup Changes, code \in Codes \ {204} :
            /\ Reply(r, op, "none", code, {}, FALSE)
            /\ op \in Changes => Truth(op, code, FALSE)
    <2>1. /\ 400 \in Codes \ {204} /\ \A op : Failure(op) \in Codes \ {204}
          /\ \A op : Truth(op, 400, FALSE) /\ Truth(op, Failure(op), FALSE)
      BY DEF Failure, Codes, Truth
    <2>2. CASE \E op \in Changes : \E code \in {400, Failure(op)} :
                   Reply(r, op, "none", code, {}, FALSE)
      <3>0. PICK op \in Changes : \E code \in {400, Failure(op)} :
                   Reply(r, op, "none", code, {}, FALSE)
        BY <2>2
      <3>1. PICK code \in {400, Failure(op)} : Reply(r, op, "none", code, {}, FALSE)
        BY <3>0
      <3>2. code \in Codes \ {204} /\ Truth(op, code, FALSE)
        BY <3>1 DEF Failure, Codes, Truth
      <3> QED
        BY <3>1, <3>2, Zenon
    <2>3. CASE \E op \in Reads : Reply(r, "none", "none", Failure(op), {}, FALSE)
      <3>1. "none" \notin Changes
        BY DEF Changes
      <3>2. PICK op \in Reads : Reply(r, "none", "none", Failure(op), {}, FALSE)
        BY <2>3
      <3>3. Failure(op) \in Codes \ {204}
        BY <2>1
      <3> QED
        BY <3>1, <3>2, <3>3, Zenon
    <2> QED
      BY <2>2, <2>3 DEF Fails
  <1>5. /\ {} \in SUBSET Movies /\ {} \cap client[r].knew = {}
        /\ movies' \cap issued \subseteq movies /\ issued \subseteq issued'
    BY <1>1
  <1> QED
    BY <1>2, <1>3, <1>4, <1>5, ReplyKeeps

\* A request changes alone, and it has no 204 to tell.
LEMMA OneChanges ==
    ASSUME CallsOK, NEW r \in Requests, NEW n, NEW e,
           call' = [call EXCEPT ![r] = n], client' = [client EXCEPT ![r] = e],
           UNCHANGED <<movies, issued>>,
           Sound(n, e, movies, issued, deleted'), n.at = "reply" => n.code # 204,
           \A q \in Requests \ {r} : Sound(call[q], client[q], movies, issued, deleted')
    PROVE  CallsOK'
  <1>1. n \in Call /\ e \in Client
    BY DEF Sound
  <1>2. /\ call' \in [Requests -> Call] /\ client' \in [Requests -> Client]
        /\ call'[r] = n /\ client'[r] = e
        /\ \A q \in Requests \ {r} : call'[q] = call[q] /\ client'[q] = client[q]
    BY <1>1 DEF CallsOK
  <1>3. \A q \in Requests : Sound(call'[q], client'[q], movies', issued', deleted')
    <2> SUFFICES ASSUME NEW q \in Requests
                 PROVE  Sound(call'[q], client'[q], movies, issued, deleted')
      OBVIOUS
    <2>1. CASE q = r
      BY <1>2, <2>1
    <2>2. CASE q # r
      BY <1>2, <2>2
    <2> QED
      BY <2>1, <2>2
  <1>4. Distinct'
    BY <1>2 DEF CallsOK, Distinct
  <1> QED
    BY <1>2, <1>3, <1>4 DEF CallsOK

LEMMA HoldAsksKeeps ==
    ASSUME RowsOK, CallsOK, NEW r \in Requests, HoldAsks(r), UNCHANGED <<client, deleted>>
    PROVE  RowsOK' /\ CallsOK'
  <1>1. PICK s \in showtimes :
            call' = [call EXCEPT ![r] =
                        [NoCall EXCEPT !.at = "quoted", !.shows = {s.movie}]]
    BY DEF HoldAsks
  <1> DEFINE n == [NoCall EXCEPT !.at = "quoted", !.shows = {s.movie}]
  <1>2. UNCHANGED <<movies, cinemas, showtimes, issued>>
    BY DEF HoldAsks
  <1>3. RowsOK'
    BY <1>2 DEF RowsOK, NoOrphanShowtimes
  <1>4. call[r].at = "handler"
    BY DEF HoldAsks, Asks
  <1>5. {s.movie} \in SUBSET Movies /\ {s.movie} \cap client[r].knew = {}
    <2>1. {s.movie} \subseteq movies
      BY DEF RowsOK, NoOrphanShowtimes
    <2> QED
      BY <2>1, ShowsAreLive
  <1>6. Sound(call[r], client[r], movies, issued, deleted)
    BY DEF CallsOK
  <1>7. n \in Call /\ n.at = "quoted" /\ n.shows = {s.movie}
    <2>1. NoCall \in Call
      BY DEF NoCall, Call, Codes
    <2>2. n.at = "quoted" /\ n.shows = {s.movie}
      BY Zenon DEF NoCall
    <2>3. n \in Call
      <3> HIDE DEF NoCall
      <3> QED
        BY <1>5, <2>1 DEF Call
    <2> QED
      BY <2>2, <2>3
  <1> HIDE DEF n
  <1>8. Sound(n, client[r], movies, issued, deleted)
    BY <1>4, <1>5, <1>6, <1>7 DEF Sound
  <1>9. client' = [client EXCEPT ![r] = client[r]]
    BY DEF CallsOK
  <1>10. call' = [call EXCEPT ![r] = n]
    BY <1>1 DEF n
  <1>11. \A q \in Requests \ {r} : Sound(call[q], client[q], movies, issued, deleted)
    BY DEF CallsOK
  <1>12. CallsOK'
    BY <1>2, <1>7, <1>8, <1>9, <1>10, <1>11, OneChanges
  <1> QED
    BY <1>3, <1>12

\* Whatever the backend does.
LEMMA HandlerKeeps ==
    ASSUME RowsOK, CallsOK, NEW r \in Requests, Backend(r)
    PROVE  RowsOK' /\ CallsOK'
  <1>1. Handler(r) /\ UNCHANGED <<client, deleted>>
    BY DEF Backend
  <1>2. CASE CreateMovie(r) \/ UpdateMovie(r) \/ DeleteMovie(r)
    BY <1>1, <1>2, CreateMovieKeeps, UpdateMovieKeeps, DeleteMovieKeeps
  <1>3. CASE CreateCinema(r) \/ CreateShowtime(r)
    BY <1>1, <1>3, CreateCinemaKeeps, CreateShowtimeKeeps
  <1>4. CASE \/ ListMovies(r) \/ GetMovie(r) \/ ListCinemas(r) \/ GetCinema(r)
             \/ ListShowtimes(r) \/ GetShowtime(r) \/ HoldRefused(r)
    BY <1>1, <1>4, ReadsKeep
  <1>5. CASE HoldAsks(r) \/ HoldEnds(r) \/ Fails(r)
    BY <1>1, <1>5, HoldAsksKeeps, HoldEndsKeeps, FailsKeeps
  <1> QED
    BY <1>1, <1>2, <1>3, <1>4, <1>5 DEF Handler
-----------------------------------------------------------------------------
(* The gateway. *)

LEMMA RowsStay ==
    ASSUME RowsOK, UNCHANGED <<movieVars, deleted>>
    PROVE  RowsOK'
  BY DEF RowsOK, NoOrphanShowtimes, movieVars

LEMMA CallsStay ==
    ASSUME CallsOK, UNCHANGED <<movieVars, client, deleted>>
    PROVE  CallsOK'
  BY DEF CallsOK, Distinct, movieVars

LEMMA SentKeeps ==
    ASSUME RowsOK, CallsOK, NEW r \in Requests,
           NEW routes \in {PublicRoutes, PrivateRoutes, IngressRoutes}, Sent(r, routes)
    PROVE  RowsOK' /\ CallsOK'
  <1> DEFINE n == [NoCall EXCEPT !.at = "handler", !.may = routes]
             e == [waits |-> TRUE, knew |-> deleted]
  <1>1. /\ call' = [call EXCEPT ![r] = n] /\ client' = [client EXCEPT ![r] = e]
        /\ UNCHANGED <<movies, cinemas, showtimes, issued, deleted>>
    BY DEF Sent
  <1>2. n \in Call /\ n.at = "handler" /\ n.shows = {}
    <2>1. NoCall \in Call /\ NoCall.shows = {}
      BY DEF NoCall, Call, Codes
    <2>2. n.at = "handler" /\ n.shows = {}
      BY Zenon DEF NoCall
    <2>3. n \in Call
      <3> HIDE DEF NoCall
      <3> QED
        BY <2>1 DEF Call
    <2> QED
      BY <2>2, <2>3
  <1>3. e \in Client /\ e.knew = deleted
    BY DEF Client, RowsOK
  <1> HIDE DEF n, e
  <1>4. Sound(n, e, movies, issued, deleted)
    BY <1>2, <1>3 DEF Sound
  <1>5. \A q \in Requests \ {r} : Sound(call[q], client[q], movies, issued, deleted)
    BY DEF CallsOK
  <1>6. CallsOK'
    BY <1>1, <1>2, <1>4, <1>5, OneChanges
  <1>7. RowsOK'
    BY <1>1 DEF RowsOK, NoOrphanShowtimes
  <1> QED
    BY <1>6, <1>7

\* A 204 that is heard is heard of a movie that is gone for ever, and the other
\* requests have none for it to tell.
LEMMA RelayKeeps ==
    ASSUME RowsOK, CallsOK, NEW r \in Requests, Relay(r)
    PROVE  RowsOK' /\ CallsOK'
  <1>1. /\ call' = [call EXCEPT ![r] = NoCall] /\ client' = [client EXCEPT ![r] = NoClient]
        /\ UNCHANGED <<movies, cinemas, showtimes, issued>>
    BY DEF Relay, Over
  <1>2. call[r].at = "reply"
    BY DEF Relay
  <1>3. CASE call[r].code = 204
    <2>1. deleted' = deleted \cup {call[r].on}
      BY <1>3 DEF Relay
    <2>2. call[r].on \in Movies /\ call[r].on \in issued /\ call[r].on \notin movies
      BY <1>2, <1>3 DEF CallsOK, Sound
    <2>3. RowsOK'
      BY <1>1, <2>1, <2>2 DEF RowsOK, NoOrphanShowtimes
    <2>4. ASSUME NEW q \in Requests \ {r}
          PROVE  Sound(call[q], client[q], movies, issued, deleted')
      <3>1. call[q].at = "reply" /\ call[q].code = 204 => call[q].on # call[r].on
        BY <1>2, <1>3, <2>4 DEF CallsOK, Distinct
      <3>2. Sound(call[q], client[q], movies, issued, deleted)
        BY DEF CallsOK
      <3> QED
        BY <2>1, <3>1, <3>2 DEF Sound
    <2>5. Sound(NoCall, NoClient, movies, issued, deleted') /\ NoCall.at = "none"
      BY NothingIsSound DEF NoCall
    <2>6. CallsOK'
      BY <1>1, <2>4, <2>5, OneChanges
    <2> QED
      BY <2>3, <2>6
  <1>4. CASE call[r].code # 204
    <2>1. deleted' = deleted
      BY <1>4 DEF Relay
    <2>2. RowsOK'
      BY <1>1, <2>1 DEF RowsOK, NoOrphanShowtimes
    <2>3. \A q \in Requests \ {r} : Sound(call[q], client[q], movies, issued, deleted')
      BY <2>1 DEF CallsOK
    <2>4. Sound(NoCall, NoClient, movies, issued, deleted') /\ NoCall.at = "none"
      BY NothingIsSound DEF NoCall
    <2>5. CallsOK'
      BY <1>1, <2>3, <2>4, OneChanges
    <2> QED
      BY <2>2, <2>5
  <1> QED
    BY <1>3, <1>4

LEMMA AbandonedKeeps ==
    ASSUME RowsOK, CallsOK, NEW r \in Requests, Abandoned(r)
    PROVE  RowsOK' /\ CallsOK'
  <1>1. /\ call' = [call EXCEPT ![r] = NoCall] /\ client' = [client EXCEPT ![r] = NoClient]
        /\ UNCHANGED <<movies, cinemas, showtimes, issued, deleted>>
    BY DEF Abandoned, Over
  <1>2. RowsOK'
    BY <1>1 DEF RowsOK, NoOrphanShowtimes
  <1>3. \A q \in Requests \ {r} : Sound(call[q], client[q], movies, issued, deleted')
    BY <1>1 DEF CallsOK
  <1>4. Sound(NoCall, NoClient, movies, issued, deleted') /\ NoCall.at = "none"
    BY NothingIsSound DEF NoCall
  <1>5. CallsOK'
    BY <1>1, <1>3, <1>4, OneChanges
  <1> QED
    BY <1>2, <1>5

\* The client is answered 502, and what the request is doing goes on.
LEMMA ProxyErrorKeeps ==
    ASSUME RowsOK, CallsOK, NEW r \in Requests, ProxyError(r)
    PROVE  RowsOK' /\ CallsOK'
  <1> DEFINE e == NoClient
  <1>1. UNCHANGED <<movieVars, deleted>> /\ client' = [client EXCEPT ![r] = e]
    BY DEF ProxyError
  <1>2. RowsOK'
    BY <1>1, RowsStay
  <1>3. Sound(call[r], client[r], movies, issued, deleted)
    BY DEF CallsOK
  <1>4. e \in Client /\ e.waits = FALSE /\ e.knew = {}
    BY <1>3 DEF NoClient, Client, Sound
  <1> HIDE DEF e
  <1>5. Sound(call[r], e, movies, issued, deleted)
    BY <1>3, <1>4 DEF Sound
  <1>6. /\ client' \in [Requests -> Client] /\ client'[r] = e
        /\ \A q \in Requests \ {r} : client'[q] = client[q]
    BY <1>1, <1>4 DEF CallsOK
  <1>7. \A q \in Requests : Sound(call[q], client'[q], movies, issued, deleted)
    <2> SUFFICES ASSUME NEW q \in Requests
                 PROVE  Sound(call[q], client'[q], movies, issued, deleted)
      OBVIOUS
    <2>1. CASE q = r
      BY <1>5, <1>6, <2>1
    <2>2. CASE q # r
      BY <1>6, <2>2 DEF CallsOK
    <2> QED
      BY <2>1, <2>2
  <1>8. UNCHANGED <<movies, issued, call, deleted>>
    BY <1>1 DEF movieVars
  <1>9. CallsOK'
    BY <1>6, <1>7, <1>8 DEF CallsOK, Distinct
  <1> QED
    BY <1>2, <1>9
-----------------------------------------------------------------------------
(* The invariant. *)

LEMMA TokensKeep ==
    ASSUME TokensOK, GatewayNext
    PROVE  TokensOK'
  <1>1. CASE token' = token
    BY <1>1 DEF TokensOK
  <1>2. CASE \E c \in Clients : Login(c)
    <2>1. TokenLife \in 0 .. TokenLife
      BY TokenAssumption
    <2> QED
      BY <1>2, <2>1 DEF TokensOK, Login
  <1>3. CASE GatewayTick
    <2>1. ASSUME NEW c \in Clients
          PROVE  (IF token[c] > 0 THEN token[c] - 1 ELSE 0) \in 0 .. TokenLife
      BY TokenAssumption DEF TokensOK
    <2> QED
      BY <1>3, <2>1 DEF TokensOK, GatewayTick
  <1> QED
    BY <1>1, <1>2, <1>3
       DEF GatewayNext, LimiterAlone, Limited, Unauthorised, Forward, ViaIngress, Sent,
           Backend, Relay, ProxyError, Abandoned, Over

LEMMA RowsAndCallsKeep ==
    ASSUME RowsOK, CallsOK, GatewayNext
    PROVE  RowsOK' /\ CallsOK'
  <1>1. CASE \/ GatewayTick \/ LimiterAlone
             \/ \E c \in Clients : Limited(c) \/ Unauthorised(c) \/ Login(c)
    <2>1. UNCHANGED <<movieVars, client, deleted>>
      BY <1>1 DEF GatewayTick, LimiterAlone, Limited, Unauthorised, Login
    <2> QED
      BY <2>1, RowsStay, CallsStay
  <1>2. CASE \E c \in Clients, r \in Requests, routes \in {PublicRoutes, PrivateRoutes} :
                 Forward(c, r, routes)
    BY <1>2, SentKeeps DEF Forward
  <1>5. CASE \E r \in Requests : ViaIngress(r)
    BY <1>5, SentKeeps DEF ViaIngress
  <1>3. CASE \E r \in Requests : Backend(r)
    BY <1>3, HandlerKeeps
  <1>4. CASE \E r \in Requests : Relay(r) \/ ProxyError(r) \/ Abandoned(r)
    BY <1>4, RelayKeeps, ProxyErrorKeeps, AbandonedKeeps
  <1> QED
    BY <1>1, <1>2, <1>3, <1>4, <1>5 DEF GatewayNext

LEMMA Starts == GatewayInit => GInv
  <1> SUFFICES ASSUME GatewayInit PROVE GInv
    OBVIOUS
  <1>1. RowsOK
    BY DEF GatewayInit, MovieInit, RowsOK, NoOrphanShowtimes
  <1>2. TokensOK
    BY TokenAssumption DEF GatewayInit, TokensOK
  <1>3. /\ call = [r \in Requests |-> NoCall] /\ client = [r \in Requests |-> NoClient]
        /\ \A r \in Requests : call[r] = NoCall /\ client[r] = NoClient
    BY DEF GatewayInit, MovieInit
  <1>4. \A r \in Requests : Sound(call[r], client[r], movies, issued, deleted)
    BY <1>3, NothingIsSound
  <1>5. NoCall \in Call /\ NoClient \in Client /\ NoCall.at = "none"
    BY DEF NoCall, NoClient, Call, Client, Codes
  <1>6. CallsOK
    BY <1>3, <1>4, <1>5 DEF CallsOK, Distinct
  <1> QED
    BY <1>1, <1>2, <1>6 DEF GInv

LEMMA GatewayInvariance == GatewaySpec => []GInv
  <1>1. GInv /\ [GatewayNext]_gatewayVars => GInv'
    <2> SUFFICES ASSUME GInv, [GatewayNext]_gatewayVars
                 PROVE  GInv'
      OBVIOUS
    <2>1. CASE GatewayNext
      BY <2>1, TokensKeep, RowsAndCallsKeep DEF GInv
    <2>2. CASE UNCHANGED gatewayVars
      <3>1. UNCHANGED <<movieVars, token, client, deleted>>
        BY <2>2 DEF gatewayVars
      <3> QED
        BY <3>1, RowsStay, CallsStay DEF GInv, TokensOK
    <2> QED
      BY <2>1, <2>2
  <1> QED
    BY <1>1, Starts, PTL DEF GatewaySpec
-----------------------------------------------------------------------------
(* What it says. *)

\* Every variable of the gateway and of movie-service keeps its type, and a client
\* that waits has a request for which it waits.
THEOREM GatewayTypes == GatewaySpec => []GatewayTypeOK
  <1>1. GInv => GatewayTypeOK
    <2> SUFFICES ASSUME GInv PROVE GatewayTypeOK
      OBVIOUS
    <2>1. \A r \in Requests : client[r].waits => call[r].at # "none"
      BY DEF GInv, CallsOK, Sound, Client
    <2>2. Client = [waits : BOOLEAN, knew : SUBSET Movies]
      BY DEF Client
    <2> QED
      BY <2>1, <2>2 DEF GInv, RowsOK, CallsOK, TokensOK, GatewayTypeOK, Call, Codes
  <1> QED
    BY <1>1, GatewayInvariance, PTL

\* However requests overlap, and whichever of them the proxy gives up, a row of
\* showtimes has its movie and its cinema.
THEOREM NoOrphans == GatewaySpec => []NoOrphanShowtimes
  <1>1. GInv => NoOrphanShowtimes
    BY DEF GInv, RowsOK
  <1> QED
    BY <1>1, GatewayInvariance, PTL

\* A movie whose DELETE was answered 204 is in no answer to a later request, not
\* even to one of booking-service, and however late the backend comes to it.
THEOREM NoStale == GatewaySpec => []NoStaleAnswer
  <1>1. GInv => NoStaleAnswer
    BY DEF GInv, CallsOK, Sound, NoStaleAnswer
  <1> QED
    BY <1>1, GatewayInvariance, PTL

\* What the status of an answer says of the rows is so: CreateShowtime excepted,
\* 4xx is the answer of a request that has changed nothing.
THEOREM AnswersTrue == GatewaySpec => []AnswersTellTheTruth
  <1>1. GInv => AnswersTellTheTruth
    <2> SUFFICES ASSUME GInv, NEW r \in Requests, call[r].at = "reply", call[r].op \in Changes
                 PROVE  /\ call[r].code \in 200 .. 299 => call[r].did
                        /\ call[r].code \in 400 .. 499 =>
                               ~call[r].did \/ call[r].op = "CreateShowtime"
      BY DEF AnswersTellTheTruth
    <2>1. Sound(call[r], client[r], movies, issued, deleted)
      BY DEF GInv, CallsOK
    <2>2. Truth(call[r].op, call[r].code, call[r].did)
      BY <2>1 DEF Sound
    <2> QED
      BY <2>2 DEF Truth
  <1> QED
    BY <1>1, GatewayInvariance, PTL

\* Two DELETEs of one movie, or one and its retry after a 502, are not both
\* answered 204.
THEOREM OneWins == GatewaySpec => []OneDeleteWins
  <1>1. GInv => OneDeleteWins
    <2> SUFFICES ASSUME GInv, NEW r \in Requests, NEW m \in Movies, Gives204(r, m)
                 PROVE  m \notin deleted /\ \A q \in Requests \ {r} : ~Gives204(q, m)
      BY DEF OneDeleteWins
    <2>1. call[r].at = "reply" /\ call[r].code = 204 /\ call[r].on = m
      BY DEF Gives204
    <2>2. m \notin deleted
      BY <2>1 DEF GInv, CallsOK, Sound
    <2>3. \A q \in Requests \ {r} : ~Gives204(q, m)
      BY <2>1 DEF GInv, CallsOK, Distinct, Gives204
    <2> QED
      BY <2>2, <2>3
  <1> QED
    BY <1>1, GatewayInvariance, PTL
-----------------------------------------------------------------------------
(* The limiter inside the gateway is the limiter. *)

LEMMA LimiterRuns == GatewaySpec => Spec
  <1>1. GatewayInit => Init
    BY DEF GatewayInit
  <1>2. [GatewayNext]_gatewayVars => [Next]_limiterVars
    <2> SUFFICES ASSUME [GatewayNext]_gatewayVars
                 PROVE  Next \/ UNCHANGED limiterVars
      OBVIOUS
    <2>1. CASE GatewayTick
      BY <2>1 DEF GatewayTick, Next
    <2>2. CASE LimiterAlone
      BY <2>2 DEF LimiterAlone, Next
    <2>3. CASE \E c \in Clients : Limited(c) \/ Unauthorised(c) \/ Login(c)
      BY <2>3 DEF Limited, Unauthorised, Login, Next
    <2>4. CASE \E c \in Clients, r \in Requests, routes \in {PublicRoutes, PrivateRoutes} :
                   Forward(c, r, routes)
      BY <2>4 DEF Forward, Next
    <2>5. CASE \E r \in Requests : \/ ViaIngress(r) \/ Backend(r) \/ Relay(r)
                                  \/ ProxyError(r) \/ Abandoned(r)
      BY <2>5 DEF ViaIngress, Backend, Relay, ProxyError, Abandoned, Over
    <2>6. CASE UNCHANGED gatewayVars
      BY <2>6 DEF gatewayVars
    <2> QED
      BY <2>1, <2>2, <2>3, <2>4, <2>5, <2>6 DEF GatewayNext
  <1> QED
    BY <1>1, <1>2, PTL DEF GatewaySpec, Spec

\* What is proved of the limiter holds of it as the gateway uses it: whatever
\* becomes of the requests that it lets through, each client gets at most the
\* burst and the refill, and is answered as by an ideal bucket.
THEOREM LimitsHold == GatewaySpec => []WindowIsBounded /\ ImplementsTokenBucket
  BY LimiterRuns, WindowBounded, LimiterIsABucket
=============================================================================
