------------------------------ MODULE Gateway ------------------------------
(***************************************************************************)
(* A request on its way through api-gateway: the rate limiter, the route,  *)
(* the token, the proxy, and back.  The limiter is RateLimiter itself; the *)
(* backend is MovieService, which the Ingress also offers directly, for    *)
(* /movies, with neither limiter nor token.  A proxied request and its     *)
(* client can lose each other at any time, and then the backend may go on  *)
(* alone.                                                                  *)
(***************************************************************************)
EXTENDS RateLimiter, MovieService

CONSTANT TokenLife      \* JWT_EXPIRY_MINUTES, in ticks

ASSUME TokenAssumption == TokenLife \in Nat

VARIABLES
    token,      \* per client, the ticks for which its token is still good
    client,     \* the other end of each request
    deleted     \* history: the movies for which some client was answered 204

gatewayVars == <<limiterVars, movieVars, token, client, deleted>>

\* waits  it has no answer yet
\* knew   history: the movies known to be deleted when the request was sent
NoClient == [waits |-> FALSE, knew |-> {}]

\* The routes that authMW does not wrap, and those that it does.
PublicRoutes == Reads
PrivateRoutes == Changes \cup {"Hold"}

\* What the Ingress sends to movie-service by the path /movies.
IngressRoutes == {"ListMovies", "GetMovie", "CreateMovie", "UpdateMovie", "DeleteMovie"}

GatewayInit ==
    /\ Init /\ MovieInit
    /\ token = [c \in Clients |-> 0]
    /\ client = [r \in Requests |-> NoClient]
    /\ deleted = {}
-----------------------------------------------------------------------------
\* RequireAuth, on the routes that it wraps: a token whose time is not over.
Authorised(c, routes) == routes = PublicRoutes \/ token[c] > 0

\* The limiter sees every request first, whatever it is, and may end it (429).
Limited(c) ==
    /\ Allow(c) /\ ~answer'.ok
    /\ UNCHANGED <<movieVars, token, client, deleted>>

\* RequireAuth ends it (401): a client may also come without its token.
Unauthorised(c) ==
    /\ Allow(c) /\ answer'.ok
    /\ UNCHANGED <<movieVars, token, client, deleted>>

\* Mutant of Login: the token is good for one tick more than configured.
LoginTooLong(c) ==
    /\ Allow(c) /\ answer'.ok
    /\ token' = [token EXCEPT ![c] = TokenLife + 1]
    /\ UNCHANGED <<movieVars, client, deleted>>

\* /auth/login takes any user_id that is not empty.
Login(c) ==
    /\ Allow(c) /\ answer'.ok
    /\ token' = [token EXCEPT ![c] = TokenLife]
    /\ UNCHANGED <<movieVars, client, deleted>>

\* A proxy has passed the request on, and the client waits.
Sent(r, routes) ==
    /\ call[r] = NoCall
    /\ call' = [call EXCEPT ![r] = [NoCall EXCEPT !.at = "handler", !.may = routes]]
    /\ client' = [client EXCEPT ![r] = [waits |-> TRUE, knew |-> deleted]]
    /\ UNCHANGED <<movies, cinemas, showtimes, issued, token, deleted>>

\* The route is found, the client is who it says, and the gateway takes over.
Forward(c, r, routes) ==
    /\ Allow(c) /\ answer'.ok
    /\ Authorised(c, routes)
    /\ Sent(r, routes)

\* By the Ingress a request reaches movie-service past the gateway.
ViaIngress(r) == Sent(r, IngressRoutes) /\ UNCHANGED limiterVars

\* Nothing is left of the request.
Over(r) ==
    /\ call' = [call EXCEPT ![r] = NoCall]
    /\ client' = [client EXCEPT ![r] = NoClient]
    /\ UNCHANGED <<limiterVars, movies, cinemas, showtimes, issued, token>>

\* The answer of the backend goes back through the proxy.
Relay(r) ==
    /\ client[r].waits /\ call[r].at = "reply"
    /\ deleted' = IF call[r].code = 204 THEN deleted \cup {call[r].on} ELSE deleted
    /\ Over(r)

\* The client leaves, or the backend cannot be reached or the connection to it
\* breaks, and the client is answered 502.  What was sent to the backend may
\* still be executed.
ProxyError(r) ==
    /\ client[r].waits
    /\ client' = [client EXCEPT ![r] = NoClient]
    /\ UNCHANGED <<limiterVars, movieVars, token, deleted>>

\* A handler whose caller is gone ends, was never started, or is stopped.
Abandoned(r) ==
    /\ call[r].at # "none" /\ ~client[r].waits
    /\ Over(r)
    /\ UNCHANGED deleted

GatewayTick ==
    /\ Tick
    /\ token' = [c \in Clients |-> IF token[c] > 0 THEN token[c] - 1 ELSE 0]
    /\ UNCHANGED <<movieVars, client, deleted>>

LimiterAlone ==
    /\ Cleanup \/ \E c \in Clients : Watch(c)
    /\ UNCHANGED <<movieVars, token, client, deleted>>

Backend(r) == Handler(r) /\ UNCHANGED <<limiterVars, token, client, deleted>>

GatewayNext ==
    \/ GatewayTick \/ LimiterAlone
    \/ \E c \in Clients :
          \/ Limited(c) \/ Unauthorised(c) \/ Login(c)
          \/ \E r \in Requests, routes \in {PublicRoutes, PrivateRoutes} : Forward(c, r, routes)
    \/ \E r \in Requests :
          ViaIngress(r) \/ Backend(r) \/ Relay(r) \/ ProxyError(r) \/ Abandoned(r)

GatewaySpec == GatewayInit /\ [][GatewayNext]_gatewayVars
-----------------------------------------------------------------------------
\* The values the variables take.
GatewayTypeOK ==
    /\ movies \subseteq Movies /\ cinemas \subseteq Cinemas /\ showtimes \subseteq Showtime
    /\ issued \subseteq Ids
    /\ call \in [Requests -> [at : {"none", "handler", "quoted", "reply"},
                              may : {{}, PublicRoutes, PrivateRoutes, IngressRoutes},
                              op : {"none"} \cup Changes, on : {"none"} \cup Ids,
                              code : {0, 200, 201, 204, 400, 404, 409, 500},
                              shows : SUBSET Movies, did : BOOLEAN]]
    /\ token \in [Clients -> 0 .. TokenLife]
    /\ client \in [Requests -> [waits : BOOLEAN, knew : SUBSET Movies]]
    /\ deleted \subseteq Movies
    /\ \A r \in Requests : client[r].waits => call[r].at # "none"

\* Once a client was answered 204 for a movie, no request that is sent after that
\* is answered as if the movie were there: not by a read, not by a PUT, not by a
\* showtime or a Hold, and not because a request that was given up long ago comes
\* late.
NoStaleAnswer ==
    \A r \in Requests : call[r].at = "reply" => call[r].shows \cap client[r].knew = {}

\* An answer tells what the request has done: 2xx to a change, that a row was
\* changed; 4xx, that none was, so that it can be sent again.  Only CreateShowtime
\* answers 400 also when it does not know.
AnswersTellTheTruth ==
    \A r \in Requests : call[r].at = "reply" /\ call[r].op \in Changes =>
        /\ call[r].code \in 200 .. 299 => call[r].did
        /\ call[r].code \in 400 .. 499 => ~call[r].did \/ call[r].op = "CreateShowtime"

Gives204(r, m) == call[r].at = "reply" /\ call[r].code = 204 /\ call[r].on = m

\* Of the requests that delete a movie only one is answered 204.
OneDeleteWins ==
    \A r \in Requests, m \in Movies : Gives204(r, m) =>
        /\ m \notin deleted
        /\ \A q \in Requests \ {r} : ~Gives204(q, m)
=============================================================================
