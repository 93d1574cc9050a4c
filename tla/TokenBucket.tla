---------------------------- MODULE TokenBucket ----------------------------
(***************************************************************************)
(* What a token bucket promises each client: a level that fills at a       *)
(* constant rate up to the burst, and a request is let through exactly     *)
(* when a whole token is there.  Nothing is stored lazily or thrown away.  *)
(*                                                                         *)
(* Units.  A minute has TicksPerMinute ticks and a token has as many       *)
(* parts, so that one tick refills exactly RequestsPerMinute parts.        *)
(***************************************************************************)
EXTENDS Integers

CONSTANTS Clients, RequestsPerMinute, TicksPerMinute

VARIABLES
    level,      \* the parts in each client's bucket
    answer      \* the last request: who asked, and whether it was let through

bucketVars == <<level, answer>>

Token == TicksPerMinute
Burst == RequestsPerMinute * TicksPerMinute

Capped(x) == IF x > Burst THEN Burst ELSE x

BucketTypeOK ==
    /\ level \in [Clients -> 0 .. Burst]
    /\ answer \in [who : Clients, ok : BOOLEAN] \cup {<<>>}

BucketInit == level = [c \in Clients |-> Burst] /\ answer = <<>>

Request(c) ==
    LET ok == level[c] >= Token
    IN  /\ level' = [level EXCEPT ![c] = IF ok THEN @ - Token ELSE @]
        /\ answer' = [who |-> c, ok |-> ok]

Fill ==
    /\ level' = [c \in Clients |-> Capped(level[c] + RequestsPerMinute)]
    /\ answer' = <<>>

BucketNext == Fill \/ \E c \in Clients : Request(c)

BucketSpec == BucketInit /\ [][BucketNext]_bucketVars
=============================================================================
