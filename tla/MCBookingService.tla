------------------------- MODULE MCBookingService -------------------------
(* Instances of BookingService for TLC. *)
EXTENDS BookingService, TLC

CONSTANTS s1, s2, b1, b2, b3, w1, w2, w3, j1

OneSeat    == {<<s1>>}
Together   == {<<s1, s2>>}
SeatLists  == {<<s1, s2>>, <<s2, s1>>, <<s2>>, <<s2, s2>>, <<>>}

\* Ids and goroutines are interchangeable.
Interchangeable == Permutations(Bookings) \cup Permutations(Workers)
=============================================================================
