------------------------------ MODULE MCSeatMap ------------------------------
(* Instance of SeatMap for TLC: a seat list of two, so that a Confirm moves one
   seat while the reader is between its pages. *)
EXTENDS SeatMap

CONSTANTS s1, s2, b1, b2, w1

Together == {<<s1, s2>>}
=============================================================================
