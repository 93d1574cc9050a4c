-------------------------- MODULE MCPaymentService --------------------------
(* Instances of PaymentService, with PaymentOutcome, for TLC. *)
EXTENDS PaymentOutcome, TLC

CONSTANTS b1, p1, p2, p3, o1, o2

Interchangeable == Permutations(Payments) \cup Permutations(Others)
=============================================================================
