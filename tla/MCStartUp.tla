----------------------------- MODULE MCStartUp -----------------------------
(* Instances of StartUp for TLC. *)
EXTENDS StartUp, TLC

CONSTANTS mv, bk1, bk2, py, nt, gw

\* One pod of each service, and a second one of booking-service: its autoscaler
\* may add pods at any time.
Deployment == (mv :> "movie") @@ (bk1 :> "booking") @@ (bk2 :> "booking") @@
              (py :> "payment") @@ (nt :> "notification") @@ (gw :> "gateway")
=============================================================================
