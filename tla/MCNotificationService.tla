----------------------- MODULE MCNotificationService -----------------------
EXTENDS NotificationService, TLC

CONSTANTS m1, m2, p1, bad, c1, c2

\* An event, and a body that is not JSON.
OneEvent == (m1 :> p1) @@ (m2 :> bad)
=============================================================================
