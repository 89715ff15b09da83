---- MODULE MCNotificationThreads ----
(* Events of a key that is mailed and of one that is not, two at a time.   *)
EXTENDS NotificationThreads

CONSTANTS w1, w2, u1, u2, failed, done

====
