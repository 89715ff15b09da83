---- MODULE MCInvitedSignIn ----
(* The invited account and another one that may be signed in.              *)
EXTENDS InvitedSignIn

CONSTANTS c1, c2, c3
====
