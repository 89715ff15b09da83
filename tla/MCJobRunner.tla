----------------------------- MODULE MCJobRunner -----------------------------
(* An upgrade, which a device completes, and an email, whose type has no   *)
(* handler.                                                                *)
EXTENDS JobRunner, TLC

CONSTANTS o1, o2, j1, j2, r1, r2

TwoJobs == (j1 :> o1 @@ j2 :> o2)

UpgradeAndEmail == (j1 :> UpgradeType @@ j2 :> EmailType)
==============================================================================
