------------------------- MODULE MCTransactionalStore ------------------------
EXTENDS TransactionalOperationStore, TLC

CONSTANTS o1, o2, j1, j2, c1, c2

(* One job per operation, as both callers of enqueueJob create them. *)
OneJobEach == (j1 :> o1) @@ (j2 :> o2)

JobTypes == (j1 :> AnalysisType) @@ (j2 :> UpgradeType)

ClientSymmetry == Permutations({c1, c2})
==============================================================================
