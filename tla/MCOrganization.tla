---------------------------- MODULE MCOrganization ---------------------------
EXTENDS OrganizationMembership, TLC

(* A request keeps no identity: any of them may do anything. *)
RequestSymmetry == Permutations(Request)
==============================================================================
