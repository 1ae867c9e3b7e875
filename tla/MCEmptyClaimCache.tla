-------------------------- MODULE MCEmptyClaimCache --------------------------
(* Small instances of EmptyClaimCache and the mutants of its definitions.  *)
EXTENDS EmptyClaimCache

MCTask == 1..2
=============================================================================
