---------------------------- MODULE MCRevisions ----------------------------
(* Every spec of baras/revisions.go, with the two instances it scales to.    *)
EXTENDS Revisions

const_Scenarios == Specs

const_Rollbacks == {s \in Specs : s.how = "rollback"}
=============================================================================
