----------------------------- MODULE MCRoleBased -----------------------------
(* Roles and conninfos for checking the role-based strategy.                *)
EXTENDS RoleBased

\* role_based(master, replica), as the tests and the example use it.
MCRoles == <<"master", "replica">>

\* Every combination of valid and invalid conninfos.
MCInfoOptions == [1..2 -> {"valid", "invalid"}]
=============================================================================
