------------------------------ MODULE MCRoles -------------------------------
(***************************************************************************)
(* The instance of Roles that TLC checks: one administrator, a role and a  *)
(* name that is free.                                                      *)
(***************************************************************************)
EXTENDS Roles, TLC
CONSTANTS r1, r2, r3, ann, x1

Role(id, name, by) ==
  [id |-> id, name |-> name, description |-> None, createdBy |-> by, updatedBy |-> None]
OneRole == {Role(x1, "admin", ann)}

\* Two that write a role, and a deletion of roles or of a user beside them.
RoleOps ==
  r1 :> {"CreateRole", "UpdateRole"} @@
  r2 :> {"CreateRole", "UpdateRole"} @@
  r3 :> {"DeleteRole", "DeleteUsers"}
=============================================================================
