------------------------------ MODULE MCRoles ------------------------------
(* A few users and applications for TLC. *)
EXTENDS Roles, TLC

CONSTANT DemoAdministrators   \* users the seeds make administrators

DemoRows == DemoAdministrators \X {"administrator"}

\* Users are not interchangeable: the seeds know one of them.
Symmetry == Permutations(Apps) \cup Permutations(Requests)
============================================================================
