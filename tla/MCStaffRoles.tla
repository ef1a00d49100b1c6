---------------------------- MODULE MCStaffRoles ----------------------------
(* Small instances of StaffRoles for TLC.                                  *)
EXTENDS StaffRoles, TLC

CONSTANTS a, b, c, owner, administrator

ByName == [r \in Roles |-> IF r = administrator THEN 1 ELSE 2]

(* Two Owners and a staff member of another role.                          *)
TwoOwners ==
    {[u \in Staff |-> IF u = c THEN {administrator} ELSE {owner}]}

AllRequests == SUBSET Roles

Interchangeable == Permutations(Workers)

=============================================================================
