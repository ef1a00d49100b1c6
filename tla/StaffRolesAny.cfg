CONSTANTS
    a = a b = b c = c
    owner = owner administrator = administrator
    Workers = {w1, w2}
    Staff = {a, b, c}
    Roles = {owner, administrator}
    Owner = owner
    Assigners = {owner, administrator}
    Rank <- ByName
    Requests <- AllRequests
    OpeningRoles <- TwoOwners
    None = None
SYMMETRY Interchangeable
SPECIFICATION Spec
INVARIANTS RolesFresh DeadlocksAreMutual
PROPERTY CountsOvertaken
CHECK_DEADLOCK FALSE
