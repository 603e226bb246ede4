CONSTANTS
    Requests = {q1, q2}
    NewNames = {"eve"}
    NewRoles = {"auditor"}
    Inventory = {"list", "create"}
    MaxRequests = 2
    Admins = {a1, a2}
    RoleIds = {"admin", "ops"}
    DefaultRoles = {"admin"}
    UserIds = {u1}
    Permissions = {p, q}
    DefaultPermissions = {p}
    Credentials = {k}
    MaxChanges = 3
    Callers = {c1, c2}
    Codes = {"K-1", "K 1", "K2"}
    SlugOf <- MCSlugOf
    PageSize = 1
    MaxCalls = 3
SPECIFICATION FrontendSpec
INVARIANT StoreIntact
INVARIANT PermissionsFollowRoles
INVARIANT ProjectsStayUnique
INVARIANT StaleListsAreExplained
SYMMETRY Interchangeable
CHECK_DEADLOCK FALSE
