SPECIFICATION Spec
CHECK_DEADLOCK FALSE
CONSTANTS
    Requests = {q1, q2}
    Users = {admin, user}
    Admin = admin
    Roles = {"owner", "viewer"}
    Nobody = nobody
    Home = home
    Labels = {q1, q2, "login", "get_tenant", "read", "write", "create_tenant", "list_tenants"}
    Buckets = {50, 100}
    Durations = {50, 70}
    MaxEdits = 1
    MaxFaults = 2
SYMMETRY Symmetry
INVARIANTS
    TypeOK
    NoStaleAccess
    ReadyMeansAccount
    OrphansExplained
    AnswersCounted
