SPECIFICATION Spec
CONSTANTS
    admin = admin  ann = ann  bob = bob
    users = users  admins = admins  staff = staff
    w1 = w1  w2 = w2  r1 = r1  r2 = r2
    User = {admin, ann, bob}
    Group = {users, admins, staff, admin, ann, bob}
    UsersGroup = users
    AdminsGroup = admins
    NoName = NoName
    MinID = 1
    RefInt = FALSE
    Worker = {w1, w2}
    Admin = admin
    ForceCreateAdmin = TRUE
    Replica = {r1, r2}
    ReplicaOf <- ReplicaEach
    Requests <- FirstAccounts
    Start = "skip"
    MaxRequests = 2
    MaxCrashes = 0
INVARIANTS CreatedIsUser AccountGIDsResolve
CHECK_DEADLOCK FALSE
