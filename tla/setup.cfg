SPECIFICATION FairSpec
CONSTANTS
    admin = admin  ann = ann  bob = bob
    users = users  admins = admins  staff = staff
    w1 = w1  w2 = w2  r1 = r1  r2 = r2
    User = {admin}
    Group = {users, admins, admin}
    UsersGroup = users
    AdminsGroup = admins
    NoName = NoName
    MinID = 1
    RefInt = FALSE
    Worker = {w1, w2}
    Admin = admin
    ForceCreateAdmin = FALSE
    Replica = {r1, r2}
    ReplicaOf <- ReplicaEach
    Requests <- NoRequests
    Start = "down"
    MaxRequests = 0
    MaxCrashes = 2
INVARIANTS TypeOK ServingMeansSetUp
PROPERTIES SomeReplicaServes
CHECK_DEADLOCK FALSE
