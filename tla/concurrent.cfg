SPECIFICATION FairSpec
CONSTANTS
    admin = admin  ann = ann  bob = bob
    users = users  admins = admins  staff = staff
    w1 = w1  w2 = w2  r1 = r1  r2 = r2
    User = {admin, ann, bob}
    Group = {users, admins, staff, admin, ann, bob}
    UsersGroup = users
    AdminsGroup = admins
    NoName = NoName
    MinID = 1
    RefInt = TRUE
    Worker = {w1, w2}
    Admin = admin
    ForceCreateAdmin = FALSE
    Replica = {r1}
    ReplicaOf <- OneReplica
    Requests <- Busy
    Start = "ready"
    MaxRequests = 2
    MaxCrashes = 0
INVARIANTS JoinCannotFail
PROPERTIES ProtectedGroupsStay RequestsAnswered
CHECK_DEADLOCK FALSE
