SPECIFICATION Spec
CONSTANTS
    admin = admin  ann = ann  bob = bob
    p1 = p1  p2 = p2  w1 = w1  w2 = w2
    User = {admin, ann, bob}
    NoName = NoName
    Password = {p1, p2}
    Worker = {w1, w2}
    Admin = admin
    First <- TwoAccounts
    Manager = Manager
    Anonymous = Anonymous
    RebindMayFail = FALSE
    RefInt = TRUE
    Requests <- Logins
    MaxRequests = 1
INVARIANT GoodLoginAccepted
CHECK_DEADLOCK FALSE
