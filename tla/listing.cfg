SPECIFICATION Spec
CONSTANTS
    Name = {1, 2, 3}
    Value = {0, 1, 2}
    PerPage = 1
    MaxChanges = 2
INVARIANTS ListingTypeOK WalkComplete PagesFit
CHECK_DEADLOCK FALSE
