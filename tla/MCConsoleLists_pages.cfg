SPECIFICATION Spec
CONSTANTS
    i1 = i1
    i2 = i2
    Ids = {i1, i2}
    Slots = {s1, s2}
    MaxRev = 1
    RowsOf <- OneOrTwoRows
SYMMETRY Symmetric
INVARIANTS
    SentAsPermitted
    TargetsOfView
    DeletesAsConfirmed
    OneDeletion
    
    LocksReturned
