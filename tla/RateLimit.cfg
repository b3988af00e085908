SPECIFICATION Spec
CONSTANTS
    ann = ann
    nat = nat
    th1 = th1
    th2 = th2
    th3 = th3
    Threads = {th1, th2, th3}
    Users = {ann}
    Addresses = {nat}
    MaxRequests = 3
    WindowSeconds = 1
    SweepEvery = 2
    MaxClock = 2
INVARIANTS
    TypeOK
    AdmitsAtMost
    NoEmptyDeque
PROPERTIES
    RefusesOnlyAtLimit
SYMMETRY Symmetry
