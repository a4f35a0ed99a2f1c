SPECIFICATION Spec
CONSTANTS
    r1 = r1
    r2 = r2
    r3 = r3
    Requests = {r1, r2}
    Users = {}
    SeedUser = 1
    Earlier = "earlier"
    Names = {"short"}
    WideNames = {}
    Faults = {}
SYMMETRY MCSymmetry
INVARIANTS
    InstallationStores
