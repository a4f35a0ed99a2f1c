SPECIFICATION Spec
CONSTANTS
    r1 = r1
    r2 = r2
    r3 = r3
    Requests = {r1, r2, r3}
    Users = {1}
    SeedUser = 1
    Earlier = "earlier"
    Names = {"short", "toolong"}
    WideNames = {"toolong"}
    Faults = {"db", "crash"}
SYMMETRY MCSymmetry
INVARIANTS
    TypeOK
    AnnouncedIsUsable
    AnnouncedIsShown
    ReportHasInvestigation
