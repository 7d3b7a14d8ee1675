CONSTANTS
    AllCases <- Cases
    Flows = {f1, f2}
    MaxKey = 2
    MaxStart = 2
    MaxLogin = 1
SPECIFICATION SmallSpec
INVARIANTS SessionsMatchKeys LoggedOutStaysOut
PROPERTY ReportedLoginIsWhole
SYMMETRY Symmetry
CHECK_DEADLOCK FALSE
