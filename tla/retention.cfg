SPECIFICATION Spec
CONSTANTS
    Jobs = {j1, j2}
    Readers = {r1}
    System = System
    None = None
    Limits <- ShortAndLong
    MaxAge = 1
    PassTime = 1
    MaxTime = 3
    MaxBuilds = 2
    MaxRestarts = 1
SYMMETRY Symmetry
INVARIANTS LogTypeOK GoneIsOld RunningLogKept SystemLogKept ServedLogIsOwn
PROPERTIES PassIsThorough
