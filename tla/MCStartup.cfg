SPECIFICATION BootSpec
CONSTANTS
    Procs = {p1, p2}
    Files <- MCFiles
INVARIANTS
    OnThePath
    ServedIsComplete
