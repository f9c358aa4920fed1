SPECIFICATION BootSpec
CONSTANTS
    Procs = {p1}
    Files <- MCFiles
INVARIANTS
    AppliedOnce
