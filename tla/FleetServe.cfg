CONSTANTS
    N = 2
    Versions = {1, 2}
    MaxRuns = 3
SPECIFICATION Spec
INVARIANTS TypeOK ReadyIsThisServe CleanMeansClean
