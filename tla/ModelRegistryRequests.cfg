\* One detector, one installed version, one training run, every request.
SPECIFICATION FairSpec
CONSTANTS
    d1 = d1
    d2 = d2
    Detectors = {d1}
    Installed = {1}
    MaxVersion = 2
    MaxRuns = 1
    Requests <- Everything
INVARIANTS
    TypeOK
    HalfSavedIsNotServed
PROPERTIES
    NothingOverwritten
    
    NewestIsServed
    TrainingEnds
