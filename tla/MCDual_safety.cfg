SPECIFICATION Spec
CONSTANTS
    Runs = {agent, web}
    Revs = {r1, r2}
    NoRev = NoRev
    None = None
    TryLimit = 1
    MaxDowns = 1
    MaxStarts = 2
INVARIANTS TypeOK NoBrick  
PROPERTIES ConfirmsWhatRuns KeepsTwoImages
CHECK_DEADLOCK FALSE
SYMMETRY Symmetry
