CONSTANTS
    MaxHeight = 3
    MaxVersion = 5
SPECIFICATION AppSpec
CONSTRAINT MCBound
INVARIANTS
    AppliedOnce
    InfoCovered
PROPERTY ImplementsAtomic
