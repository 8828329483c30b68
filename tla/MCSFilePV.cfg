CONSTANTS
    k1 = k1
    k2 = k2
    b1 = b1
    b2 = b2
    Nil = Nil
    Torn = Torn
    MaxReleased = 2
    PrivKeys <- MCKeys
    Blocks <- MCBlocks
    Heights <- MCHeights
    Rounds <- MCRounds
    Times <- MCTimes
SPECIFICATION SignerSpec
INVARIANTS
    SignerTypeOK
    NoDoubleSign
    SignatureMatches
    NeverHalfSigned
CONSTRAINT MCBound
SYMMETRY MCSymmetry
PROPERTY SignStateAdvances
\* A node whose key file is torn, or whose state file is missing, never starts again.
CHECK_DEADLOCK FALSE
