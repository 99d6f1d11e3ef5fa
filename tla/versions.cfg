SPECIFICATION VersionSpec
CONSTANTS
    Input <- Inputs
    MaxInt = 4095
INVARIANTS
    Antisymmetric
    DebianOrder
    CanonicalSame
CHECK_DEADLOCK FALSE
