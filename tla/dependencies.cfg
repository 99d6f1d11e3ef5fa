SPECIFICATION Spec
CONSTANTS
    World <- Worlds
INVARIANTS
    DependenciesMet
    OneVersion
    NoForcedUpgrade
    SelectedIsBest
    GivesUpRightly
PROPERTIES
    Decided
CHECK_DEADLOCK FALSE
