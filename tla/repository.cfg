SPECIFICATION Spec
CONSTANTS
    Process = {p1, p2}
    Nobody = Nobody
    Missing = Missing
    r1 = r1
    r2 = r2
    pkg = pkg
    Uri = {r1, r2}
    Package = {pkg}
    Version = {1, 2, 3}
    Text <- AsNumbers
    Offer <- Offers
    Listing <- Listings
    AtFirst = {0, 1}
    MaxChanges = 1
    Commands = {"update", "upgrade", "name"}
    Faults = {"network", "disk", "script", "kill"}
SYMMETRY Alike
INVARIANTS
    ListIsPublished
PROPERTIES
    UpgradeOnlyRaises
CHECK_DEADLOCK FALSE
