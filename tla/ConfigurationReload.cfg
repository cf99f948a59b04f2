CONSTANTS
    Agents = {a1}
    Platforms = {p1, p2}
    Savers = {s1, s2}
    NULL = NULL
    MaxOwners = 2
    MaxPreviews = 2
SPECIFICATION Spec
SYMMETRY SymmetricReload
CHECK_DEADLOCK FALSE
INVARIANTS
    ReloadTypeOK
    OwnerRetiresQuietly
    ExemptionIsTheRestorations
    TrustIsConfirmed
    FenceIsTheSaves
PROPERTIES
    BoundForTheProfile
