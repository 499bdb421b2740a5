SPECIFICATION FairSpec
CONSTANTS
    NULL = NULL
    plain = plain
    other = other
    spaced = spaced
    FileNames = {plain, other, spaced}
    Sanitized <- Underscored
    Shipped <- OneShipped
    VendorIds = {9, 161, 311, 2352}
    BuiltinVendors = {311, 2352}
    FallbackVendors = {311}
    Uploads <- EveryUpload
    Workers = {w1, w2}
INVARIANTS
    TypeOK
    VendorsUnique
    RadiusCatchesUp
PROPERTIES
    RadiusReturns
