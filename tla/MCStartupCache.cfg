SPECIFICATION FairSpec
CONSTANTS
    base = base
    refused = refused
    own = own
    Shaders = {base, refused, own}
    Discs <- MCDiscs
    Static = {}
    Variants <- MCVariants
    Rejected = {refused}
    MaxTroubles = 3
INVARIANTS
    TypeOK
    BundleFaithful
PROPERTIES
    WarmIsCold
    WarmInTheEnd
