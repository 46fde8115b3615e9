SPECIFICATION Spec
CONSTANTS
    base = base
    refused = refused
    own = own
    Shaders = {base, refused, own}
    Discs <- MCDiscs
    Static = {}
    Variants <- MCVariants
    Rejected = {refused}
    MaxTroubles = 1
INVARIANTS
    CertifiedIsComplete
