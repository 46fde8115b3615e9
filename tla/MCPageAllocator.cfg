SPECIFICATION Spec
CONSTANTS
    Threads = {t1, t2}
    Nobody = Nobody
    NPages = 4
    Alignments <- MCAlignments
    NoHint = NoHint
INVARIANTS
    TypeOK
    AllocationsDisjoint
    PagesAccounted
PROPERTY ImplementsReservations
SYMMETRY Symmetry
