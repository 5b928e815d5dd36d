CONSTANTS
    d1 = d1
    d2 = d2
    d3 = d3
    Clients = {c1, c2}
    Names = {n1, n2}
    Digests = {d1, d2, d3}
    Offers <- MCOffers
    None = None
    MaxBegun = 3
    MaxCrashes = 1
SPECIFICATION Spec
SYMMETRY Symmetry
INVARIANTS
    TypeOK
    BlobsAreKept
CHECK_DEADLOCK FALSE
