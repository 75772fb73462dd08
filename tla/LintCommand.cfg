SPECIFICATION FairSpec
CONSTANTS
    root = root
    p1 = p1
    p2 = p2
    p3 = p3
    p4 = p4
    n1 = n1
    n2 = n2
    Root = root
    Packages <- MCPackages
    Nested <- MCNested
    PackageOf <- MCPackageOf
    reservation <- MCReservation
    MaxMiB = 6
    BaseUsage = 1
INVARIANTS
    LeasesCoverWork
    EndedHoldNothing
PROPERTY EveryCommandEnds
