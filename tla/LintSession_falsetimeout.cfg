CONSTANTS
    c1 = c1
    c2 = c2
    c3 = c3
    Clients <- ThreeClients
    Rude = {}
    MaxMiB = 5
    Parallelism = 2
    BaseUsage = 1
    Memories = {3}
    ThreadCounts = {1}
    Usages = {1, 3}
    Headrooms = {0, 4}
    Timeout = 2
    Extends = TRUE
SPECIFICATION WaitsSpec
SYMMETRY PoliteSymmetry
PROPERTIES NoFalseTimeout
