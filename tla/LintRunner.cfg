SPECIFICATION FairSpec
CONSTANTS
    TaskLists <- MCTaskLists
    MaxMiB = 6
    Parallelism = 2
    InitialUsage = 1
    ProcessLimit = 8
    Usages = {0, 1, 4, 7}
    Headrooms = {0, 3, 8}
    Cpus = {1, 2, 3}
    MostCpus = 3
    Statuses = {0, 1, 2}
    Patience = 2
INVARIANTS
    BudgetRespected
    CountersExact
    SettledIsQuiet
    SuccessIsComplete
PROPERTIES
    StopIsFinal
    AdmitsInOrder
    StopSettles
    Settles
