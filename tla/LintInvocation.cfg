SPECIFICATION InvocationSpec
CONSTANTS
    Files = {1, 2, 3, 4}
    Orders <- MCOrders
    Sizes = {0, 1, 3}
    Findings <- MCFindings
    Bytes <- MCBytes
    Capacities = {2, 3, 5}
    FilesPerShard = 1
    Policies <- MCPolicies
    DashDashed <- MCDashDashed
    Dashed <- MCDashed
    Numbers <- MCNumbers
    FlagNames = {"--vue-plugin"}
    ValueNames = {"-c", "--config"}
    Mib = 2
    MaxSafe = 100
    Unknown <- NotANumber
    Usages <- MCUsages
    Commands <- MCCommands
    THREAD_MEMORY_MIB = 4
    COMMAND_MEMORY_MIB = 3
    MINIMUM_WORKER_MIB = 2
    RESERVATION_MARGIN_MIB = 1
INVARIANTS
    Balanced
    NothingDropped
    AsOneProcess
    ReservationFits
    EngineSeesTheRest
    SplitLosesNothing
