\* main returns when a step of the start fails; an interrupt that comes too late ends the model.
CONSTANTS
    Builds <- AllBuilds
    DhcpTimeout = 2
    CoarseTicks = 3
    RESET_RX_CNTR_LIMIT = 5
    ETH_LINK_DETECT_INTERVAL = 4
SPECIFICATION Spec
INVARIANTS TypeOK ClocksProgrammed NoTransferOutlivesItsFunction AddressWhenServing
PROPERTY KeepsServing
CHECK_DEADLOCK FALSE
