SPECIFICATION Spec
CONSTANTS
    process = process
    wasm = wasm
    Publishers = {p1, p2}
    Handlers <- BothHandlers
    WasmHandlers <- OnlyWasm
    Subscriptions <- Hooks
    BatchSize = 2
    MaxAttempts = 2
    MaxDeliveries = 2
    MaxFaults = 1
CHECK_DEADLOCK FALSE
INVARIANTS
    BusTypeOK
    FirstTriesInOrder
    RunsAreBounded
    GivenUpWhenExhausted
PROPERTY ImplementsDelivery
