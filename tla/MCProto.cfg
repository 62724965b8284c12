SPECIFICATION MCProtoSpec
CONSTANTS
    Window = 3
    Needs <- MCNeeds
    Grants <- MCGrants
    Callers = {c1, c2}
    RecvWindow = 6
    Threshold = 3
    Chunk = 4
    Capacity = 2
    Total = 12
    Polices = TRUE
    MAX_CONNECT_TARGET_LEN = 4
    MAX_CONNECT_ERR_LEN = 3
    MAX_AUTH_TOKEN_LEN = 2
    MAX_DATA_PAYLOAD_LEN = 4
    Messages <- MCMessages
    Bodies <- MCBodies
    Tails <- MCTails
    IV_LEN = 2
    MaxContents = 5
    BatchSize = 3
    MaxStrays = 2
INVARIANTS
    NoLostWakeup
    NeverOverrun
    CodecInverse
    FramesDelimited
    PacketsSurvive
    ReceiverAwake
PROPERTIES
    CloseEndsAcquire
    ImplementsGate
    InOrderDelivery
    AllDelivered
CHECK_DEADLOCK FALSE
