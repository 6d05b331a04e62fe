SPECIFICATION SyncSpec
CONSTANTS
    ByteRange = 4
    PinRange = 2
    Banks = 2
    CacheSize = 3
    GarbledWords <- MCGarbledWords
    Value <- MCValue
    IntRange = 128
    Rounds = 2
    WordBytes = 1
    N = 1
    MaxBlinks = 1
    TimeOut = 2
    BankIds = {0}
    Requests <- SyncRequests
    StatusCodes = {1, 2, 3, 4}
    HostWords <- SyncHostWords
    SetupWords <- MCSetupWords
    MaxCustomers = 3
INVARIANTS
    AsksEachOnce
PROPERTIES
    RoundRestoresPlaces
    ReplyFiledUnderCard
    RequestResolves
