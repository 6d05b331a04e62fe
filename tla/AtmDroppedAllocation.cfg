SPECIFICATION Spec
CONSTANTS
    ByteRange = 4
    PinRange = 2
    Banks = 2
    CacheSize = 2
    GarbledWords <- MCGarbledWords
    Value <- MCValue
    IntRange = 128
    Rounds = 3
    WordBytes = 2
    N = 1
    MaxBlinks = 1
    TimeOut = 4
    BankIds = {0}
    Requests <- SlowRequests
    StatusCodes = {1, 2, 3}
    HostWords <- SlowHostWords
    SetupWords <- MCSetupWords
    MaxCustomers = 3
INVARIANTS
    RefusedOnlyWhenUnpayable
