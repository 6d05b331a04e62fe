SPECIFICATION Spec
CONSTANTS
  ByteRange = 4
  PinRange = 4
  Banks = 4
  CacheSize = 2
  GarbledWords <- MCGarbledWords
  WordBytes = 2
  ReplyBytes = 2
  PinBits = 2
  bankID = 1
  bank_id = 1
  Accounts <- MCAccounts
  Requests <- MCRequests
  FirstCash = 9
  MaxServices = 2
  MaxUpsets = 1
CHECK_DEADLOCK FALSE
PROPERTY CacheModeEnds
