SPECIFICATION SystemSpec
CONSTANTS
  SegmentBytes = 8
  Paragraph = 2
  LineBytes = 3
  MaxRecord = 3
  BLOCK_SIZE = 8
  EP0BUF_SIZE = 4
  BankBytes = 24
  RamBytes = 16
  HexFiles <- MCHexFiles
  MaxJobs = 3
  MaxFailures = 1
  IntMax = 127
  LongMax = 40000
  Kilo = 4
  Identity <- MCIdentity
  ChipIdentity <- MCChip
  BankIds = 32
  RamBuild <- MCRamBuild
  EepromBuild <- MCEepromBuild
  StandardVp = 9
  MaxPolls = 2
  StartLines <- MCStartLines
INVARIANTS BootsTheImage FlashLeavesTheRest NeverRunsHalfLoaded
PROPERTY StartsAsAsked
CHECK_DEADLOCK FALSE
