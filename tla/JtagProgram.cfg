SPECIFICATION Spec
CONSTANTS
  ByteBits = 2
  ENDPOINT_SIZE = 2
  BUF_SIZE = 4
  Answers <- MCAnswers
  Configuration <- MCConfiguration
  StartUpBytes = 3
  Wiring <- MCWiring
  MaxTries = 3
  IdBytes = 2
  ArraySize = 1
  MaxBlocks = 3
  BlockBytes = 1
  HwPins <- MCHwPins
  BbPins <- MCBbPins
  Sessions <- MCSessions
  MaxSessions = 2
  MaxKills = 1
INVARIANTS TypeOK ChainSeesTheProgram VerdictIsRight OkMeansConfigured
PROPERTY SessionEnds
