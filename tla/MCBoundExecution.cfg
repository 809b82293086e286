SPECIFICATION BSpec
CONSTANTS
  NoVal = NoVal
  MaxVBs = 10
  MaxIndex = 11
  MaxTied = 0
  MaxSyncs = 0
  MaxExclusive = 0
  MaxHandoffs = 0
  Programs <- AnalysedPrograms
  Executes <- Supported
INVARIANTS
  OneBufferPerValue
  HandoffsAlone
  LifetimesCovered
  PlanSound
  MembersTakeTurns
  OperandsIntact
  GiveEndsLiveness
  AllocDominates
