SPECIFICATION BSpec
CONSTANTS
  NoVal = NoVal
  MaxVBs = 10
  MaxIndex = 10
  MaxTied = 0
  MaxSyncs = 0
  MaxExclusive = 0
  MaxHandoffs = 0
  Executes <- Unchecked
  Programs <- OutlivingPrograms
INVARIANT
  OperandsIntact
