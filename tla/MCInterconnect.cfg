SPECIFICATION Spec
CONSTANTS
  Units <- MCUnits
  Pools <- MCPools
  Total <- MCTotal
  NoPool = "none"
  NoRequest = NoRequest
  Parts <- MCParts
  Requests <- MCRequests
INVARIANTS
  TypeOK
  UnitsBalance
  PoolsBalance
PROPERTY
  Reserves
