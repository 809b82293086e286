SPECIFICATION Spec
CONSTANTS
  Platforms <- MCPlatforms
  Functions <- MCFunctions
  Workload <- MCWorkload
  Resource <- MCResource
  Tile = 2
  ReductionConfig = 7
INVARIANTS
  LookupsExact
  StagesOrdered
  GroupsAreComponents
  TripsBounded
  NoPartialTile
  FootprintCovers
  OneStridedAxis
  WorkMeasured
