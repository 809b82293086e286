SPECIFICATION MSpec
CONSTANTS
  Kernels <- AllKernels
  Meshes <- AllMeshes
  Launches <- RunOn
  HardConstraints = TRUE
INVARIANTS
  EveryCoreHasAPlace
  EveryIterationRuns
  OnlyTheLastIsRedone
  GatherIsWhole
  NoCoreStuck
  SameTile
  RegionsAgree
