SPECIFICATION MSpec
CONSTANTS
  Kernels <- SplitK
  Meshes <- AllMeshes
  Launches <- RunOn
  HardConstraints = FALSE
INVARIANTS
  GatherIsWhole
