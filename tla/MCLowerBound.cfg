SPECIFICATION MSpec
CONSTANTS
  Kernels <- Backward
  Meshes <- Pair
  Launches <- RunOn
  HardConstraints = TRUE
INVARIANTS
  SharedEquallyOften
