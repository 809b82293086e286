SPECIFICATION MSpec
CONSTANTS
  Kernels <- MappedKernels
  Meshes <- OddMeshes
  Launches <- RunOn
  HardConstraints = TRUE
INVARIANTS
  FullMeshIsOffered
