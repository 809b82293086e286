SPECIFICATION Spec
CONSTANTS
  NoLoop = NoLoop
  Kernels <- SourceKernels
  Alloc <- MCAlloc
  Bytes <- MCBytes
  Cores <- MCCores
  MaxDims = 2
  MaxItems = 4
INVARIANTS
  CoversCores
  VariantsDistinct
  AllStored
PROPERTY
  SourceSpec
