SPECIFICATION Spec
CONSTANTS
  TensorKernels <- MCTensorKernels
  TensorInputs <- MCTensorInputs
  BufferKernels <- MCBufferKernels
  BufferContents <- MCBufferContents
  RankOne = {"c"}
  Stores = {"o", "d"}
INVARIANTS
  TensorsAsSource
  BuffersAsSource
CHECK_DEADLOCK FALSE
