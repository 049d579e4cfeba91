SPECIFICATION Spec
CONSTANTS
  Values = {1, 2}
  Targets <- MedianOnly
  BufferSize = 500
  Unit = 5
  MaxInserts = 8
  None = None
INVARIANT GotWithinError
