SPECIFICATION Spec
CONSTANTS
  BufferSize = 4
  MaxSize = 13
INVARIANTS SizeOfBody
