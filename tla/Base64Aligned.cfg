SPECIFICATION Spec
CONSTANTS
  BufferSize = 6
  MaxSize = 20
INVARIANTS ChunkFits NeverTooShort ExactWhenAligned
