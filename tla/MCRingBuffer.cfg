SPECIFICATION Spec
CONSTANTS
  a = a
  b = b
  N = 4
  Bytes <- TwoBytes
INVARIANTS TypeOK SizesAgree AssertionsHold WriterApart
PROPERTY FifoSpec
