CONSTANTS
  a = a
  b = b
  c = c
  Raw = Raw
  Value = {a, b, c}
  Capacity = 4
  Sources <- MCSources
  Offsets <- MCOffsets
SPECIFICATION Spec
INVARIANTS TypeOK SlotsMatchRange ObserversAgree
PROPERTIES IteratorStaysInRange ImplementsBoundedSequence
