CONSTANTS
  Null = Null
  a = a  b = b  ba = ba  ea = ea  bb = bb  eb = eb
  n0 = n0  n1 = n1  m1 = m1  n2 = n2
  Lists <- MCLists
  Node <- MCNode
  BeforeBegin <- MCBeforeBegin
  End <- MCEnd
  value <- MCvalue
  MaxInsert = 1
SPECIFICATION Spec
INVARIANTS TypeOK SameAsPlainList TreeIsSound
SYMMETRY ListSymmetry
