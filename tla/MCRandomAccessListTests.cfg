CONSTANTS
  Null = Null
  empty = empty  empty2 = empty2
  ba = ba  ea = ea  bb = bb  eb = eb
  Lists <- MCLists
  Node <- MCNode
  BeforeBegin <- MCBeforeBegin
  End <- MCEnd
  value <- MCvalue
  MaxInsert = 0
  MaxAmount = 8
  MaxRandom = 7
SPECIFICATION TestSpec
INVARIANTS ListTestAsserts TreeIsSound PositionsAgree
