CONSTANTS
  Null = Null
  list = list  before_begin = before_begin  end = end
  n1 = n1  n2 = n2  n3 = n3  n4 = n4  n5 = n5  n6 = n6
  Lists <- MCLists
  Node <- MCNode
  BeforeBegin <- MCBeforeBegin
  End <- MCEnd
  value <- MCvalue
  MaxInsert = 2
SPECIFICATION Spec
INVARIANTS AvlBalanced
SYMMETRY NodeSymmetry
