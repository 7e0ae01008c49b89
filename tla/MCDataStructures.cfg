SPECIFICATION MCSpec
CONSTANTS
  Values = {a, b}
  capa = 3
  Nothing = Nothing
  Null = Null
  Nodes = {n1, n2, n3, n4}
  Room = 7
  MaxCopied = 2
  Objects = {o1, o2}
  Frames = {f1, f2}
  INT_MAX = 3
SYMMETRY MCSymmetry
INVARIANTS
  EndsPointAtElements
  WellFormed
  CountsToN
PROPERTIES
  ImplementsFifo
  ImplementsDeque
  ImplementsStack
  ImplementsList
