SPECIFICATION Spec
CONSTANTS
  Nodes = {n1, n2, n3, n4}
  Values = {a, b}
  Null = Null
  Sources <- MCSources
SYMMETRY MCSymmetry
PROPERTY
  AddedLastIsLast
