SPECIFICATION Spec
CONSTANTS
  Values = {a, b}
  capa = 3
  Nothing = Nothing
PROPERTY
  OfferedElementsAreThere
