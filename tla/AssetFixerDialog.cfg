\* One file, exported once.
SPECIFICATION Spec
CONSTANTS
  Files = {f1}
  Shapes <- MCShapes
  MaxExports = 1
INVARIANTS
  AutoFixed
