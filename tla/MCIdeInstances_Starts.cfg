SPECIFICATION Spec
CONSTANTS
  Workspaces = {w1, w2}
  Projects = {p1, p2}
  Requests = {r1, r2}
  Nobody = nobody
  MaxInstances = 1
  MaxLaunches = 2
  MaxLives = 2
SYMMETRY Symmetric
INVARIANTS
  TypeOK
  NoneForgotten
  HolderGoesOn

  
