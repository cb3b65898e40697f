CONSTANTS
  m = m
  b = b
  a = a
  load = load
  user = user
  Paths = {m, b, a}
  Modules = {m}
  VMs = {load, user}
  LoadVM = load
  VMOrder <- VMNumbers
  Projects <- MCProjects
  Spellings = {"plain"}
  NoPath = NoPath
  NoText = NoText
  MaxDepth = 12
SPECIFICATION Spec
INVARIANTS TypeOK LoadsEnd Fresh ValidTrue
