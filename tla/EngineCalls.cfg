SPECIFICATION Spec
CONSTANTS
  a = a
  b = b
  core = core
  user = user
  OSThreads = {a, b}
  VMs = {core, user}
  None = None
  MaxDepth = 6
  InitialCapacity = 2
  SizeMax = 9
  Natives <- Functions
  Programs <- MCPrograms
INVARIANTS TypeOK ArgumentsSeen CallStackTrue  NoCircularWait
PROPERTIES CallStackKept
