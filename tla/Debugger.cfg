SPECIFICATION Spec
CONSTANTS
  a = a
  b = b
  core = core
  user = user
  t1 = t1
  t2 = t2
  t3 = t3
  t4 = t4
  OSThreads = {a, b}
  VMs = {core, user}
  Threads = {t1, t2, t3, t4}
  None = None
  Timeout = 2
  MaxTime = 6
  Programs <- MCPrograms
INVARIANTS
  TypeOK
  BreaksOnce
  ArmedAgree
  ShownTrue
  StepsRight
  TimeoutsFair
