CONSTANTS
  base = base
  derived = derived
  o1 = o1
  o2 = o2
  p = p
  q = q
  Objects = {o1, o2}
  Props = {p, q}
  Values = {0, 1}
  Scripts <- BothScripts
  Bases <- BasesOf
  Modes <- AllModes
  Default = 0
  Unset = Unset
  NoScript = NoScript
  NoState = NoState
  MayLeave = FALSE
SPECIFICATION Spec
INVARIANTS TypeOK ScriptKept StateKept NothingPending PlaceholdersListed
