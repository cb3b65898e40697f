CONSTANTS
  VMs = {load, core}
  FirstVM = load
  StepMin = 4
  StepInc = 2
  StepMax = 11
  IntMod = 64
  Sizes <- SomeSizes
  Deltas <- WithZero
  PerSecond = 2
SPECIFICATION FairSpec
INVARIANTS TypeOK StepBounded
PROPERTIES MinKept Settles
