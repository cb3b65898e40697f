CONSTANTS
  Threads = {t1, t2}
  Tasks = {k1, k2, k3}
  Signals = {s1, s2}
  Durations <- OneOrTwo
  Deltas <- ZeroOrOne
  Forever = 9
  NoThread = NoThread
  NoTask = NoTask
  NoSignal = NoSignal
  MaxDepth = 5
  ReentrantEmit = TRUE
  CoroutineResume = FALSE
  WaitInC = FALSE
SPECIFICATION Spec
SYMMETRY Symmetry
INVARIANT AnswersOwnWait
