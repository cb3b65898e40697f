CONSTANTS
  Threads = {t1, t2}
  Tasks = {k1, k2}
  Signals = {s1}
  Durations <- WithUndefined
  Deltas <- ZeroOrOne
  Forever = 9
  NoThread = NoThread
  NoTask = NoTask
  NoSignal = NoSignal
  MaxDepth = 4
  ReentrantEmit = FALSE
  CoroutineResume = FALSE
  WaitInC = TRUE
SPECIFICATION FairSpec
PROPERTIES FrameEnds WaitEnds
