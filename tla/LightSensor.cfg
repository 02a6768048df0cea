SPECIFICATION LightSpec
CONSTANTS
  Main = main
  Threads = {main, other}
  Samples <- DarkAndBright
  Base = 2
  Repeat = 2
INVARIANT ReadingIsMeasured
PROPERTY KeepsPromise
