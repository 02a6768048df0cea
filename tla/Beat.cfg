SPECIFICATION BeatFairSpec
CONSTANT
  fft = 2
  Callers = {sender, get}
  FLUXLINES = 2
  BPMSMOOTH = 1
INVARIANT BeatTypeOK
INVARIANT NoOverlap
INVARIANT SkipsOnlyUnprocessed
INVARIANT SearchedUndisturbed
PROPERTY WindowIsFresh
PROPERTY LinesGoOn
