SPECIFICATION BrowserSpec
CONSTANTS
  Found <- SomeModes
  MaxClicks = 2
  MaxLosses = 1
  Selections = {1, 2}
  Match <- LongAndShort
  Answers <- SomeAnswers
  Enough = 2
  Ratio <- ShortRatios
  MaxSelects = 3
INVARIANT ShowsWhatIsSet
INVARIANT ControlsAgree
INVARIANT DrawsOneAnswer
INVARIANT DrawsSelected
PROPERTY BecomesUsable
PROPERTY RestsWhenLeft
PROPERTY UpdateEnds
CHECK_DEADLOCK FALSE
