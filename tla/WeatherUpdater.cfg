SPECIFICATION FairSpec
CONSTANTS
  Endpoints = {e1, e2}
  Cities = {oulu, rovaniemi}
  DefaultCity = oulu
  Colours = {cyan, yellow}
  Cold = yellow
  Users = red
  MaxEvents = 2
  MaxFaults = 1
INVARIANT IntrudesOnlyWhenOvertaken
PROPERTY LoopGoesOn
PROPERTY WeatherIsShown
CHECK_DEADLOCK FALSE
