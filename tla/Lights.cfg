SPECIFICATION FairSpec
CONSTANTS
  Size = 2
  Max = 2
  gamma <- Gamma
  ColorFade = 1
  GeneratorFade = 1
  PixelsFade = 2
  Generators = {"spinning", "fancy"}
  MaxCalls = 2
INVARIANT ColorStopsGenerator
PROPERTY GeneratorStartsDark
PROPERTY SettlesOnWanted
