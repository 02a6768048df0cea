SPECIFICATION FairSpec
CONSTANTS
  Levels = {0, 1}
  Default <- DefaultColour
  Constructed <- ConstructedColour
  Sent <- SentColours
  MaxPuts = 3
INVARIANT WeatherFollowsMotion
PROPERTY ColourSettles
PROPERTY SpinsAsServed
PROPERTY ModeTakesOver
