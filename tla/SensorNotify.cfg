SPECIFICATION FairSpec
CONSTANT
  NumSensors = 1
  SEND_DELAY = 2
  NumberSize = 3
  Tokens = {t1, t2}
CHECK_DEADLOCK FALSE
INVARIANT CarriesLatestToken
INVARIANT NumbersAdvance
PROPERTY ReadyIsNotified
