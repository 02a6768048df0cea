SPECIFICATION FairSpec
CONSTANT
  NumSensors = 1
  SEND_DELAY = 2
  NumberSize = 4
  Tokens = {t1}
CHECK_DEADLOCK FALSE
PROPERTY ObservedIsNotified
