SPECIFICATION DeviceSpec
CONSTANTS
  MaxSets = 2
  Main = main
  Connection = connection
  Sender = sender
  Threads = {main, connection, sender}
  Hold = 1
  Range = 2
INVARIANT OneMode
INVARIANT ReportedModeIsInstalled
PROPERTY StartsWhateverFails
PROPERTY NewModeComesToRun
