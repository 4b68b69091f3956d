SPECIFICATION Spec
CONSTANTS
  MaxPid = 2
  MaxTasks = 3
  MaxSlots = 2
  MaxKeys = 1
  Signals <- InterruptSignals
  Dispositions = {"IGN", "HANDLER"}
  Calls = {"fork", "exit", "read", "ipc", "signal", "alarm"}
  Groups = {}

  
PROPERTIES
  InterruptedCallIsMadeAgain
