SPECIFICATION Spec
CONSTANTS
  MaxPid = 2
  MaxTasks = 4
  MaxSlots = 2
  MaxKeys = 0
  Signals <- JobSignals
  Dispositions = {}
  Calls = {"exec", "kill", "wait"}
  Groups = {2}
INVARIANT
  AddressSpacesAreReleased
