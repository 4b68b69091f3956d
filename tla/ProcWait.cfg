SPECIFICATION Spec
CONSTANTS
  MaxPid = 3
  MaxTasks = 4
  MaxSlots = 2
  MaxKeys = 0
  Signals <- JobSignals
  Dispositions = {}
  Calls = {"fork", "exec", "wait", "kill", "setpgid"}
  Groups = {3}
INVARIANT
  BlockedParentHasAChild
