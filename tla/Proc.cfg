SPECIFICATION Spec
CONSTANTS
  MaxPid = 3
  MaxTasks = 4
  MaxSlots = 2
  MaxKeys = 0
  Signals <- JobSignals
  Dispositions = {}
  Calls = {"fork", "exec", "exit", "wait", "kill", "setpgid", "tcsetpgrp"}
  Groups = {2}
INVARIANTS
  ExitReportedOnce
  WaitIsSound
  TasksAreSound
PROPERTIES
  TerminalMovesWhenGroupIsDone
