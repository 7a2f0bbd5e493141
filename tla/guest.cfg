SPECIFICATION GuestSpec
CONSTANTS
  Shells = {s1, s2}
  Execs = {e1}
  Timed = {e1}
  MaxOutput = 1
  None = None
  Quiet = {s2}
INVARIANTS ExecExitIsLast ShellsAccounted
PROPERTIES TimedExecEnds 
CHECK_DEADLOCK FALSE
