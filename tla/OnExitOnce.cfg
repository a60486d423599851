SPECIFICATION ToolSpec
CONSTANTS
  unlink_tmp = unlink_tmp
  rm_rf_dir = rm_rf_dir
  kill_nbd = kill_nbd
  Actions <- MCActions
  Prio <- MCPrio
  Signals <- MCSignals
  Kill = kill_nbd
  Cmds = 2
  Codes = {"exit0", "exit1"}
  Pids = {"p1", "p2", "p3"}
INVARIANT PerformedOnce
CHECK_DEADLOCK FALSE
