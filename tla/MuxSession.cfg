SPECIFICATION FairSpec
CONSTANTS
  NChan = 2
  vir_ports = 2
  CmdLines <- MCCmdLines
  Sessions = 1
  Budgets <- MCBudgets
INVARIANTS OneReader DiscsAnswered
PROPERTIES CloseHandled AllReopened ExitFollows
\* the process ends
CHECK_DEADLOCK FALSE
