SPECIFICATION Spec
CONSTANTS
  Managers <- MCManagers
  Pids     <- MCPids
  Callers  = {c1}
INVARIANTS
  TypeOK
  OneDispatcher
  SelectedServed
  RestartClean
