SPECIFICATION Spec
CONSTANTS
  Managers <- MCManagers
  Pids     <- MCPids
  Callers  = {c1}
INVARIANT OnlySelected
