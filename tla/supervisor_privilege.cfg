SPECIFICATION Spec
CONSTANTS
  Configs <- MCConfigs
  Broken = Broken
  Privileged = {"a"}
  Conns = {c1}
  MaxTasks = 10
  MaxReloads = 1
INVARIANT BoundBeforeDrop
CHECK_DEADLOCK FALSE
