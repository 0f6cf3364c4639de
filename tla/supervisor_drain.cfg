SPECIFICATION Spec
CONSTANTS
  Configs <- MovingConfigs
  Broken = Broken
  Privileged = {"a"}
  Conns = {c1}
  MaxTasks = 10
  MaxReloads = 1
INVARIANT PlainHttpDrained
CHECK_DEADLOCK FALSE
