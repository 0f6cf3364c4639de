SPECIFICATION Spec
CONSTANTS
  Configs <- DnsConfigs
  Broken = Broken
  Privileged = {"a"}
  Conns = {c1}
  MaxTasks = 10
  MaxReloads = 1
INVARIANT StillPresentKept
CHECK_DEADLOCK FALSE
