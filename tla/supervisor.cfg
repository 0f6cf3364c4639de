SPECIFICATION FairSpec
CONSTANTS
  Configs <- MCConfigs
  Broken = Broken
  Privileged = {"a"}
  Conns = {c1}
  MaxTasks = 10
  MaxReloads = 2
INVARIANTS TypeOK NoOrphans HttpFollowsConfig CertsNotOlder PidFileLeft ConfiguredDrained
PROPERTY StopEnds
CHECK_DEADLOCK FALSE
