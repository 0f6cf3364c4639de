SPECIFICATION FairSpec
CONSTANTS
  Tasks = {t1, t2}
  t1 = t1
  t2 = t2
  Peers <- MCPeers
  Addr <- MCAddr
  Weight <- MCWeight
  Backups = {3}
  DownPeers = {4}
  ClientHash <- MCHash
  MaxFails = 1
  FailTimeout = 1
  MaxTime = 2
  None = None
  Methods = {"round_robin", "least_conn", "ip_hash"}
  KindsOf <- MCKinds
INVARIANTS TypeOK InFlightExact DownPeersUnused CooldownBounded
PROPERTY KeepsContract AttemptsEnd
CHECK_DEADLOCK FALSE
