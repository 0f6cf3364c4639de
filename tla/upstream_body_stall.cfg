SPECIFICATION FairSpec
CONSTANTS
  Tasks = {t1, t2}
  t1 = t1
  t2 = t2
  Peers <- DupPeers
  Addr <- DupAddr
  Weight <- DupWeight
  Backups = {}
  DownPeers = {}
  ClientHash <- MCHash
  MaxFails = 2
  FailTimeout = 1
  MaxTime = 2
  None = None
  Methods = {"least_conn", "ip_hash"}
  KindsOf <- CachedGets
PROPERTY TimeoutCoversExchange
CHECK_DEADLOCK FALSE
