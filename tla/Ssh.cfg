SPECIFICATION MCSpec
CONSTANTS
  Tabs = {t1}
  Processes = {p1}
  MaxRotations = 1
  Keepalive = TRUE
  None = None
  Transfers = {b1, b2, b3}
  SftpOps = {o1}
  Execs = {e1, e2}
  ChannelPermits = 3
  BulkPermits = 2
  Streams = {s1, s2}
INVARIANTS SshTypesOK KnownHostsSound BudgetSound
PROPERTIES StepsSound SshProgress
CHECK_DEADLOCK FALSE
