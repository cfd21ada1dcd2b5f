SPECIFICATION Spec
CONSTANTS
  Users = {"alice", "bob"}
  Accounts = {desktop, mobile}
  DevicesOf <- MCDevicesOf
  Ranges = {"6h", "24h"}
  FirstRange = "24h"
  MaxCalls = 4
  MaxSecrets = 2
  MaxLoads = 3
  Null = Null
  Undefined = Undefined
CHECK_DEADLOCK FALSE
PROPERTY AbortedIsIgnored
