SPECIFICATION Spec
CONSTANTS
  eth0 = eth0
  eth1 = eth1
  AnyIface = AnyIface
  NumSockets = 1
  Nics <- TwoNics
  Iface <- OnFirst
  Filtered = TRUE
  RxCap = 1
  Wrap = 1
  MaxSig = 1
INVARIANT FilteredOrTagged
