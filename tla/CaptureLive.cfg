SPECIFICATION FairSpec
CONSTANTS
  eth0 = eth0
  eth1 = eth1
  AnyIface = AnyIface
  NumSockets = 2
  Nics <- OneNic
  Iface <- BothOnOne
  Filtered = FALSE
  RxCap = 1
  Wrap = 2
  MaxSig = 1
PROPERTIES NoStarvation SigtermStops
