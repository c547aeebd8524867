SPECIFICATION Spec
CONSTANTS
  eth0 = eth0
  eth1 = eth1
  AnyIface = AnyIface
  NumSockets = 2
  Nics <- OneNic
  Iface <- BothOnOne
  Filtered = TRUE
  RxCap = 1
  Wrap = 3
  MaxSig = 1
INVARIANTS TypeOK QueuedOncePerSocket ReadersOnOpenSockets NothingLeftOpen InOrder
PROPERTY ImplementsStream
