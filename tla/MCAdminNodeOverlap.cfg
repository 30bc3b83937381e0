SPECIFICATION EstablishedAdminSpec
CONSTANTS
  a1 = a1
  a2 = a2
  a3 = a3
  a4 = a4
  k1 = k1
  Address = {a1, a2, a3, a4}
  Key = {k0, k1, k2}
  Bootstrap = k0
  ZeroKey = ZeroKey
  NoAddress = NoAddress
  Subnet = {}
  Tx = {1, 2, 3}
  Amount = {}
  Grant = {50}
  Fee = 4
  AdminBalance = 20
  MaxBalance = 1000
  MaxBatch = 1
  Self = a1
  OwnKey = k0
  List = {{a3}, {a4}, {a3, a4}}
  Line = {l1, l2}
  MaxLog = 2
  MaxFiles = 2
  NetworkId = net
  MsbBootstrap = k0
SYMMETRY Symmetry
CONSTRAINT InUse
INVARIANT RowsRunOnce
