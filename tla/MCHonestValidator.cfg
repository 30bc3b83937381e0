SPECIFICATION EstablishedHonestSpec
CONSTANTS
  a1 = a1
  a2 = a2
  a3 = a3
  k1 = k1
  k2 = k2
  Address = {a1, a2, a3}
  Key = {k0, k1, k2}
  Bootstrap = k0
  ZeroKey = ZeroKey
  NoAddress = NoAddress
  Subnet = {s1}
  Tx = {x1, x2}
  Amount = {10}
  Grant = {}
  Fee = 4
  AdminBalance = 20
  MaxBalance = 1000
  MaxBatch = 1
  Honest = a2
  MaxAccepted = 1
  NetworkId = net
  MsbBootstrap = k0
SYMMETRY Symmetry
CONSTRAINT OneSuccess
INVARIANTS
  PrecheckedSucceeds
  CommandsPassPrechecks
  AcceptedVerify
PROPERTIES
  PaymentsOutliveTheWait
  CopiesAreIgnored
