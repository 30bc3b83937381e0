SPECIFICATION Spec
CONSTANTS
  Address = {a1, a2, a3}
  Key = {k0, k1}
  Bootstrap = k0
  ZeroKey = ZeroKey
  NoAddress = NoAddress
  Subnet = {s1}
  Tx = {1, 2, 3, 4, 5}
  Amount = {0, 80}
  Grant = {30, 90}
  Fee = 4
  AdminBalance = 60
  MaxBalance = 130
  MaxBatch = 1
CONSTRAINT HashesInOrder
CHECK_DEADLOCK FALSE
INVARIANTS
  HaltsOnlyOnInflation
PROPERTIES
  ImplementsSupply
