SPECIFICATION EstablishedSpec
CONSTANTS
  a1 = a1
  a2 = a2
  a3 = a3
  k0 = k0
  k1 = k1
  k2 = k2
  Address = {a1, a2, a3}
  Key = {k0, k1, k2}
  KeyOrder <- MCKeyOrder
  Bootstrap = k0
  ZeroKey = ZeroKey
  NoAddress = NoAddress
  Subnet = {}
  Tx = {1, 2, 3, 4}
  Amount = {}
  Grant = {}
  Fee = 4
  AdminBalance = 8
  MaxBalance = 1000
  MaxBatch = 2
CONSTRAINT HashesInOrder
INVARIANTS
  CandidatesAreFound
