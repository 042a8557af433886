SPECIFICATION Spec
CONSTANTS
  t1 = t1 t2 = t2 s1 = s1 s2 = s2 s3 = s3 near = near far = far None = None
  Threads <- TwoThreads Sockets <- TwoSockets Endpoints <- TwoAddresses Nowhere = far Addresses <- TwoAddresses AddressOf <- OwnAddress
  IdSockets <- TwoSockets NRules = 2 Kind <- CfgKinds Amount <- AmountOne Matching <- LastNotFar Garbage <- AnyCount Floor <- FloorZero
SYMMETRY RunSymmetry
INVARIANTS TypeOK RegisteredUnlessWild NeverOvercounts
PROPERTY RaisedOnlyBelowLimit
