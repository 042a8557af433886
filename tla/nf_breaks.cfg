SPECIFICATION Spec
CONSTANTS
  t1 = t1 t2 = t2 s1 = s1 s2 = s2 s3 = s3 near = near far = far None = None
  Threads <- OneThread Sockets <- ThreeSockets Endpoints <- OneAddress Nowhere = far Addresses <- OneAddress AddressOf <- OwnAddress
  IdSockets <- NoSockets NRules = 1 Kind <- OneCounter Amount <- AmountOne Matching <- MatchAll Garbage <- Zeroed Floor <- FloorZero
INVARIANT AdmittedNotBroken
