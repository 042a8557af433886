SPECIFICATION Spec
CONSTANTS
  t1 = t1 t2 = t2 h1 = h1 h2 = h2 logger = logger
  a1 = a1 a2 = a2 a3 = a3 c1 = c1 c2 = c2
  InvalidSocket = InvalidSocket NoHandle = NoHandle NoConn = NoConn
  Unconnected = Unconnected Null = Null
  Threads <- TwoThreads Loggers <- OneLogger Handles <- TwoHandles Conns <- TwoConns
  Addrs <- ThreeAddrs MaxLeaks = 1 Discipline = "serial"
SYMMETRY AllSymmetry
INVARIANT RefusedIsClosed
