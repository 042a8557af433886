SPECIFICATION Spec
CONSTANTS
  loader = loader background = background host = host
  NoFile = NoFile Unknown = Unknown Undocumented = Undocumented
  Newline = Newline NoText = NoText Nobody = Nobody Absent = Absent
  Threads <- AllThreads Loader = loader Background = background
  Files <- SomeFiles ValueOf <- ValueOfNumeral StackChars <- SomeChars StackTimes <- SomeTimes Peers <- AnyPeer
  MaxRows = 1 MaxTicks = 1 MaxCalls = 1 MaxRestarts = 1
INVARIANT RulesAsWritten
