SPECIFICATION Spec
CONSTANTS
  SampleCount = 5 Duration = 6 Second = 6 Limit = 6
  Results <- NoneOrSix Chunk = 6 Horizon = 14
INVARIANT SpeedNotOverstated
