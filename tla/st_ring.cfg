SPECIFICATION Spec
CONSTANTS
  SampleCount = 3 Duration = 2 Second = 2 Limit = 1
  Results <- ErrorOne Chunk = 1 Horizon = 10
INVARIANTS TypeOK CurrentRuns SpansDisjoint NoSampleOverstates
