SPECIFICATION EpochedSpec
CONSTANTS
  Delta = {1, 2}
  EpochedValue = {"a", "b"}
  future_epochs = 1
  PastEpochs = {1, 2}
  MaxDataEpoch = 4
  MaxWrites = 4
INVARIANT CurrentSumExact
CHECK_DEADLOCK FALSE
