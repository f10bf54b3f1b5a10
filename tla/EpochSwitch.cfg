SPECIFICATION Spec
CONSTANTS
  Duration <- MCDuration
  Step = {1, 3}
  initial <- MCinitial
  MaxHeight = 8
INVARIANTS
  TypeOK
  ValidatorsMatchEpoch
  UpdateEpochIsFirstUnsent
  PredEpochsAgree
  ValsetUpdWithinEpoch
PROPERTIES
  ReplayRepeats
  DurationFixedInEpoch
