SPECIFICATION Spec
CONSTANTS
  a = a
  b = b
  c = c
  d = d
  Validator = {a, b, c, d}
  max_validator_slots = 2
  validator_stake_threshold = 1
  tm_votes_per_token <- OneVotePerToken
  pipeline_len = 2
  LastEpoch = 7
  slash_processing_epoch_offset = 5
  GenesisStake <- FourStakes
  AddressOrder <- Abcd
  Amount = {0, 2}
  Transactions = {"redelegate", "unjail"}
  Evidence = {"later"}
  Heights = {1}
  MaxEpoch = 5
  BusyEpochs = {0, 5}
  MaxOps = 3
INVARIANTS SetsConsistent FrozenOut
CHECK_DEADLOCK FALSE
