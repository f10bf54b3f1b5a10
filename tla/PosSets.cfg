SPECIFICATION Spec
CONSTANTS
  a = a
  b = b
  c = c
  d = d
  Validator = {a, b, c, d}
  max_validator_slots = 2
  validator_stake_threshold = 1
  tm_votes_per_token <- OneVotePerToken
  pipeline_len = 2
  LastEpoch = 4
  slash_processing_epoch_offset = 5
  GenesisStake <- ThreeStakes
  AddressOrder <- Abcd
  Amount = {0, 1}
  Transactions = {"bond", "unbond", "become", "key", "deactivate", "reactivate", "unjail"}
  Evidence = {}
  Heights = {1}
  MaxEpoch = 2
  BusyEpochs = {0, 1, 2}
  MaxOps = 3
INVARIANTS TypeOK NoPanic StatesMatchSets LargestStakes CometInStep UpdatesAccepted
CHECK_DEADLOCK FALSE
