SPECIFICATION PartsSpec
CONSTANTS
  v1 = v1
  v2 = v2
  d1 = d1
  Validator = {v1, v2}
  Core = {v1}
  Window = {2, 3}
  threshold <- MCthreshold
  Finished = {TRUE}
  MaxVoteHeight = 10
  PersistedKey = {p}
  TransientKey = {n}
  Value = {1, 2}
  MaxDbHeight = 3
  MaxRollbacks = 1
  Voter = {v1, v2}
  stake <- MCstake
  Transfer = {a, b}
  NamTransfer = {b}
  unbonding_len = 0
  min_num_of_blocks = 1
  MaxBridgeHeight = 2
  MaxBridgeEpoch = 1
  MaxEvents = 2
  MempoolTx <- MCtxs
  MaxBytes = 4
  MaxTxBytes = 3
  MaxGas = 3
  InitialFunds = 3
  MaxMempool = 3
  MaxBlockTime = 2
  GovValidator <- MCvalidators
  GovDelegator = {d1}
  self_bond <- MCself_bond
  delegation <- MCdelegation
  Kind = {"WasmOk", "WasmFails", "Retro", "AddSteward"}
  gov_pipeline = 1
  min_grace_epochs = 1
  min_voting_period = 1
  max_proposal_period = 2
  max_latency = 1
  MinFunds = {1, 2}
  author_funds = 3
  pgf_funds = 1
  retro_amount = 1
  GenesisStewards = {{}, {"author"}}
  MaxGovEpoch = 3
  MaxGovSteps = 4
  MaxDeposit = 2
  MaxMade = 2
  Delta = {1}
  EpochedValue = {"a", "b"}
  future_epochs = 1
  PastEpochs = {1, 2}
  MaxDataEpoch = 4
  MaxWrites = 3
INVARIANT NonceAlwaysIncremented
CHECK_DEADLOCK FALSE
