------------------------------ MODULE PosChain ------------------------------
(***************************************************************************)
(* Proof of stake on a running chain: the blocks of the epochs, with their *)
(* evidence, absences and transactions, and CometBFT's validator set.      *)
(*                                                                         *)
(* crates/proof_of_stake/src/{lib,slashing}.rs, driven by the shell's      *)
(* FinalizeBlock (crates/apps/src/lib/node/ledger/shell).                  *)
(*                                                                         *)
(* A block has two steps: BeginBlock with what CometBFT reports, then its  *)
(* transactions, then EndBlock. The countdown to the next epoch is that of *)
(* Epochs. The amounts slashed are inputs; who is slashed, and when, is    *)
(* computed.                                                               *)
(***************************************************************************)
EXTENDS Staking

CONSTANTS
  GenesisStake,      \* of the genesis validators, a sequence of [val, stake]
  AddressOrder,      \* the order of the validators' addresses, a sequence
  Amount,            \* the amounts of transactions and slashes
  Transactions,      \* the kinds of transactions that occur
  Evidence,          \* when evidence arrives: a subset of {"first", "later"}
  Heights,           \* heights at which a validator misbehaves in an epoch
  MaxEpoch,
  BusyEpochs,        \* the epochs in which transactions and reports occur
  MaxOps             \* how many of them occur in all

ASSUME ChainAssumption == LastEpoch = MaxEpoch + pipeline_len

VARIABLES
  epoch, delay,      \* block.epoch, update_epoch_blocks_delay
  block,             \* "open": taking transactions, or "ended"
  s,                 \* the storage of proof of stake
  comet,             \* CometBFT's validator set: [key, power]
  updates,           \* the updates sent and not yet in force
  last_slash,        \* validator_last_slash_epoch, or None
  enqueued,          \* enqueued_slashes: [val, epoch, height]
  redelegations,     \* outgoing redelegations: [src, dest, amount, start]
  ops                \* how many of MaxOps have occurred

vars == <<epoch, delay, block, s, comet, updates, last_slash, enqueued,
          redelegations, ops>>

pipeline == epoch + pipeline_len

-----------------------------------------------------------------------------
(* Genesis validators become validators and bond with an offset of zero;   *)
(* their sets are copied up to the pipeline epoch.                         *)
EmptyStore ==
  [cons |-> [e \in Epoch |-> {}], bcap |-> [e \in Epoch |-> {}],
   positions |-> [e \in Epoch |-> [v \in Validator |-> None]],
   state |-> [v \in Validator |-> [e \in Epoch |-> Unset]],
   key |-> [v \in Validator |-> [e \in Epoch |-> Unset]],
   stake |-> [v \in Validator |-> [e \in Epoch |-> 0]],
   active |-> [e \in Epoch |-> 0], panic |-> FALSE]

copy_genesis_validator_sets(st) ==
  FoldLeft(copy_validator_sets_and_positions, st, EpochsFrom(1, pipeline_len))

GenesisStore ==
  LET became == FoldLeft(LAMBDA st, g : become_validator(st, g.val, "k0", 0),
                         EmptyStore, GenesisStake)
  IN  copy_genesis_validator_sets(
        FoldLeft(LAMBDA st, g : bond_tokens(st, g.val, g.stake, 0),
                 became, GenesisStake))

Init ==
  /\ epoch = 0 /\ delay = None /\ block = "open"
  /\ s = GenesisStore
  /\ comet = genesis_validator_set_tendermint(s)
  /\ updates = << >>
  /\ last_slash = [v \in Validator |-> None]
  /\ enqueued = {} /\ redelegations = {} /\ ops = 0

-----------------------------------------------------------------------------
(* CometBFT replaces the power of a known key, adds a new key and removes  *)
(* a key whose power becomes zero.                                         *)
Adopt(set, ups) ==
  LET named == {ups[i].key : i \in DOMAIN ups}
  IN  {c \in set : c.key \notin named} \union
      {u \in {ups[i] : i \in DOMAIN ups} : u.power > 0}

(* Evidence of what a validator did at a height of an earlier epoch is     *)
(* recorded once; the validator is jailed for each new one.                *)
RecordEvidence(st, ev, e, update_epoch_) ==
  IF ev \in enqueued THEN st ELSE jail_validator(st, ev.val, e, update_epoch_)

JailIdle(st, v, e, update_epoch_) ==
  IF state_of(st, v, update_epoch_) = Jailed THEN st
  ELSE jail_validator(st, v, e, update_epoch_)

(* The validators slashed at the start of epoch e, and those that hold     *)
(* stake redelegated from them around the infraction.                      *)
Slashed(queue, e) ==
  {x.val : x \in {y \in queue : y.epoch + slash_processing_epoch_offset = e}}

RedelegationsSlashed(queue, e) ==
  {r \in redelegations :
     /\ r.src \in Slashed(queue, e)
     /\ in_redelegation_slashing_window(e - slash_processing_epoch_offset,
                                        r.start, r.start + pipeline_len)}

RedelegatedTo(queue, e) == {r.dest : r \in RedelegationsSlashed(queue, e)}

(* Of the slashed the amount from epoch e on, of the destinations from the *)
(* next epoch on.                                                          *)
process_slashes(st, queue, e, own, moved) ==
  LET slashed == Slashed(queue, e)
      dests == RedelegatedTo(queue, e)
      amounts(v) == [x \in e..(e + pipeline_len) |->
                       (IF v \in slashed THEN own ELSE 0) +
                       (IF v \in dests /\ x > e THEN moved ELSE 0)]
      One(acc, v) ==
        IF v \notin slashed \union dests THEN acc
        ELSE ApplySlash(acc, v, amounts(v), IF v \in slashed THEN e ELSE e + 1,
                        e + pipeline_len)
  IN  FoldLeft(One, st, AddressOrder)

(* The amounts do not exceed the stakes they are taken from, nor what was  *)
(* redelegated.                                                            *)
Covered(st, queue, e, own, moved) ==
  LET slashed == Slashed(queue, e)
      dests == RedelegatedTo(queue, e)
  IN  /\ \A r \in RedelegationsSlashed(queue, e) : moved <= r.amount
      /\ \A v \in slashed \union dests, x \in e..(e + pipeline_len) :
           st.stake[v][x] >= (IF v \in slashed THEN own ELSE 0) +
                             (IF v \in dests THEN moved ELSE 0)

(* The consensus validators of this epoch and of the last.                 *)
Voters(e) == Members(s.cons[e]) \union
             (IF e > 0 THEN Members(s.cons[e - 1]) ELSE {})

(* Misbehaviour of consensus validators at heights below this block's.     *)
PossibleEvidence(e, is_new_epoch) ==
  {[val |-> v, epoch |-> ie, height |-> h] :
     v \in Voters(e), ie \in {e - 1, e} \ (IF is_new_epoch THEN {e} ELSE {}),
     h \in Heights}

Genuine(ev) == ev.epoch >= 0 /\ ev.val \in Members(s.cons[ev.epoch])

AtMostOne(set) == {{}} \union {{x} : x \in set}

(* PoS finalize_block: the copy of the sets, evidence, the slashes due and *)
(* the validators absent for too long, in this order.                      *)
finalize_block(st, e, is_new_epoch, update_epoch_, evs, idle, own, moved) ==
  LET copied == IF is_new_epoch
                THEN copy_validator_sets_and_positions(st, e + pipeline_len)
                ELSE st
      jailed == FoldSet(LAMBDA ev, acc : RecordEvidence(acc, ev, e, update_epoch_),
                        copied, evs)
      queue == enqueued \union evs
      slashed == IF is_new_epoch
                 THEN process_slashes(jailed, queue, e, own, moved) ELSE jailed
  IN  FoldSet(LAMBDA v, acc : JailIdle(acc, v, e, update_epoch_), slashed, idle)

(* The start of the block in which the countdown stands at d.              *)
BeginBlock(d, evs, idle, own, moved) ==
  LET new == d = 0
      e == IF new THEN epoch + 1 ELSE epoch
      left == IF new THEN None ELSE d
      fresh == evs \ enqueued
      queue == enqueued \union evs
  IN  /\ block = "ended" /\ comet # {}
      /\ e <= MaxEpoch
      /\ evs \union idle # {} => e \in BusyEpochs
      /\ ops + Cardinality(evs) + Cardinality(idle) <= MaxOps
      /\ (new /\ Slashed(queue, e) # {}) \/ (own = 0 /\ moved = 0)
      /\ evs \subseteq {ev \in PossibleEvidence(e, new) : Genuine(ev)}
      /\ evs # {} => (IF new THEN "first" ELSE "later") \in Evidence
      /\ idle \subseteq Voters(e)
      /\ Covered(s, queue, e, own, moved)
      /\ epoch' = e /\ delay' = left /\ block' = "open"
      /\ s' = finalize_block(s, e, new,
                get_validator_set_update_epoch([epoch |-> e, delay |-> left]),
                evs, idle, own, moved)
      /\ comet' = IF new THEN Adopt(comet, updates) ELSE comet
      /\ updates' = IF new THEN << >> ELSE updates
      /\ last_slash' = [v \in Validator |->
           IF \E ev \in fresh : ev.val = v /\ ev.epoch > last_slash[v]
           THEN (CHOOSE ev \in fresh : ev.val = v).epoch ELSE last_slash[v]]
      /\ enqueued' = queue
      /\ ops' = ops + Cardinality(evs) + Cardinality(idle)
      /\ UNCHANGED redelegations

(* The shell sends the next epoch's updates at the end of the block that   *)
(* queues the switch.                                                      *)
EndBlock ==
  /\ block = "open" /\ block' = "ended"
  /\ updates' = IF delay = EPOCH_SWITCH_BLOCKS_DELAY
                THEN validator_set_update_comet(s, epoch) ELSE updates
  /\ UNCHANGED <<epoch, delay, s, comet, last_slash, enqueued, redelegations, ops>>

-----------------------------------------------------------------------------
(* A transaction takes effect at the pipeline epoch.                       *)
Transact(kind, store) ==
  /\ block = "open" /\ kind \in Transactions
  /\ epoch \in BusyEpochs /\ ops < MaxOps
  /\ s' = store /\ ops' = ops + 1
  /\ UNCHANGED <<epoch, delay, block, comet, updates, last_slash, enqueued>>

is_validator(v) == \E e \in Epoch : s.key[v][e] # Unset
Frozen(v) == is_validator_frozen(last_slash[v], epoch)

Bond(v, amount) ==
  /\ amount > 0 /\ state_of(s, v, pipeline) # Unset
  /\ Transact("bond", bond_tokens(s, v, amount, pipeline))
  /\ UNCHANGED redelegations

(* More tokens unbonded than are bonded.                                   *)
Unbond_Unbounded(v, amount) ==
  /\ amount > 0 /\ is_validator(v) /\ ~Frozen(v)
  /\ Transact("unbond", unbond_tokens(s, v, amount, pipeline))
  /\ UNCHANGED redelegations

Unbond(v, amount) ==
  /\ amount > 0 /\ is_validator(v) /\ ~Frozen(v)
  /\ amount <= s.stake[v][pipeline]
  /\ Transact("unbond", unbond_tokens(s, v, amount, pipeline))
  /\ UNCHANGED redelegations

Redelegate(src, dest, amount) ==
  /\ amount > 0 /\ src # dest /\ is_validator(src) /\ is_validator(dest)
  /\ ~Frozen(src) /\ amount <= s.stake[src][pipeline]
  /\ Transact("redelegate", redelegate_tokens(s, src, dest, amount, pipeline))
  /\ redelegations' =
       redelegations \union {[src |-> src, dest |-> dest, amount |-> amount,
                              start |-> epoch]}

Become(v) ==
  /\ ~is_validator(v)
  /\ Transact("become", become_validator(s, v, "k0", pipeline))
  /\ UNCHANGED redelegations

(* try_insert_consensus_key: no key is ever used twice.                    *)
ChangeKey(v) ==
  /\ is_validator(v) /\ \A e \in Epoch : s.key[v][e] # "k1"
  /\ Transact("key", change_consensus_key(s, v, "k1", pipeline))
  /\ UNCHANGED redelegations

Deactivate(v) ==
  /\ CanDeactivate(s, v, pipeline)
  /\ Transact("deactivate", deactivate_validator(s, v, pipeline))
  /\ UNCHANGED redelegations

Reactivate(v) ==
  /\ InStateThrough(s, v, Inactive, epoch, pipeline)
  /\ Transact("reactivate", reactivate_validator(s, v, Frozen(v), pipeline))
  /\ UNCHANGED redelegations

(* Eligible when every slash of the validator has been processed.          *)
Unjail(v) ==
  /\ InStateThrough(s, v, Jailed, epoch, pipeline) /\ ~Frozen(v)
  /\ Transact("unjail", unjail_validator(s, v, pipeline))
  /\ UNCHANGED redelegations

Next ==
  \/ \E d \in (IF delay = None THEN {None, EPOCH_SWITCH_BLOCKS_DELAY}
               ELSE {delay - 1}) :
       \E evs \in AtMostOne(PossibleEvidence(epoch + (IF d = 0 THEN 1 ELSE 0), d = 0)),
          idle \in AtMostOne(Voters(epoch)), own \in Amount, moved \in Amount :
         BeginBlock(d, evs, idle, own, moved)
  \/ EndBlock
  \/ \E v \in Validator :
       \/ \E amount \in Amount : Bond(v, amount) \/ Unbond(v, amount)
       \/ \E dest \in Validator, amount \in Amount : Redelegate(v, dest, amount)
       \/ Become(v) \/ ChangeKey(v) \/ Deactivate(v) \/ Reactivate(v) \/ Unjail(v)

Spec == Init /\ [][Next]_vars

-----------------------------------------------------------------------------
Window == epoch..pipeline

(* Everything stored has its type.                                         *)
TypeOK ==
  /\ epoch \in 0..MaxEpoch /\ delay \in {None, 1, 2} /\ block \in {"open", "ended"}
  /\ \A e \in Epoch, v \in Validator :
       /\ s.positions[e][v] \in Nat \union {None}
       /\ s.state[v][e] \in ValidatorState \union {Unset}
       /\ s.stake[v][e] \in Nat
  /\ \A e \in Epoch : s.active[e] \in Nat
  /\ last_slash \in [Validator -> 0..MaxEpoch \union {None}]
  /\ ops \in 0..MaxOps

(* No expect() of the set operations fails: a validator that is removed    *)
(* has a position, and there is a consensus validator to demote.           *)
NoPanic == ~s.panic

(* In every epoch from now to the pipeline epoch, a validator is an        *)
(* element of a set just when its state there says so, once, with its      *)
(* stake and its position; a validator in neither set has no position.     *)
StatesMatchSets ==
  \A e \in Window, v \in Validator :
    LET inCons == {x \in s.cons[e] : x.val = v}
        inBcap == {x \in s.bcap[e] : x.val = v}
        entry == [stake |-> s.stake[v][e], pos |-> s.positions[e][v], val |-> v]
        st == state_of(s, v, e)
    IN  /\ inCons = IF st = Consensus THEN {entry} ELSE {}
        /\ inBcap = IF st = BelowCapacity THEN {entry} ELSE {}
        /\ inCons \union inBcap = {} => s.positions[e][v] = None

(* The pipeline epoch's consensus set holds the largest stakes: it is full *)
(* when there is anyone below capacity, no one below capacity has more     *)
(* than a member, and only stakes under the threshold are left out.        *)
LargestStakes ==
  LET cons == s.cons[pipeline]
      bcap == s.bcap[pipeline]
  IN  /\ Cardinality(cons) <= max_validator_slots
      /\ bcap # {} => Cardinality(cons) = max_validator_slots
      /\ \A x \in cons, y \in bcap : x.stake >= y.stake
      /\ \A x \in cons \union bcap : x.stake >= validator_stake_threshold
      /\ \A v \in Validator : state_of(s, v, pipeline) = BelowThreshold =>
           s.stake[v][pipeline] < validator_stake_threshold

(* CometBFT's set is the consensus set of the epoch under way, with its    *)
(* keys and voting powers, from the first block of the epoch to the last.  *)
CometInStep ==
  comet = {u \in {Update(s, x.val, epoch, into_tm_voting_power(x.stake)) :
                    x \in s.cons[epoch]} : u.power > 0}

(* CometBFT accepts the updates: no key twice, and no removal of a key     *)
(* that is not in its set.                                                 *)
UpdatesAccepted ==
  /\ \A i, j \in DOMAIN updates : updates[i].key = updates[j].key => i = j
  /\ \A i \in DOMAIN updates : updates[i].power = 0 =>
       \E c \in comet : c.key = updates[i].key

(* Slashes and the redelegations they reach leave all of this as it is:    *)
(* the states match the sets, the largest stakes are in the consensus set  *)
(* and CometBFT follows by updates that it accepts (process_slashes).      *)
SetsConsistent ==
  StatesMatchSets /\ LargestStakes /\ CometInStep /\ UpdatesAccepted

(* A validator with an infraction that is not yet slashed is jailed from   *)
(* the first epoch whose set can still change to the pipeline epoch,       *)
(* whatever transactions and reports follow its evidence.                  *)
FrozenOut ==
  LET from == get_validator_set_update_epoch([epoch |-> epoch, delay |-> delay])
  IN  \A v \in Validator : Frozen(v) => InStateThrough(s, v, Jailed, from, pipeline)

=============================================================================
