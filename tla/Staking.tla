------------------------------ MODULE Staking ------------------------------
(***************************************************************************)
(* The operations of proof of stake that move validators between the sets, *)
(* as operators on the store of ValidatorSets, and the updates of the set  *)
(* that are sent to CometBFT.                                              *)
(*                                                                         *)
(* crates/proof_of_stake/src/{lib,slashing,validator_set_update}.rs.       *)
(*                                                                         *)
(* What a bond is made of (sources, start epochs, redelegated parts) is    *)
(* left out: an amount is any amount up to the validator's stake.          *)
(***************************************************************************)
EXTENDS ValidatorSets

CONSTANT slash_processing_epoch_offset

ASSUME SlashOffsetAssumption ==
  slash_processing_epoch_offset \in Nat /\
  slash_processing_epoch_offset > pipeline_len

is_jailed_or_inactive(s, v, epoch) ==
  state_of(s, v, epoch) \in {Jailed, Inactive}

(* A change of a validator's stake: the sets first, then the sums.         *)
ChangeStake(s, v, change, epoch) ==
  LET out == is_jailed_or_inactive(s, v, epoch)
      s1 == IF out THEN s ELSE update_validator_set(s, v, change, epoch)
  IN  update_total_deltas(update_validator_deltas(s1, v, change, epoch),
                          change, epoch, ~out)

bond_tokens(s, v, amount, epoch)   == ChangeStake(s, v, amount, epoch)
unbond_tokens(s, v, amount, epoch) == ChangeStake(s, v, -amount, epoch)

(* From src to dest.                                                       *)
redelegate_tokens(s, src, dest, amount, epoch) ==
  ChangeStake(unbond_tokens(s, src, amount, epoch), dest, amount, epoch)

become_validator(s, v, key, epoch) ==
  insert_validator_into_validator_set(
    [s EXCEPT !.key[v][epoch] = key, !.state[v][epoch] = BelowThreshold],
    v, 0, epoch)

change_consensus_key(s, v, key, epoch) == [s EXCEPT !.key[v][epoch] = key]

-----------------------------------------------------------------------------
(* The next validator is promoted in the pipeline epoch only.              *)
RemoveFromSets(s, v, epoch, promote) ==
  LET state == state_of(s, v, epoch)
      removed == remove_consensus_validator(s, v, epoch)
  IN  IF state = Consensus
      THEN IF promote
           THEN promote_next_below_capacity_validator_to_consensus(removed, epoch)
           ELSE removed
      ELSE IF state = BelowCapacity
      THEN remove_below_capacity_validator(s, v, epoch)
      ELSE s

CanDeactivate(s, v, epoch) ==
  state_of(s, v, epoch) \in {Consensus, BelowCapacity, BelowThreshold}

(* The slot of the validator left empty.                                   *)
deactivate_validator_NoPromotion(s, v, epoch) ==
  set_state(RemoveFromSets(s, v, epoch, FALSE), v, Inactive, epoch)

deactivate_validator(s, v, epoch) ==
  set_state(RemoveFromSets(s, v, epoch, TRUE), v, Inactive, epoch)

InStateThrough(s, v, state, from, to) ==
  \A e \in from..to : state_of(s, v, e) = state

is_validator_frozen(last_slash, current_epoch) ==
  /\ last_slash # None
  /\ current_epoch < last_slash + slash_processing_epoch_offset

reactivate_validator(s, v, frozen, epoch) ==
  IF frozen THEN set_state(s, v, Jailed, epoch)
  ELSE insert_validator_into_validator_set(s, v, s.stake[v][epoch], epoch)

unjail_validator(s, v, epoch) ==
  insert_validator_into_validator_set(s, v, s.stake[v][epoch], epoch)

(* Jailed in the pipeline epoch only.                                      *)
JailedFrom_LastOnly(s, v, first, last) == set_state(s, v, Jailed, last)

JailedFrom(s, v, first, last) ==
  [s EXCEPT !.state[v] = [e \in Epoch |-> IF e \in first..last THEN Jailed
                                          ELSE @[e]]]

EpochsFrom(first, last) == [i \in 1..(last - first + 1) |-> first + i - 1]

(* Removed from each epoch's set first, by the state it has there; its     *)
(* state changes last.                                                     *)
jail_validator(s, v, current_epoch, update_epoch_) ==
  LET last == current_epoch + pipeline_len
  IN  JailedFrom(
        FoldLeft(LAMBDA st, e : RemoveFromSets(st, v, e, e = last),
                 s, EpochsFrom(update_epoch_, last)),
        v, update_epoch_, last)

-----------------------------------------------------------------------------
(* process_slashes takes from a validator the amounts of a map from epochs *)
(* to what is slashed up to them: the sets of every epoch first, reading   *)
(* the stakes as they were, then the sums.                                 *)
SlashSets(s, v, amounts, first, last) ==
  FoldLeft(LAMBDA st, e : IF is_jailed_or_inactive(st, v, e) THEN st
                          ELSE update_validator_set(st, v, -amounts[e], e),
           s, EpochsFrom(first, last))

SlashDeltas(s, v, amounts, first, last) ==
  FoldLeft(LAMBDA st, e :
             LET delta == amounts[e] - (IF e = first THEN 0 ELSE amounts[e - 1])
             IN  update_total_deltas(update_validator_deltas(st, v, -delta, e),
                                     -delta, e, ~is_jailed_or_inactive(st, v, e)),
           s, EpochsFrom(first, last))

(* The sums changed before the sets.                                       *)
ApplySlash_DeltasFirst(s, v, amounts, first, last) ==
  SlashSets(SlashDeltas(s, v, amounts, first, last), v, amounts, first, last)

ApplySlash(s, v, amounts, first, last) ==
  SlashDeltas(SlashSets(s, v, amounts, first, last), v, amounts, first, last)

in_redelegation_slashing_window(infraction_epoch, redel_start, redel_end) ==
  /\ redel_start < infraction_epoch + slash_processing_epoch_offset
  /\ infraction_epoch < redel_end

-----------------------------------------------------------------------------
into_tm_voting_power(stake) ==
  (stake * tm_votes_per_token.num) \div tm_votes_per_token.den

Members(set) == {x.val : x \in set}

Update(s, v, epoch, power) ==
  [key |-> <<v, Get(s.key[v], epoch)>>, power |-> power]

(* A change of power sent as a removal and an addition.                    *)
NewConsensusUpdates_RemoveAndAdd(s, x, current_epoch) ==
  LET v == x.val
      next == current_epoch + 1
      prev_power == into_tm_voting_power(s.stake[v][current_epoch])
      new_power == into_tm_voting_power(x.stake)
      new == Update(s, v, next, new_power)
  IN  IF state_of(s, v, current_epoch) # Consensus
      THEN <<new>>
      ELSE IF prev_power = new_power /\ Get(s.key[v], current_epoch) = Get(s.key[v], next)
      THEN << >>
      ELSE <<new, Update(s, v, current_epoch, 0)>>

(* Of a validator in the next epoch's consensus set: its updates.          *)
NewConsensusUpdates(s, x, current_epoch) ==
  LET v == x.val
      next == current_epoch + 1
      prev_power == into_tm_voting_power(s.stake[v][current_epoch])
      new_power == into_tm_voting_power(x.stake)
      new == Update(s, v, next, new_power)
  IN  IF validator_stake_threshold = 0 /\ prev_power = 0 /\ new_power = 0
      THEN << >>
      ELSE IF state_of(s, v, current_epoch) # Consensus
      THEN <<new>>
      ELSE IF Get(s.key[v], current_epoch) # Get(s.key[v], next)
      THEN <<new, Update(s, v, current_epoch, 0)>>
      ELSE IF prev_power = new_power
      THEN << >>
      ELSE <<new>>

(* Of a validator in the current consensus set: its removal.               *)
PrevConsensusUpdates(s, x, current_epoch) ==
  LET v == x.val
      prev_power == into_tm_voting_power(s.stake[v][current_epoch])
  IN  IF \/ state_of(s, v, current_epoch + 1) = Consensus
         \/ validator_stake_threshold = 0 /\ prev_power = 0
      THEN << >>
      ELSE <<Update(s, v, current_epoch, 0)>>

(* The order of the updates does not matter to CometBFT.                   *)
InSomeOrder(set) == SetToSeq(set)

(* The removals of the current set's validators forgotten.                 *)
validator_set_update_comet_NoRemovals(s, current_epoch) ==
  LET new == InSomeOrder(s.cons[current_epoch + 1])
  IN  FlattenSeq([i \in DOMAIN new |-> NewConsensusUpdates(s, new[i], current_epoch)])

validator_set_update_comet(s, current_epoch) ==
  LET new == InSomeOrder(s.cons[current_epoch + 1])
      prev == InSomeOrder(s.cons[current_epoch])
  IN  FlattenSeq([i \in DOMAIN new |->
                 NewConsensusUpdates(s, new[i], current_epoch)])
      \o FlattenSeq([i \in DOMAIN prev |->
                 PrevConsensusUpdates(s, prev[i], current_epoch)])

genesis_validator_set_tendermint(s) ==
  {Update(s, x.val, 0, into_tm_voting_power(x.stake)) : x \in s.cons[0]}

=============================================================================
