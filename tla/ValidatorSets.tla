--------------------------- MODULE ValidatorSets ---------------------------
(***************************************************************************)
(* The validator sets of proof of stake, epoch by epoch, as operators on   *)
(* the part of the storage that holds them.                                *)
(*                                                                         *)
(* crates/proof_of_stake/src/{validator_set_update,storage,lib}.rs.        *)
(*                                                                         *)
(* A store is a record with the fields                                     *)
(*   cons, bcap  of each epoch the consensus and below-capacity sets, with *)
(*               an element [stake, pos, val] per LazyMap entry            *)
(*   positions   of each epoch the validators' positions, or None          *)
(*   state       of each validator an Epoched: what was set at each epoch, *)
(*               or Unset; a read finds the last value set before          *)
(*   key         the same for consensus keys                               *)
(*   stake       of each validator the sums of its EpochedDelta            *)
(*   active      the sums of total_active_deltas                           *)
(*   panic       whether an expect() has failed                            *)
(* Trimming of the past of Epoched values is left out: it keeps what is    *)
(* read from the current epoch on.                                         *)
(***************************************************************************)
EXTENDS Epochs, SequencesExt

CONSTANTS
  Validator,
  max_validator_slots,
  validator_stake_threshold,
  tm_votes_per_token,    \* a ratio [num, den]
  pipeline_len,
  LastEpoch              \* the bound on the epochs that hold data

ASSUME PosParamsAssumption ==
  /\ max_validator_slots \in Nat \ {0}
  /\ validator_stake_threshold \in Nat
  /\ tm_votes_per_token.num \in Nat /\ tm_votes_per_token.den \in Nat \ {0}
  /\ pipeline_len \in Nat \ {0, 1}

Epoch == 0..LastEpoch

Consensus      == "Consensus"
BelowCapacity  == "BelowCapacity"
BelowThreshold == "BelowThreshold"
Inactive       == "Inactive"
Jailed         == "Jailed"
Unset          == "unset"
ValidatorState ==
  {Consensus, BelowCapacity, BelowThreshold, Inactive, Jailed}

-----------------------------------------------------------------------------
(* Epoched::get and set_at_epoch, on one epoched value.                    *)
Get(epoched, epoch) ==
  LET set == {e \in 0..epoch : epoched[e] # Unset}
  IN  IF set = {} THEN Unset ELSE epoched[Max(set)]

state_of(s, v, epoch) == Get(s.state[v], epoch)

set_state(s, v, state, epoch) == [s EXCEPT !.state[v][epoch] = state]

(* From an epoch on, as EpochedDelta::get_sum adds up the deltas.          *)
AddFrom(sums, epoch, change) ==
  [e \in Epoch |-> IF e >= epoch THEN sums[e] + change ELSE sums[e]]

update_validator_deltas(s, v, change, epoch) ==
  [s EXCEPT !.stake[v] = AddFrom(@, epoch, change)]

update_total_deltas(s, change, epoch, update_active_voting_power) ==
  IF update_active_voting_power
  THEN [s EXCEPT !.active = AddFrom(@, epoch, change)] ELSE s

-----------------------------------------------------------------------------
(* The LazyMap of the validators with one stake, ordered by position.      *)
At(set, stake) == {x \in set : x.stake = stake}

find_first_position(set, stake) == Min({x.pos : x \in At(set, stake)})
find_last_position(set, stake)  == Max({x.pos : x \in At(set, stake)})
find_next_position(set, stake) ==
  IF At(set, stake) = {} THEN 0 ELSE find_last_position(set, stake) + 1

get_min_consensus_validator_amount(cons) ==
  IF cons = {} THEN 0 ELSE Min({x.stake : x \in cons})

get_max_below_capacity_validator_amount(bcap) ==
  IF bcap = {} THEN None ELSE Max({x.stake : x \in bcap})

(* The position not written down.                                          *)
insert_validator_into_set_NoPosition(s, which, epoch, stake, v) ==
  LET pos == find_next_position(s[which][epoch], stake)
  IN  [s EXCEPT ![which][epoch] =
                  @ \union {[stake |-> stake, pos |-> pos, val |-> v]}]

(* which is "cons" or "bcap".                                              *)
insert_validator_into_set(s, which, epoch, stake, v) ==
  LET pos == find_next_position(s[which][epoch], stake)
  IN  [s EXCEPT ![which][epoch] =
                  @ \union {[stake |-> stake, pos |-> pos, val |-> v]},
                !.positions[epoch][v] = pos]

TakeOut(s, which, epoch, stake, pos) ==
  [s EXCEPT ![which][epoch] = {x \in @ : x.stake # stake \/ x.pos # pos}]

ForgetPosition(s, v, epoch) == [s EXCEPT !.positions[epoch][v] = None]

Occupant(set, stake, pos) ==
  (CHOOSE x \in set : x.stake = stake /\ x.pos = pos).val

Expect(s, condition) == [s EXCEPT !.panic = @ \/ ~condition]

RemoveValidator(s, which, v, epoch) ==
  LET pos == s.positions[epoch][v]
      s1 == Expect(s, pos # None)
  IN  ForgetPosition(TakeOut(s1, which, epoch, s.stake[v][epoch], pos),
                     v, epoch)

remove_consensus_validator(s, v, epoch) == RemoveValidator(s, "cons", v, epoch)

remove_below_capacity_validator(s, v, epoch) ==
  RemoveValidator(s, "bcap", v, epoch)

(* The first of those with the largest stake.                              *)
promote_next_below_capacity_validator_to_consensus(s, epoch) ==
  IF s.bcap[epoch] = {} THEN s
  ELSE LET stake == get_max_below_capacity_validator_amount(s.bcap[epoch])
           pos == find_first_position(s.bcap[epoch], stake)
           v == Occupant(s.bcap[epoch], stake, pos)
       IN  set_state(insert_validator_into_set(
                       TakeOut(s, "bcap", epoch, stake, pos),
                       "cons", epoch, stake, v),
                     v, Consensus, epoch)

(* The demoted validator still in state Consensus.                         *)
insert_into_consensus_and_demote_to_below_cap_StateKept(s, v, stake, epoch) ==
  IF s.cons[epoch] = {} THEN Expect(s, FALSE) ELSE
  LET min == get_min_consensus_validator_amount(s.cons[epoch])
      pos == find_last_position(s.cons[epoch], min)
      demoted == Occupant(s.cons[epoch], min, pos)
      s1 == insert_validator_into_set(TakeOut(s, "cons", epoch, min, pos),
                                      "bcap", epoch, min, demoted)
      s3 == insert_validator_into_set(s1, "cons", epoch, stake, v)
  IN  set_state(s3, v, Consensus, epoch)

insert_into_consensus_and_demote_to_below_cap(s, v, stake, epoch) ==
  IF s.cons[epoch] = {} THEN Expect(s, FALSE) ELSE
  LET min == get_min_consensus_validator_amount(s.cons[epoch])
      pos == find_last_position(s.cons[epoch], min)
      demoted == Occupant(s.cons[epoch], min, pos)
      s1 == insert_validator_into_set(TakeOut(s, "cons", epoch, min, pos),
                                      "bcap", epoch, min, demoted)
      s2 == set_state(s1, demoted, BelowCapacity, epoch)
      s3 == insert_validator_into_set(s2, "cons", epoch, stake, v)
  IN  set_state(s3, v, Consensus, epoch)

InsertWithState(s, which, v, stake, state, epoch) ==
  set_state(insert_validator_into_set(s, which, epoch, stake, v),
            v, state, epoch)

(* A validator with at least the threshold that is in neither set.         *)
PlaceOutsider(s, v, stake, epoch) ==
  IF Cardinality(s.cons[epoch]) < max_validator_slots
  THEN InsertWithState(s, "cons", v, stake, Consensus, epoch)
  ELSE IF stake > get_min_consensus_validator_amount(s.cons[epoch])
  THEN insert_into_consensus_and_demote_to_below_cap(s, v, stake, epoch)
  ELSE InsertWithState(s, "bcap", v, stake, BelowCapacity, epoch)

insert_validator_into_validator_set(s, v, stake, epoch) ==
  IF stake < validator_stake_threshold
  THEN set_state(s, v, BelowThreshold, epoch)
  ELSE PlaceOutsider(s, v, stake, epoch)

-----------------------------------------------------------------------------
ToBelowThreshold(s, v, epoch) ==
  ForgetPosition(set_state(s, v, BelowThreshold, epoch), v, epoch)

(* update_validator_set for a validator in the consensus set.              *)
MoveConsensus(s, v, pre, post, epoch) ==
  LET removed == TakeOut(s, "cons", epoch, pre, s.positions[epoch][v])
      max == get_max_below_capacity_validator_amount(s.bcap[epoch])
  IN  IF post < validator_stake_threshold
      THEN promote_next_below_capacity_validator_to_consensus(
             ToBelowThreshold(removed, v, epoch), epoch)
      ELSE IF post < max
      THEN InsertWithState(
             promote_next_below_capacity_validator_to_consensus(removed, epoch),
             "bcap", v, post, BelowCapacity, epoch)
      ELSE insert_validator_into_set(removed, "cons", epoch, post, v)

(* update_validator_set for a validator in the below-capacity set.         *)
MoveBelowCapacity(s, v, pre, post, epoch) ==
  LET removed == TakeOut(s, "bcap", epoch, pre, s.positions[epoch][v])
  IN  IF post > get_min_consensus_validator_amount(s.cons[epoch])
      THEN insert_into_consensus_and_demote_to_below_cap(removed, v, post, epoch)
      ELSE IF post >= validator_stake_threshold
      THEN InsertWithState(removed, "bcap", v, post, BelowCapacity, epoch)
      ELSE ToBelowThreshold(removed, v, epoch)

(* The change of stake itself is made after this, by the caller.           *)
update_validator_set(s, v, change, epoch) ==
  LET pre == s.stake[v][epoch]
      post == pre + change
      in_consensus == \E x \in s.cons[epoch] :
                        x = [stake |-> pre, pos |-> s.positions[epoch][v],
                             val |-> v]
  IN  IF \/ change = 0
         \/ pre < validator_stake_threshold /\ post < validator_stake_threshold
      THEN s
      ELSE IF s.positions[epoch][v] = None
      THEN PlaceOutsider(s, v, post, epoch)
      ELSE IF in_consensus
      THEN MoveConsensus(s, v, pre, post, epoch)
      ELSE MoveBelowCapacity(s, v, pre, post, epoch)

copy_validator_sets_and_positions(s, epoch) ==
  [s EXCEPT !.cons[epoch] = s.cons[epoch - 1],
            !.bcap[epoch] = s.bcap[epoch - 1],
            !.positions[epoch] = s.positions[epoch - 1]]

=============================================================================
