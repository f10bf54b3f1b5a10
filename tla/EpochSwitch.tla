---------------------------- MODULE EpochSwitch ----------------------------
(***************************************************************************)
(* A node follows the chain CometBFT decides: it finalizes each block,     *)
(* which may begin an epoch, tells CometBFT two blocks ahead of an epoch   *)
(* which validators it has, commits the block, and may crash at any point  *)
(* and replay what it had not committed.                                   *)
(*                                                                         *)
(* A validator set is named by the epoch it belongs to: valset[h] is the   *)
(* epoch whose consensus validators CometBFT has vote on height h.         *)
(* ValidatorSets.tla gives the sets themselves.                            *)
(***************************************************************************)
EXTENDS Epochs

CONSTANTS
  Duration,     \* the values governance may give EpochDuration
  Step,         \* the differences between the times of consecutive headers
  initial,      \* the duration at genesis
  MaxHeight     \* the bound on the length of the chain

ASSUME DurationAssumption ==
  /\ Duration \subseteq [blocks : Nat, time : Nat]
  /\ initial \in Duration
  /\ Step \subseteq Nat
ASSUME HeightAssumption == MaxHeight \in Nat

VARIABLES
  blocks,   \* the chain: of every block its header time, and the duration
            \* in storage after its transactions and governance proposals
  in_mem,   \* the epoch state in memory and the duration in storage
  db,       \* the same, as of the last committed block
  update,   \* validator_set_update_epoch of the block being finalized
  valset,   \* the epoch of the validators CometBFT has at each height
  epochs    \* the epoch each finalized height was given

vars == <<blocks, in_mem, db, update, valset, epochs>>

Heights == 1..MaxHeight

Genesis ==
  [epoch |-> init_genesis_epoch(1, 0, initial), duration |-> initial]

Init ==
  /\ blocks = << >>
  /\ in_mem = Genesis
  /\ db = Genesis
  /\ update = None
  /\ valset = [h \in 1..(MaxHeight + 2) |-> 0]
  /\ epochs = [h \in Heights |-> None]

MidBlock == in_mem.epoch.height # in_mem.epoch.last_height

LastTime == IF blocks = << >> THEN 0 ELSE blocks[Len(blocks)].time

(* CometBFT decides the next block.                                        *)
Decide(step, duration) ==
  /\ Len(blocks) < MaxHeight
  /\ Len(blocks) = db.epoch.height
  /\ blocks' = Append(blocks, [time |-> LastTime + step,
                               duration |-> duration])
  /\ UNCHANGED <<in_mem, db, update, valset, epochs>>

(* finalize_block up to the end of update_state.                           *)
update_state(m, height) ==
  update_epoch([m.epoch EXCEPT !.height = height], height,
               blocks[height].time, m.duration)

(* CometBFT adopts the validators of a response two blocks later.          *)
AdoptUpdates(m, height) ==
  [valset EXCEPT ![height + 2] =
     IF m.delay = EPOCH_SWITCH_BLOCKS_DELAY THEN m.epoch + 1
     ELSE valset[height + 1]]

FinalizeBlock ==
  LET height == in_mem.epoch.last_height + 1
      m == update_state(in_mem, height)
  IN  /\ ~MidBlock
      /\ height <= Len(blocks)
      /\ in_mem' = [epoch |-> m, duration |-> blocks[height].duration]
      /\ update' = get_validator_set_update_epoch(m)
      /\ valset' = AdoptUpdates(m, height)
      /\ epochs' = [epochs EXCEPT ![height] = m.epoch]
      /\ UNCHANGED <<blocks, db>>

(* commit_block_from_batch: what the block state is written with.          *)
Committed(m) ==
  [m EXCEPT !.epoch = [m.epoch EXCEPT !.last_height = m.epoch.height]]

Commit ==
  /\ MidBlock
  /\ in_mem' = Committed(in_mem)
  /\ db' = Committed(in_mem)
  /\ update' = None
  /\ UNCHANGED <<blocks, valset, epochs>>

(* load_last_state that leaves the countdown at its default.               *)
load_last_state_NoDelay ==
  [db EXCEPT !.epoch = [db.epoch EXCEPT !.delay = None]]

(* Before the first commit there is no state to load and CometBFT calls    *)
(* InitChain again, which is what Genesis in db stands for.                *)
load_last_state == db

Crash ==
  /\ in_mem' = load_last_state
  /\ update' = None
  /\ UNCHANGED <<blocks, db, valset, epochs>>

Next ==
  \/ \E step \in Step, duration \in Duration : Decide(step, duration)
  \/ FinalizeBlock
  \/ Commit
  \/ Crash

Spec == Init /\ [][Next]_vars

-----------------------------------------------------------------------------
EpochState ==
  [height : 0..MaxHeight, last_height : 0..MaxHeight, epoch : Nat,
   delay : {None, 1, 2}, firsts : Seq(Nat), min_height : Nat, min_time : Nat]

(* Heights, epochs and the countdown stay in range: in particular the      *)
(* countdown is never left at zero, where the next block's decrement of    *)
(* the u32 in update_epoch would underflow.                                *)
TypeOK ==
  /\ blocks \in Seq([time : Nat, duration : Duration])
  /\ Len(blocks) \in 0..MaxHeight
  /\ in_mem \in [epoch : EpochState, duration : Duration]
  /\ db \in [epoch : EpochState, duration : Duration]
  /\ update \in Nat \union {None}
  /\ valset \in [1..(MaxHeight + 2) -> Nat]
  /\ epochs \in [Heights -> Nat \union {None}]

(* Every height is voted on by the validators of its own epoch: the        *)
(* response of finalize_block two blocks ahead of an epoch is timed so     *)
(* that CometBFT's delay of two blocks makes the set change with the       *)
(* epoch, also when the countdown is interrupted by restarts.              *)
ValidatorsMatchEpoch ==
  \A h \in Heights : epochs[h] # None => valset[h] = epochs[h]

(* The epoch that finalize_block has PoS apply jailing from is the first   *)
(* one whose validator set CometBFT has not been sent: one earlier and the *)
(* change would never reach CometBFT, one later and the validator would    *)
(* stay in for an epoch too long.                                          *)
UpdateEpochIsFirstUnsent ==
  MidBlock => update = valset[in_mem.epoch.height + 1] + 1

(* Epochs::get_epoch answers with the epoch that each height was finalized *)
(* in, for every height up to the current one, whether the record was      *)
(* built in memory or loaded after a crash; the two look-ups of a start    *)
(* height agree with it; the heights it is built from are in ascending     *)
(* order, as first_block_heights documents.                                *)
PredEpochsAgree ==
  LET firsts == in_mem.epoch.firsts
  IN  /\ \A h \in 1..in_mem.epoch.height :
           /\ get_epoch(firsts, h) = epochs[h]
           /\ get_epoch_start_height(firsts, h) =
                get_start_height_of_epoch(firsts, epochs[h])
      /\ \A i \in 1..(Len(firsts) - 1) : firsts[i] < firsts[i + 1]

(* At the height where validators must vote on the next Ethereum bridge    *)
(* validator set (must_send_valset_upd, the second block of an epoch) the  *)
(* epoch they vote in is still the epoch they saw.                         *)
ValsetUpdWithinEpoch ==
  (~MidBlock /\ is_deciding_offset_within_epoch(in_mem.epoch, 1))
    => /\ in_mem.epoch.delay # 1
       /\ in_mem.epoch.last_height \in Heights
       /\ in_mem.epoch.last_height = 1 \/
            epochs[in_mem.epoch.last_height] #
              epochs[in_mem.epoch.last_height - 1]

(* A height keeps its epoch, and CometBFT keeps the validators of a        *)
(* height: replaying a block after a crash repeats what was done.          *)
ReplayRepeats ==
  [][\A h \in Heights :
       epochs[h] # None => /\ epochs'[h] = epochs[h]
                           /\ valset'[h] = valset[h]]_vars

(* Changes to the epoch duration parameter do not affect the current epoch *)
(* (documentation/dev/src/explore/design/ledger/epochs.md).                *)
DurationFixedInEpoch ==
  [][in_mem'.epoch.epoch = in_mem.epoch.epoch =>
       /\ in_mem'.epoch.min_height = in_mem.epoch.min_height
       /\ in_mem'.epoch.min_time = in_mem.epoch.min_time]_vars

=============================================================================
