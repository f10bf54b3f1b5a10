------------------------------- MODULE Epochs -------------------------------
(***************************************************************************)
(* Epochs of the chain: the two-block countdown to the next epoch and the  *)
(* record of the first height of every epoch, as operators on values.      *)
(*                                                                         *)
(* crates/state/src/{wl_state,in_memory}.rs, crates/core/src/storage.rs    *)
(* and, for the epoch that validator set changes take effect in,           *)
(* crates/apps/src/lib/node/ledger/shell/mod.rs.                           *)
(*                                                                         *)
(* A duration is the protocol parameter EpochDuration: a record with the   *)
(* fields blocks (min_num_of_blocks) and time (min_duration).              *)
(***************************************************************************)
EXTENDS Integers, Sequences, FiniteSetsExt

(* None of Rust's Option, for the countdown and for look-ups that fail.    *)
None == -1

EPOCH_SWITCH_BLOCKS_DELAY == 2

-----------------------------------------------------------------------------
(* Epochs { first_block_heights } is the sequence of the first heights.    *)

new_epoch(firsts, height) == Append(firsts, height)

(* The comparison that would put the first block of an epoch in the one    *)
(* before it.                                                              *)
get_epoch_FirstBlockBefore(firsts, height) ==
  LET later == {i \in 2..Len(firsts) : height <= firsts[i]}
  IN  IF firsts = << >> THEN None
      ELSE IF later = {} THEN Len(firsts) - 1 ELSE Min(later) - 2

get_epoch(firsts, height) ==
  LET later == {i \in 2..Len(firsts) : height < firsts[i]}
  IN  IF firsts = << >> THEN None
      ELSE IF later = {} THEN Len(firsts) - 1 ELSE Min(later) - 2

get_epoch_start_height(firsts, height) ==
  LET started == {i \in 1..Len(firsts) : firsts[i] <= height}
  IN  IF started = {} THEN None ELSE firsts[Max(started)]

(* The bound epoch.0 > len() lets epoch = len() through; the look-up in    *)
(* the vector then yields None.                                            *)
get_start_height_of_epoch(firsts, epoch) ==
  IF epoch < Len(firsts) THEN firsts[epoch + 1] ELSE None

-----------------------------------------------------------------------------
(* The in-memory state the epochs are tracked in: block.height and         *)
(* block.epoch as height and epoch, block.pred_epochs as firsts,           *)
(* next_epoch_min_start_{height,time} as min_height and min_time,          *)
(* update_epoch_blocks_delay as delay, last_block.height as last_height.   *)

init_genesis_epoch(initial_height, genesis_time, duration) ==
  [height |-> 0, last_height |-> 0, epoch |-> 0, delay |-> None,
   firsts |-> <<initial_height>>,
   min_height |-> initial_height + duration.blocks,
   min_time |-> genesis_time + duration.time]

(* The countdown queued one block short.                                   *)
QueueOrCountDown_OneBlock(m, height, time) ==
  IF m.delay # None THEN m.delay - 1
  ELSE IF height >= m.min_height /\ time >= m.min_time
       THEN EPOCH_SWITCH_BLOCKS_DELAY - 1 ELSE None

QueueOrCountDown(m, height, time) ==
  IF m.delay # None THEN m.delay - 1
  ELSE IF height >= m.min_height /\ time >= m.min_time
       THEN EPOCH_SWITCH_BLOCKS_DELAY ELSE None

(* The countdown left at zero when the epoch begins.                       *)
update_epoch_NoReset(m, height, time, duration) ==
  LET delay == QueueOrCountDown(m, height, time)
  IN  IF delay = 0
      THEN [m EXCEPT !.delay = 0,
                     !.epoch = @ + 1,
                     !.min_height = height + duration.blocks,
                     !.min_time = time + duration.time,
                     !.firsts = new_epoch(@, height)]
      ELSE [m EXCEPT !.delay = delay]

(* The minimum height derived again from the parameters at every block.    *)
update_epoch_Rederives(m, height, time, duration) ==
  LET delay == QueueOrCountDown(m, height, time)
  IN  IF delay = 0
      THEN [m EXCEPT !.delay = None,
                     !.epoch = @ + 1,
                     !.min_height = height + duration.blocks,
                     !.min_time = time + duration.time,
                     !.firsts = new_epoch(@, height)]
      ELSE [m EXCEPT !.delay = delay,
                     !.min_height = m.firsts[Len(m.firsts)] + duration.blocks]

(* update_epoch, called at the start of a block with the duration found in *)
(* storage; the block begins a new epoch when the countdown reaches zero.  *)
update_epoch(m, height, time, duration) ==
  LET delay == QueueOrCountDown(m, height, time)
  IN  IF delay = 0
      THEN [m EXCEPT !.delay = None,
                     !.epoch = @ + 1,
                     !.min_height = height + duration.blocks,
                     !.min_time = time + duration.time,
                     !.firsts = new_epoch(@, height)]
      ELSE [m EXCEPT !.delay = delay]

(* The epoch changes would start in if the countdown were ignored.         *)
get_validator_set_update_epoch_NextEpoch(m) == m.epoch + 1

get_validator_set_update_epoch(m) ==
  IF m.delay \in {None, EPOCH_SWITCH_BLOCKS_DELAY}
  THEN m.epoch + 1 ELSE m.epoch + 2

get_current_decision_height(m) == m.last_height + 1

(* The last block of an epoch taken for the first.                         *)
is_deciding_offset_within_epoch_FromNextSwitch(m, offset) ==
  get_current_decision_height(m) = m.min_height + offset

is_deciding_offset_within_epoch(m, offset) ==
  m.firsts # << >> /\
    get_current_decision_height(m) = m.firsts[Len(m.firsts)] + offset

=============================================================================
