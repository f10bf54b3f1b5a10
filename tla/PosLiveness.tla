---------------------------- MODULE PosLiveness ----------------------------
(***************************************************************************)
(* Liveness tracking of proof of stake.  Every block brings the votes on   *)
(* the block before it; the votes a consensus validator missed within a    *)
(* sliding window of heights are counted, a validator that missed too many *)
(* is jailed, and the counts of the validators that left the consensus set *)
(* are dropped when an epoch begins.                                       *)
(*                                                                         *)
(* Of the validator sets only what this code reads is kept: the states of  *)
(* a validator in the epochs before, at and after the current one, up to   *)
(* the pipeline epoch.  ValidatorSets.tla has the sets themselves.         *)
(***************************************************************************)
EXTENDS Integers, Sequences, FiniteSets

CONSTANTS
  Validator,      \* the validators
  Core,           \* those whose signature every commit needs
  Window,         \* the values governance may give liveness_window_check
  threshold(_),   \* missing_votes_threshold of a window
  Finished,       \* {TRUE} when every epoch is as short as can be, or BOOLEAN
  MaxVoteHeight   \* the bound on the length of the chain

ASSUME LivenessAssumption ==
  /\ Core \subseteq Validator
  /\ Window \subseteq Nat \ {0}
  /\ \A w \in Window : threshold(w) \in Nat
  /\ Finished \subseteq BOOLEAN
  /\ MaxVoteHeight \in Nat

VARIABLES
  height,   \* the last finalized height
  delay,    \* update_epoch_blocks_delay, 0 when no switch is queued
  states,   \* validator states by offset from the current epoch, -1..2
  window,   \* liveness_window_check in storage
  missed,   \* liveness_missed_votes
  sum,      \* liveness_sum_missed_votes: a map of some of the validators
  voted     \* for each height with votes: who was asked, who signed, and
            \* the window that was in force (history only)

livenessVars == <<height, delay, states, window, missed, sum, voted>>

ValidatorState == {"Consensus", "Other", "Jailed"}
Offset == -1..2
pipeline_len == 2

consensus_set(st, offset) ==
  {v \in Validator : st[offset][v] = "Consensus"}

(* Genesis has no jailed validators, and the first block has no votes.     *)
LivenessInit ==
  /\ height = 1
  /\ delay = 0
  /\ \E in \in {s \in SUBSET Validator : Core \subseteq s} :
       states = [o \in Offset |-> [v \in Validator |->
                   IF v \in in THEN "Consensus" ELSE "Other"]]
  /\ window \in Window
  /\ missed = [v \in Validator |-> {}]
  /\ sum = << >>
  /\ voted = << >>

-----------------------------------------------------------------------------
(* update_epoch: a finished epoch queues the switch two blocks ahead.      *)
update_delay(finished) ==
  IF delay > 0 THEN delay - 1 ELSE IF finished THEN 2 ELSE 0

is_new_epoch == delay = 1

(* copy_validator_sets_and_positions, seen from the epoch that begins.     *)
copy_sets ==
  IF is_new_epoch
  THEN [o \in Offset |-> states[IF o = pipeline_len THEN o ELSE o + 1]]
  ELSE states

jail_offset(d) == IF d = 1 THEN 2 ELSE 1

(* record_liveness_data that counts only what it adds.                     *)
record_liveness_data_NoPrune(asked, signed, h, l) ==
  LET absent == asked \ signed
  IN  [missed |-> [v \in Validator |->
                     IF v \in asked
                     THEN (l.missed[v] \ {h - window})
                            \union (IF v \in absent THEN {h} ELSE {})
                     ELSE l.missed[v]],
       sum |-> [v \in DOMAIN l.sum \union asked |->
                  (IF v \in DOMAIN l.sum THEN l.sum[v] ELSE 0)
                    + (IF v \in absent THEN 1 ELSE 0)]]

(* One height leaves the window of a validator as the new one enters it.   *)
record_liveness_data(asked, signed, h, l) ==
  LET absent == asked \ signed
      pruned(v) == v \in asked /\ h - window \in l.missed[v]
  IN  [missed |-> [v \in Validator |->
                     IF v \in asked
                     THEN (l.missed[v] \ {h - window})
                            \union (IF v \in absent THEN {h} ELSE {})
                     ELSE l.missed[v]],
       sum |-> [v \in DOMAIN l.sum \union asked |->
                  (IF v \in DOMAIN l.sum THEN l.sum[v] ELSE 0)
                    - (IF pruned(v) THEN 1 ELSE 0)
                    + (IF v \in absent THEN 1 ELSE 0)]]

(* jail_for_liveness: everyone over the threshold that is not jailed yet,  *)
(* in every epoch from the jail epoch to the pipeline epoch.               *)
validators_to_jail(l, st, offset) ==
  {v \in DOMAIN l.sum : l.sum[v] >= threshold(window)
                          /\ st[offset][v] # "Jailed"}

jail_for_liveness_NextEpochOnly(l, st, offset) ==
  [st EXCEPT ![offset] = [v \in Validator |->
     IF v \in validators_to_jail(l, st, offset) THEN "Jailed"
     ELSE st[offset][v]]]

jail_for_liveness(l, st, offset) ==
  [o \in Offset |-> [v \in Validator |->
     IF o >= offset /\ v \in validators_to_jail(l, st, offset) THEN "Jailed"
     ELSE st[o][v]]]

prune_liveness_data(l, st) ==
  LET gone == DOMAIN l.sum \ consensus_set(st, 0)
  IN  [missed |-> [v \in Validator |->
                     IF v \in gone THEN {} ELSE l.missed[v]],
       sum |-> [v \in DOMAIN l.sum \ gone |-> l.sum[v]]]

(* Jailing frees a slot and process_slashes changes stakes, so that others *)
(* enter or leave the consensus set of the next epoch, unless its set was  *)
(* sent already.                                                           *)
Resettled(st, moved) ==
  [st EXCEPT ![1] = [v \in Validator |->
     CASE v \in moved /\ st[1][v] = "Consensus" -> "Other"
       [] v \in moved /\ st[1][v] = "Other" -> "Consensus"
       [] OTHER -> st[1][v]]]

(* What the transactions of a block may leave of the pipeline epoch: any   *)
(* validator that is not in the consensus set may enter it and any other   *)
(* leave it; one that is jailed now may have been unjailed.                *)
StakingResult(st) ==
  {s \in [Validator -> ValidatorState] : \A v \in Validator :
     /\ v \in Core => s[v] = st[pipeline_len][v]
     /\ s[v] = "Jailed" => st[pipeline_len][v] = "Jailed"
     /\ (st[pipeline_len][v] = "Jailed" /\ s[v] # "Jailed")
          => st[0][v] = "Jailed"}

(* record_slashes_from_evidence jails from the jail epoch on.              *)
JailForEvidence(st, evidence, offset) ==
  [o \in Offset |-> [v \in Validator |->
     IF o >= offset /\ v \in evidence THEN "Jailed" ELSE st[o][v]]]

(* The proof-of-stake part of finalize_block, then the block's             *)
(* transactions and, in the first block of an epoch, governance proposals. *)
FinalizeVotes(signed, evidence, moved, finished) ==
  LET d == update_delay(finished)
      st == JailForEvidence(copy_sets, evidence, jail_offset(d))
      h == height
      asked == consensus_set(st, IF is_new_epoch THEN -1 ELSE 0)
      recorded == record_liveness_data(asked, signed, h,
                                       [missed |-> missed, sum |-> sum])
      jailed_now == jail_for_liveness(recorded, st, jail_offset(d))
      jailed == Resettled(jailed_now, moved)
      kept == IF is_new_epoch THEN prune_liveness_data(recorded, jailed)
              ELSE recorded
  IN  /\ height <= MaxVoteHeight
      /\ Core \subseteq signed
      /\ signed \subseteq asked
      /\ moved # {} => /\ jail_offset(d) = 1
                       /\ is_new_epoch \/ jailed_now # copy_sets
      /\ height' = height + 1
      /\ delay' = d
      /\ missed' = kept.missed
      /\ sum' = kept.sum
      /\ voted' = Append(voted, [asked |-> asked, signed |-> signed,
                                 window |-> window])
      /\ \E s \in StakingResult(jailed) :
           states' = [jailed EXCEPT ![pipeline_len] = s]
      /\ window' \in IF is_new_epoch THEN Window ELSE {window}

LivenessNext ==
  \E signed \in SUBSET Validator, evidence \in SUBSET (Validator \ Core),
     moved \in SUBSET (Validator \ Core), finished \in Finished :
    FinalizeVotes(signed, evidence, moved, finished)

LivenessSpec == LivenessInit /\ [][LivenessNext]_livenessVars

-----------------------------------------------------------------------------
(* The heights since v is in the consensus set without interruption.       *)
Span(v) ==
  {h \in 1..Len(voted) : \A i \in h..Len(voted) : v \in voted[i].asked}

MissedIn(v, heights) == {h \in heights : v \notin voted[h].signed}

(* liveness_sum_missed_votes is the number of heights on record, and those *)
(* are the misses of the current stay in the consensus set that fall into  *)
(* the sliding window: record_liveness_data prunes a single height per     *)
(* block, and prune_liveness_data forgets a validator that left before it  *)
(* can come back.  When governance changes the window, the record still    *)
(* has every miss of the shortest window there was, and nothing that was   *)
(* not missed.                                                             *)
WindowExact ==
  LET used(v) == {voted[h].window : h \in Span(v)}
      last(v, w) == {h \in Span(v) : h > Len(voted) - w}
  IN  \A v \in Validator :
        /\ v \notin DOMAIN sum => missed[v] = {}
        /\ v \in DOMAIN sum =>
             /\ Span(v) # {}
             /\ sum[v] = Cardinality(missed[v])
             /\ missed[v] \subseteq MissedIn(v, Span(v))
             /\ \E w \in used(v) : MissedIn(v, last(v, w)) \subseteq missed[v]
             /\ \A w \in used(v) :
                  used(v) = {w} => missed[v] = MissedIn(v, last(v, w))

(* A validator over the threshold is in no consensus set from the jail     *)
(* epoch on until a transaction unjails it, which takes an epoch in which  *)
(* it is jailed: jail_for_liveness may skip it only because it is jailed   *)
(* in every epoch it would be jailed for.                                  *)
InactiveIsJailed ==
  \A v \in DOMAIN sum :
    sum[v] >= threshold(voted[Len(voted)].window)
      => \A o \in jail_offset(delay)..pipeline_len : states[o][v] = "Jailed"

=============================================================================
