------------------------- MODULE EpochSwitchProofs -------------------------
(***************************************************************************)
(* For every set of durations, every schedule of header times and any      *)
(* number of crashes: CometBFT has each height voted on by the validators  *)
(* of the height's epoch, jailing starts in the first epoch whose          *)
(* validators CometBFT does not know yet, and replays repeat the past.     *)
(***************************************************************************)
EXTENDS EpochSwitch, TLAPS

(* The height committed last.                                              *)
Top == db.epoch.height

(* What finalizing the block on top of the committed state gives.          *)
NextState == update_state(db, Top + 1)

(* Shapes and ranges the other conjuncts need.                             *)
Typed(m) ==
  /\ m = [epoch |-> m.epoch, duration |-> m.duration]
  /\ m.epoch = [height |-> m.epoch.height,
                last_height |-> m.epoch.last_height,
                epoch |-> m.epoch.epoch, delay |-> m.epoch.delay,
                firsts |-> m.epoch.firsts,
                min_height |-> m.epoch.min_height,
                min_time |-> m.epoch.min_time]
  /\ m.epoch.height \in 0..MaxHeight
  /\ m.epoch.epoch \in Nat
  /\ m.epoch.delay \in {None, 1, 2}

(* CometBFT's validators of the next two heights, by the countdown: the    *)
(* next epoch's validators are adopted one height before the countdown     *)
(* reaches one.                                                            *)
Pending ==
  LET m == db.epoch
  IN  /\ valset[Top + 1] = IF m.delay = 1 THEN m.epoch + 1 ELSE m.epoch
      /\ valset[Top + 2] = IF m.delay = None THEN m.epoch ELSE m.epoch + 1

(* The block being finalized is the one on top of the committed state.     *)
InMemory ==
  \/ in_mem = db
  \/ /\ in_mem = [epoch |-> NextState,
                  duration |-> blocks[Top + 1].duration]
     /\ Top + 1 <= Len(blocks)
     /\ epochs[Top + 1] # None
     /\ update = get_validator_set_update_epoch(NextState)

(* A height above the committed ones was finalized, if at all, from the    *)
(* committed state.                                                        *)
Finalizations ==
  /\ \A h \in 1..Top : epochs[h] # None /\ valset[h] = epochs[h]
  /\ \A h \in Heights : h > Top + 1 => epochs[h] = None
  /\ (Top + 1 \in Heights /\ epochs[Top + 1] # None) =>
       /\ Top + 1 <= Len(blocks)
       /\ epochs[Top + 1] = NextState.epoch
       /\ valset[Top + 3] = AdoptUpdates(NextState, Top + 1)[Top + 3]

IInv ==
  /\ Typed(db)
  /\ db.epoch.last_height = Top
  /\ Len(blocks) \in {Top, Top + 1} /\ Len(blocks) \in 0..MaxHeight
  /\ blocks \in Seq([time : Nat, duration : Duration])
  /\ valset \in [1..(MaxHeight + 2) -> Nat]
  /\ epochs \in [Heights -> Nat \union {None}]
  /\ Pending
  /\ InMemory
  /\ Finalizations

-----------------------------------------------------------------------------
(* The epoch state u of the block at a height finalized on top of m.       *)
Advances(m, u, height) ==
  /\ u = [height |-> u.height, last_height |-> u.last_height,
          epoch |-> u.epoch, delay |-> u.delay, firsts |-> u.firsts,
          min_height |-> u.min_height, min_time |-> u.min_time]
  /\ u.height = height
  /\ u.last_height = m.last_height
  /\ m.delay = 2 => u.delay = 1 /\ u.epoch = m.epoch
  /\ m.delay = 1 => u.delay = None /\ u.epoch = m.epoch + 1
  /\ m.delay = None => u.delay \in {None, 2} /\ u.epoch = m.epoch

(* update_epoch moves the countdown 2, 1, none and begins an epoch exactly *)
(* when it leaves one; from none it stays or is queued at two.             *)
LEMMA Countdown ==
  ASSUME NEW m, Typed(m), NEW height
  PROVE  Advances(m.epoch, update_state(m, height), height)
<1> DEFINE e == [m.epoch EXCEPT !.height = height]
<1> DEFINE t == blocks[height].time
<1>1. /\ e.height = height /\ e.last_height = m.epoch.last_height
      /\ e.epoch = m.epoch.epoch /\ e.delay = m.epoch.delay
      /\ e = [height |-> e.height, last_height |-> e.last_height,
              epoch |-> e.epoch, delay |-> e.delay, firsts |-> e.firsts,
              min_height |-> e.min_height, min_time |-> e.min_time]
  BY DEF Typed
<1>2. update_state(m, height) = update_epoch(e, height, t, m.duration)
  BY DEF update_state
<1>3. QueueOrCountDown(e, height, t) =
        IF e.delay # None THEN e.delay - 1
        ELSE IF height >= e.min_height /\ t >= e.min_time THEN 2 ELSE None
  BY DEF QueueOrCountDown, EPOCH_SWITCH_BLOCKS_DELAY
<1>4. e.delay \in {None, 1, 2}
  BY <1>1 DEF Typed
<1> HIDE DEF e, t
<1>5. CASE e.delay = 2
  <2>1. QueueOrCountDown(e, height, t) = 1
    BY <1>3, <1>5 DEF None
  <2>2. update_epoch(e, height, t, m.duration) = [e EXCEPT !.delay = 1]
    BY <2>1 DEF update_epoch
  <2> QED BY <2>2, <1>1, <1>2, <1>5 DEF Advances, None
<1>6. CASE e.delay = 1
  <2>1. QueueOrCountDown(e, height, t) = 0
    BY <1>3, <1>6 DEF None
  <2>2. update_epoch(e, height, t, m.duration) =
          [e EXCEPT !.delay = None, !.epoch = e.epoch + 1,
                    !.min_height = height + m.duration.blocks,
                    !.min_time = t + m.duration.time,
                    !.firsts = new_epoch(e.firsts, height)]
    BY <2>1 DEF update_epoch
  <2>3. update_epoch(e, height, t, m.duration) =
          [height |-> e.height, last_height |-> e.last_height,
           epoch |-> e.epoch + 1, delay |-> None,
           firsts |-> new_epoch(e.firsts, height),
           min_height |-> height + m.duration.blocks,
           min_time |-> t + m.duration.time]
    BY <1>1, <2>2
  <2> QED BY <2>3, <1>1, <1>2, <1>6 DEF Advances, None
<1>7. CASE e.delay = None
  <2>1. QueueOrCountDown(e, height, t) \in {None, 2}
    BY <1>3, <1>7
  <2>2. update_epoch(e, height, t, m.duration) =
          [e EXCEPT !.delay = QueueOrCountDown(e, height, t)]
    BY <2>1 DEF update_epoch, None
  <2> QED BY <2>1, <2>2, <1>1, <1>2, <1>7 DEF Advances, None
<1> QED BY <1>4, <1>5, <1>6, <1>7

-----------------------------------------------------------------------------
LEMMA InitInv == Init => IInv
<1> SUFFICES ASSUME Init PROVE IInv
  OBVIOUS
<1> USE HeightAssumption
<1>1. /\ db.epoch.height = 0 /\ db.epoch.last_height = 0
      /\ db.epoch.epoch = 0 /\ db.epoch.delay = None
  BY DEF Init, Genesis, init_genesis_epoch
<1>2. Typed(db)
  BY <1>1 DEF Init, Genesis, init_genesis_epoch, Typed
<1>3. Pending
  BY <1>1 DEF Init, Pending, Top, None
<1>4. InMemory
  BY DEF Init, InMemory
<1>5. Finalizations
  BY <1>1 DEF Init, Finalizations, Top, Heights
<1> QED
  BY <1>1, <1>2, <1>3, <1>4, <1>5 DEF Init, IInv, Top, Heights, None

(* The facts about the block on top of the committed state that finalizing *)
(* it for the first time, finalizing it again and committing it share.     *)
LEMMA OnTop ==
  ASSUME IInv
  PROVE  /\ Advances(db.epoch, NextState, Top + 1)
         /\ Top \in 0..MaxHeight
         /\ db.epoch.epoch \in Nat
         /\ NextState.epoch \in Nat
         /\ NextState.delay \in {None, 1, 2}
         /\ valset[Top + 1] = NextState.epoch
         /\ get_validator_set_update_epoch(NextState) = valset[Top + 2] + 1
         /\ Top + 1 <= MaxHeight =>
              AdoptUpdates(NextState, Top + 1)[Top + 3] =
                IF NextState.delay = None THEN NextState.epoch
                ELSE NextState.epoch + 1
<1> USE HeightAssumption
<1>1. Advances(db.epoch, NextState, Top + 1)
  BY Countdown DEF IInv, NextState
<1>2. /\ Top \in 0..MaxHeight /\ db.epoch.epoch \in Nat
      /\ db.epoch.delay \in {None, 1, 2}
  BY DEF IInv, Typed, Top
<1>3. /\ NextState.epoch \in Nat
      /\ NextState.delay \in {None, 1, 2}
      /\ valset[Top + 1] = NextState.epoch
  BY <1>1, <1>2 DEF IInv, Pending, Advances, None
<1>4. get_validator_set_update_epoch(NextState) = valset[Top + 2] + 1
  BY <1>1, <1>2 DEF IInv, Pending, Advances, None,
     get_validator_set_update_epoch, EPOCH_SWITCH_BLOCKS_DELAY
<1>5. ASSUME Top + 1 <= MaxHeight
      PROVE  AdoptUpdates(NextState, Top + 1)[Top + 3] =
               IF NextState.delay = None THEN NextState.epoch
               ELSE NextState.epoch + 1
  <2>1. /\ Top + 3 \in DOMAIN valset
        /\ (Top + 1) + 2 = Top + 3 /\ (Top + 1) + 1 = Top + 2
    BY <1>2, <1>5 DEF IInv
  <2>2. AdoptUpdates(NextState, Top + 1)[Top + 3] =
          IF NextState.delay = 2 THEN NextState.epoch + 1
          ELSE valset[Top + 2]
    BY <2>1 DEF AdoptUpdates, EPOCH_SWITCH_BLOCKS_DELAY
  <2> QED
    BY <2>2, <1>1, <1>2 DEF IInv, Pending, Advances, None
<1> QED
  BY <1>1, <1>2, <1>3, <1>4, <1>5

LEMMA ElementInSet ==
  ASSUME NEW S, NEW s \in Seq(S), NEW i \in 1..Len(s)
  PROVE  s[i] \in S
OBVIOUS

LEMMA DecideInv ==
  ASSUME IInv, NEW step \in Step, NEW duration \in Duration,
         Decide(step, duration)
  PROVE  IInv'
<1> USE HeightAssumption, DurationAssumption
<1>1. Top' = Top /\ Top \in 0..MaxHeight /\ Len(blocks) = Top
  BY DEF IInv, Decide, Typed, Top
<1>2. LastTime \in Nat
  <2>1. blocks \in Seq([time : Nat, duration : Duration])
    BY DEF IInv
  <2>2. CASE blocks = << >>
    BY <2>2 DEF LastTime
  <2>3. CASE blocks # << >>
    <3>1. Len(blocks) \in 1..Len(blocks)
      BY <2>1, <2>3
    <3>2. blocks[Len(blocks)] \in [time : Nat, duration : Duration]
      BY <2>1, <3>1, ElementInSet
    <3> QED BY <3>2, <2>3 DEF LastTime
  <2> QED BY <2>2, <2>3
<1>3. /\ blocks' \in Seq([time : Nat, duration : Duration])
      /\ Len(blocks') = Top + 1
      /\ Top + 1 <= MaxHeight
  <2>1. [time |-> LastTime + step, duration |-> duration]
          \in [time : Nat, duration : Duration]
    BY <1>2
  <2>2. blocks \in Seq([time : Nat, duration : Duration])
    BY DEF IInv
  <2>3. /\ Append(blocks, [time |-> LastTime + step, duration |-> duration])
             \in Seq([time : Nat, duration : Duration])
        /\ Len(Append(blocks, [time |-> LastTime + step,
                               duration |-> duration])) = Len(blocks) + 1
    BY <2>1, <2>2
  <2> QED BY <2>3, <1>1 DEF Decide
<1>4. in_mem = db
  BY <1>1 DEF IInv, InMemory
<1>5. Top + 1 \in Heights => epochs[Top + 1] = None
  BY <1>1 DEF IInv, Finalizations
<1>6. InMemory' /\ Pending'
  BY <1>1, <1>4 DEF IInv, Decide, InMemory, Pending
<1>7. Finalizations'
  BY <1>1, <1>5 DEF IInv, Decide, Finalizations
<1> QED
  BY <1>1, <1>3, <1>6, <1>7 DEF IInv, Decide, Typed

LEMMA FinalizeInv ==
  ASSUME IInv, FinalizeBlock
  PROVE  IInv'
<1> USE HeightAssumption
<1>1. Advances(db.epoch, NextState, Top + 1) /\ Top \in 0..MaxHeight
      /\ NextState.epoch \in Nat
  BY OnTop
<1>2. in_mem = db
  BY <1>1 DEF IInv, InMemory, FinalizeBlock, MidBlock, Advances, Top
<1>3. /\ in_mem.epoch.last_height + 1 = Top + 1
      /\ update_state(in_mem, Top + 1) = NextState
      /\ Top + 1 <= Len(blocks)
  BY <1>2 DEF IInv, FinalizeBlock, NextState
<1>4. /\ in_mem' = [epoch |-> NextState,
                   duration |-> blocks[Top + 1].duration]
      /\ update' = get_validator_set_update_epoch(NextState)
      /\ valset' = AdoptUpdates(NextState, Top + 1)
      /\ epochs' = [epochs EXCEPT ![Top + 1] = NextState.epoch]
      /\ blocks' = blocks /\ db' = db
  BY <1>3 DEF FinalizeBlock
<1>5. Top' = Top /\ NextState' = NextState /\ Top + 1 \in Heights
  <2>1. Top' = Top
    BY <1>4 DEF Top
  <2>2. NextState' = NextState
    BY <1>4, <2>1 DEF NextState, update_state
  <2>3. Len(blocks) \in 0..MaxHeight
    BY DEF IInv
  <2>4. Top + 1 \in Heights
    BY <1>1, <1>3, <2>3 DEF Heights
  <2> QED BY <2>1, <2>2, <2>4
<1>6. /\ \A h \in 1..(Top + 2) : valset'[h] = valset[h]
      /\ valset' \in [1..(MaxHeight + 2) -> Nat]
      /\ AdoptUpdates(NextState, Top + 1)' = AdoptUpdates(NextState, Top + 1)
  <2> DEFINE value == IF NextState.delay = EPOCH_SWITCH_BLOCKS_DELAY
                      THEN NextState.epoch + 1 ELSE valset[(Top + 1) + 1]
  <2>1. valset' = [valset EXCEPT ![(Top + 1) + 2] = value]
    BY <1>4 DEF AdoptUpdates
  <2>2. value \in Nat
    BY <1>1, <1>5 DEF IInv, Heights
  <2>3. valset \in [1..(MaxHeight + 2) -> Nat]
    BY DEF IInv
  <2> HIDE DEF value
  <2>4. /\ \A h \in 1..(Top + 2) : valset'[h] = valset[h]
        /\ valset' \in [1..(MaxHeight + 2) -> Nat]
    BY <2>1, <2>2, <2>3, <1>1, <1>5 DEF Heights
  <2>5. valset'[(Top + 1) + 1] = valset[(Top + 1) + 1]
    BY <2>4, <1>1
  <2>6. AdoptUpdates(NextState, Top + 1)' =
          [valset' EXCEPT ![(Top + 1) + 2] = value]
    BY <2>5, <1>5 DEF AdoptUpdates, value
  <2>7. [valset' EXCEPT ![(Top + 1) + 2] = value] = valset'
    BY <2>1, <2>3
  <2> QED BY <2>4, <2>6, <2>7, <1>4
<1>7. epochs' \in [Heights -> Nat \union {None}]
  BY <1>1, <1>4 DEF IInv
<1>8. Pending'
  <2>1. valset'[Top + 1] = valset[Top + 1] /\ valset'[Top + 2] = valset[Top + 2]
    BY <1>6, <1>1
  <2>2. Pending
    BY DEF IInv
  <2> QED BY <2>1, <2>2, <1>4, <1>5 DEF Pending
<1>9. epochs'[Top + 1] = NextState.epoch /\ NextState.epoch # None
  BY <1>1, <1>4, <1>5 DEF IInv, None
<1>10. InMemory'
  BY <1>3, <1>4, <1>5, <1>9 DEF InMemory
<1>11. Finalizations'
  <2>1. \A h \in 1..Top : epochs'[h] = epochs[h] /\ valset'[h] = valset[h]
    <3>1. ASSUME NEW h \in 1..Top
          PROVE  epochs'[h] = epochs[h] /\ valset'[h] = valset[h]
      <4>1. h \in Heights /\ h # Top + 1 /\ h \in 1..(Top + 2)
        BY <1>1 DEF Heights
      <4> QED BY <4>1, <1>4, <1>6 DEF IInv
    <3> QED BY <3>1
  <2>2. \A h \in Heights : h > Top + 1 => epochs'[h] = epochs[h]
    BY <1>1, <1>4, <1>5 DEF IInv, Heights
  <2>3. valset'[Top + 3] = AdoptUpdates(NextState, Top + 1)'[Top + 3]
    BY <1>4, <1>6
  <2>4. Finalizations
    BY DEF IInv
  <2>5. \A h \in 1..Top' : epochs'[h] # None /\ valset'[h] = epochs'[h]
    BY <1>5, <2>1, <2>4 DEF Finalizations
  <2>6. \A h \in Heights : h > Top' + 1 => epochs'[h] = None
    BY <1>5, <2>2, <2>4 DEF Finalizations
  <2>7. /\ Top' + 1 <= Len(blocks')
        /\ epochs'[Top' + 1] = NextState'.epoch
        /\ valset'[Top' + 3] = AdoptUpdates(NextState, Top + 1)'[Top' + 3]
    BY <1>3, <1>4, <1>5, <1>9, <2>3
  <2> QED
    BY <2>5, <2>6, <2>7 DEF Finalizations
<1> QED
  BY <1>4, <1>5, <1>6, <1>7, <1>8, <1>10, <1>11 DEF IInv, Typed

LEMMA CommitInv ==
  ASSUME IInv, Commit
  PROVE  IInv'
<1> USE HeightAssumption
<1>1. /\ Advances(db.epoch, NextState, Top + 1) /\ Top \in 0..MaxHeight
      /\ NextState.epoch \in Nat
      /\ NextState.delay \in {None, 1, 2}
      /\ valset[Top + 1] = NextState.epoch
      /\ Top + 1 <= MaxHeight =>
           AdoptUpdates(NextState, Top + 1)[Top + 3] =
             IF NextState.delay = None THEN NextState.epoch
             ELSE NextState.epoch + 1
      /\ get_validator_set_update_epoch(NextState) = valset[Top + 2] + 1
  BY OnTop
<1>2. in_mem # db
  BY DEF IInv, Commit, MidBlock, Top
<1>3. /\ in_mem = [epoch |-> NextState, duration |-> blocks[Top + 1].duration]
      /\ Top + 1 <= Len(blocks) /\ epochs[Top + 1] # None
  BY <1>2 DEF IInv, InMemory
<1>4. Len(blocks) = Top + 1 /\ Top + 1 <= MaxHeight /\ Top + 1 \in Heights
  BY <1>1, <1>3 DEF IInv, Heights
<1>5. /\ db' = [epoch |-> [NextState EXCEPT !.last_height = NextState.height],
               duration |-> blocks[Top + 1].duration]
      /\ in_mem' = db'
      /\ blocks' = blocks /\ valset' = valset /\ epochs' = epochs
  BY <1>3 DEF Commit, Committed
<1>6. /\ db'.epoch.height = Top + 1 /\ db'.epoch.last_height = Top + 1
      /\ db'.epoch.epoch = NextState.epoch
      /\ db'.epoch.delay = NextState.delay
      /\ Top' = Top + 1
  BY <1>1, <1>5 DEF Advances, Top
<1>7. Typed(db)'
  BY <1>1, <1>4, <1>5, <1>6 DEF Typed, Advances
<1>8. /\ epochs[Top + 1] = NextState.epoch
      /\ valset[Top + 3] = AdoptUpdates(NextState, Top + 1)[Top + 3]
  BY <1>3, <1>4 DEF IInv, Finalizations
<1>9. Pending'
  <2>1. valset[Top + 3] = IF NextState.delay = None THEN NextState.epoch
                          ELSE NextState.epoch + 1
    BY <1>1, <1>4, <1>8
  <2>2. valset[Top + 2] = IF NextState.delay = 1 THEN NextState.epoch + 1
                          ELSE NextState.epoch
    <3>1. valset[Top + 2] \in Nat
      BY <1>1, <1>4 DEF IInv
    <3> QED
      BY <1>1, <3>1 DEF get_validator_set_update_epoch, None,
         EPOCH_SWITCH_BLOCKS_DELAY
  <2>3. (Top + 1) + 1 = Top + 2 /\ (Top + 1) + 2 = Top + 3
    BY <1>1
  <2> QED
    BY <2>1, <2>2, <2>3, <1>5, <1>6 DEF Pending
<1>10. Finalizations'
  <2>1. \A h \in 1..(Top + 1) : epochs[h] # None /\ valset[h] = epochs[h]
    <3>1. ASSUME NEW h \in 1..(Top + 1)
          PROVE  epochs[h] # None /\ valset[h] = epochs[h]
      <4>1. CASE h = Top + 1
        BY <4>1, <1>1, <1>3, <1>8
      <4>2. CASE h # Top + 1
        <5>1. h \in 1..Top
          BY <4>2, <1>1
        <5> QED BY <5>1 DEF IInv, Finalizations
      <4> QED BY <4>1, <4>2
    <3> QED BY <3>1
  <2>2. \A h \in Heights : h > (Top + 1) => epochs[h] = None
    BY DEF IInv, Finalizations
  <2>3. /\ \A h \in Heights : h > (Top + 1) + 1 => epochs[h] = None
        /\ (Top + 1) + 1 \in Heights => epochs[(Top + 1) + 1] = None
    BY <2>2, <1>1 DEF Heights
  <2> QED
    BY <2>1, <2>3, <1>5, <1>6 DEF Finalizations
<1>11. InMemory'
  BY <1>5 DEF InMemory
<1>12. Len(blocks') = Top' /\ Len(blocks') \in 0..MaxHeight
  BY <1>1, <1>4, <1>5, <1>6
<1> QED
  BY <1>5, <1>6, <1>7, <1>9, <1>10, <1>11, <1>12 DEF IInv

LEMMA CrashInv ==
  ASSUME IInv, Crash
  PROVE  IInv'
<1>1. /\ in_mem' = db /\ blocks' = blocks /\ db' = db
      /\ valset' = valset /\ epochs' = epochs
  BY DEF Crash, load_last_state
<1>2. Top' = Top /\ NextState' = NextState
  BY <1>1 DEF Top, NextState, update_state
<1>3. AdoptUpdates(NextState, Top + 1)' = AdoptUpdates(NextState, Top + 1)
  BY <1>1, <1>2 DEF AdoptUpdates
<1> QED
  BY <1>1, <1>2, <1>3 DEF IInv, Pending, InMemory, Finalizations, Typed

LEMMA StutterInv ==
  ASSUME IInv, UNCHANGED vars
  PROVE  IInv'
<1>1. /\ in_mem' = in_mem /\ blocks' = blocks /\ db' = db
      /\ valset' = valset /\ epochs' = epochs /\ update' = update
  BY DEF vars
<1>2. Top' = Top /\ NextState' = NextState
  BY <1>1 DEF Top, NextState, update_state
<1>3. AdoptUpdates(NextState, Top + 1)' = AdoptUpdates(NextState, Top + 1)
  BY <1>1, <1>2 DEF AdoptUpdates
<1> QED
  BY <1>1, <1>2, <1>3 DEF IInv, Pending, InMemory, Finalizations, Typed

LEMMA NextInv == IInv /\ [Next]_vars => IInv'
BY DecideInv, FinalizeInv, CommitInv, CrashInv, StutterInv DEF Next

LEMMA Invariance == Spec => []IInv
BY InitInv, NextInv, PTL DEF Spec

-----------------------------------------------------------------------------
(* Whatever the durations, the header times and the crashes, CometBFT has  *)
(* every finalized height voted on by the validators of its epoch          *)
(* (finalize_block's update_for_tendermint against update_epoch).          *)
THEOREM ValidatorsInForce == Spec => []ValidatorsMatchEpoch
<1>1. IInv => ValidatorsMatchEpoch
  <2> SUFFICES ASSUME IInv, NEW h \in Heights, epochs[h] # None
               PROVE  valset[h] = epochs[h]
    BY DEF ValidatorsMatchEpoch
  <2>1. Top \in 0..MaxHeight /\ valset[Top + 1] = NextState.epoch
    BY OnTop
  <2>2. Finalizations
    BY DEF IInv
  <2>3. h \in 1..Top \/ h = Top + 1
    BY <2>1, <2>2, HeightAssumption DEF Finalizations, Heights
  <2> QED
    BY <2>1, <2>2, <2>3 DEF Finalizations
<1> QED
  BY <1>1, Invariance, PTL

(* Jailing applies from the first epoch whose validators CometBFT has not  *)
(* been sent (get_validator_set_update_epoch).                             *)
THEOREM JailingInTime == Spec => []UpdateEpochIsFirstUnsent
<1>1. IInv => UpdateEpochIsFirstUnsent
  <2> SUFFICES ASSUME IInv, MidBlock
               PROVE  update = valset[in_mem.epoch.height + 1] + 1
    BY DEF UpdateEpochIsFirstUnsent
  <2>1. /\ Top \in 0..MaxHeight
        /\ Advances(db.epoch, NextState, Top + 1)
        /\ get_validator_set_update_epoch(NextState) = valset[Top + 2] + 1
    BY OnTop
  <2>2. in_mem # db
    BY DEF IInv, MidBlock, Top
  <2>3. /\ in_mem.epoch = NextState
        /\ update = get_validator_set_update_epoch(NextState)
    BY <2>2 DEF IInv, InMemory
  <2>4. in_mem.epoch.height + 1 = Top + 2
    BY <2>1, <2>3 DEF Advances
  <2> QED BY <2>1, <2>3, <2>4
<1> QED
  BY <1>1, Invariance, PTL

(* Finalizing a block again after a crash gives its height the same epoch  *)
(* and leaves the validators CometBFT was told of as they were.            *)
THEOREM ReplaysRepeat == Spec => ReplayRepeats
<1> DEFINE Kept == \A h \in Heights :
                     epochs[h] # None => /\ epochs'[h] = epochs[h]
                                         /\ valset'[h] = valset[h]
<1>1. ASSUME IInv, [Next]_vars
      PROVE  Kept
  <2>1. CASE FinalizeBlock
    <3>1. /\ Top \in 0..MaxHeight
          /\ Advances(db.epoch, NextState, Top + 1)
      BY <1>1, OnTop
    <3>2. in_mem = db
      BY <1>1, <2>1, <3>1 DEF IInv, InMemory, FinalizeBlock, MidBlock, Advances, Top
    <3>3. /\ valset' = AdoptUpdates(NextState, Top + 1)
          /\ epochs' = [epochs EXCEPT ![Top + 1] = NextState.epoch]
      BY <1>1, <2>1, <3>2 DEF IInv, FinalizeBlock, NextState
    <3>4. ASSUME NEW h \in Heights, epochs[h] # None
          PROVE  epochs'[h] = epochs[h] /\ valset'[h] = valset[h]
      <4>0. Finalizations
        BY <1>1 DEF IInv
      <4>1. h <= Top + 1
        BY <4>0, <3>1, <3>4, HeightAssumption DEF Finalizations, Heights
      <4>2. h # (Top + 1) + 2 /\ h \in Nat
        BY <4>1, <3>1 DEF Heights
      <4>3. valset'[h] = valset[h]
        BY <1>1, <3>3, <4>2 DEF AdoptUpdates, IInv
      <4>4. epochs'[h] = epochs[h]
        BY <4>0, <3>1, <3>3, <3>4, HeightAssumption DEF Finalizations
      <4> QED BY <4>3, <4>4
    <3> QED BY <3>4
  <2>2. CASE ~FinalizeBlock
    <3>1. epochs' = epochs /\ valset' = valset
      BY <1>1, <2>2 DEF Next, Decide, Commit, Crash, vars
    <3> QED BY <3>1
  <2> QED BY <2>1, <2>2
<1> QED
  BY <1>1, Invariance, PTL DEF Spec, ReplayRepeats

=============================================================================
