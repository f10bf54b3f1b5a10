------------------------- MODULE PosLivenessProofs -------------------------
(***************************************************************************)
(* Liveness tracking of proof of stake, for every set of validators, every *)
(* window and threshold that governance may choose, and chains of any      *)
(* length: the record of missed votes is exact, and a validator over the   *)
(* threshold is jailed and stays so.  Both rest on the fact that outside   *)
(* of a block exactly the current consensus set can have a record, so that *)
(* nobody's record survives a gap in its stay.                             *)
(***************************************************************************)
EXTENDS PosLiveness, TLAPS, SequenceTheorems, FiniteSetTheorems

Vote == [asked : SUBSET Validator, signed : SUBSET Validator, window : Window]
States == [Offset -> [Validator -> ValidatorState]]

LivenessTypes ==
  /\ voted \in Seq(Vote)
  /\ height = Len(voted) + 1
  /\ states \in States
  /\ window \in Window
  /\ missed \in [Validator -> SUBSET Nat]
  /\ DOMAIN sum \subseteq Validator

(* The validators with a record are in the consensus set and were asked for *)
(* the last vote; one of the set without a record was not asked.           *)
AskedLast(v) == Len(voted) > 0 /\ v \in voted[Len(voted)].asked

RecordsOfConsensus ==
  \A v \in Validator :
    /\ v \in DOMAIN sum => states[0][v] = "Consensus" /\ AskedLast(v)
    /\ v \notin DOMAIN sum => ~(states[0][v] = "Consensus" /\ AskedLast(v))

(* Jailed in the next epoch and not yet now: jailed in the one after, too. *)
JailedThrough(st) ==
  \A v \in Validator :
    st[1][v] = "Jailed" /\ st[0][v] # "Jailed" => st[2][v] = "Jailed"

(* WindowExact for one validator: its misses in the stay, the windows that  *)
(* were in force, and the record that has those of the last w heights.     *)
Misses(v) == MissedIn(v, Span(v))
Windows(v) == {voted[h].window : h \in Span(v)}
Recent(v, w) == {h \in Misses(v) : h > Len(voted) - w}

RecordExact(v) ==
  /\ Span(v) # {}
  /\ sum[v] = Cardinality(missed[v])
  /\ missed[v] \subseteq Misses(v)
  /\ \E w \in Windows(v) : Recent(v, w) \subseteq missed[v]
  /\ \A w \in Windows(v) : Windows(v) = {w} => missed[v] = Recent(v, w)

RecordsExact ==
  \A v \in Validator : /\ v \notin DOMAIN sum => missed[v] = {}
                       /\ v \in DOMAIN sum => RecordExact(v)

LivenessInv ==
  /\ LivenessTypes
  /\ RecordsOfConsensus
  /\ JailedThrough(states)
  /\ RecordsExact
  /\ InactiveIsJailed

-----------------------------------------------------------------------------
(* The states of the validators through a block.                           *)
LEMMA CopiedSets ==
  ASSUME states \in States, JailedThrough(states)
  PROVE  /\ copy_sets \in States
         /\ JailedThrough(copy_sets)
         /\ ~is_new_epoch => copy_sets = states
         /\ is_new_epoch => copy_sets[-1] = states[0]
<1>1. CASE ~is_new_epoch
  BY <1>1 DEF copy_sets
<1>2. CASE is_new_epoch
  <2>1. copy_sets = [o \in Offset |-> states[IF o = 2 THEN o ELSE o + 1]]
    BY <1>2 DEF copy_sets, pipeline_len
  <2>2. \A o \in Offset : (IF o = 2 THEN o ELSE o + 1) \in Offset
    BY DEF Offset
  <2>3. copy_sets \in States
    BY <2>1, <2>2 DEF States
  <2>4. copy_sets[-1] = states[0] /\ copy_sets[1] = states[2]
          /\ copy_sets[2] = states[2]
    BY <2>1 DEF Offset
  <2> QED
    BY <1>2, <2>3, <2>4 DEF JailedThrough
<1> QED
  BY <1>1, <1>2

LEMMA JailedForEvidence ==
  ASSUME NEW st \in States, JailedThrough(st), NEW evidence,
         NEW offset \in {1, 2},
         NEW post, post = JailForEvidence(st, evidence, offset)
  PROVE  /\ post \in States
         /\ JailedThrough(post)
         /\ post[-1] = st[-1] /\ post[0] = st[0]
<1>1. post \in States
  BY DEF JailForEvidence, States, ValidatorState
<1>2. \A v \in Validator :
        /\ post[-1][v] = st[-1][v] /\ post[0][v] = st[0][v]
        /\ post[1][v] = IF 1 >= offset /\ v \in evidence
                        THEN "Jailed" ELSE st[1][v]
        /\ post[2][v] = IF v \in evidence THEN "Jailed" ELSE st[2][v]
  BY DEF JailForEvidence, Offset
<1>3. post[-1] = st[-1] /\ post[0] = st[0]
  BY <1>1, <1>2 DEF States, Offset
<1>4. JailedThrough(post)
  BY <1>2 DEF JailedThrough
<1> QED
  BY <1>1, <1>3, <1>4

(* Whoever is over the threshold, and is not jailed now, will be.          *)
JailedIfOver(l, st, offset, post) ==
  \A v \in DOMAIN l.sum :
    l.sum[v] >= threshold(window) /\ st[0][v] # "Jailed"
      => \A o \in offset..2 : post[o][v] = "Jailed"

LEMMA JailedForLiveness ==
  ASSUME NEW st \in States, JailedThrough(st), NEW l, DOMAIN l.sum \subseteq Validator,
         NEW offset \in {1, 2},
         NEW post, post = jail_for_liveness(l, st, offset)
  PROVE  /\ post \in States
         /\ JailedThrough(post)
         /\ post[0] = st[0]
         /\ JailedIfOver(l, st, offset, post)
<1> DEFINE J == validators_to_jail(l, st, offset)
<1>1. post \in States
  BY DEF jail_for_liveness, States, ValidatorState
<1>2. \A v \in Validator :
        /\ post[0][v] = st[0][v]
        /\ post[1][v] = IF 1 >= offset /\ v \in J THEN "Jailed" ELSE st[1][v]
        /\ post[2][v] = IF v \in J THEN "Jailed" ELSE st[2][v]
  BY DEF jail_for_liveness, Offset
<1>3. post[0] = st[0]
  BY <1>1, <1>2 DEF States, Offset
<1>4. ASSUME NEW v \in DOMAIN l.sum,
             l.sum[v] >= threshold(window), st[0][v] # "Jailed",
             NEW o \in offset..2
      PROVE  post[o][v] = "Jailed"
  <2>1. v \in J \/ st[offset][v] = "Jailed"
    BY <1>4 DEF validators_to_jail
  <2>2. v \in Validator /\ (o = 1 \/ o = 2) /\ (o = 1 => offset = 1)
    OBVIOUS
  <2> HIDE DEF J
  <2>3. st[offset][v] = "Jailed" => st[2][v] = "Jailed"
    BY <1>4, <2>2 DEF JailedThrough
  <2> QED
    BY <1>2, <2>1, <2>2, <2>3
<1> HIDE DEF J
<1>5. JailedThrough(post)
  BY <1>2 DEF JailedThrough
<1> QED
  BY <1>1, <1>3, <1>4, <1>5 DEF JailedIfOver

LEMMA ResettledSets ==
  ASSUME NEW st \in States, JailedThrough(st), NEW moved,
         NEW post, post = Resettled(st, moved)
  PROVE  /\ post \in States
         /\ JailedThrough(post)
         /\ post[0] = st[0] /\ post[2] = st[2]
         /\ \A v \in Validator : post[1][v] = "Jailed" <=> st[1][v] = "Jailed"
<1> DEFINE next == [v \in Validator |->
                      CASE v \in moved /\ st[1][v] = "Consensus" -> "Other"
                        [] v \in moved /\ st[1][v] = "Other" -> "Consensus"
                        [] OTHER -> st[1][v]]
<1>1. next \in [Validator -> ValidatorState]
  BY DEF States, Offset, ValidatorState
<1>2. \A v \in Validator : next[v] = "Jailed" <=> st[1][v] = "Jailed"
  BY DEF States, Offset, ValidatorState
<1>3. post = [st EXCEPT ![1] = next]
  BY DEF Resettled
<1> HIDE DEF next
<1>4. post \in States /\ post[0] = st[0] /\ post[1] = next /\ post[2] = st[2]
  BY <1>1, <1>3 DEF States, Offset
<1> QED
  BY <1>2, <1>4 DEF JailedThrough

(* A transaction may not unjail who is not jailed now.                     *)
StaysJailed(st, post) ==
  \A v \in Validator : st[2][v] = "Jailed" /\ st[0][v] # "Jailed"
                         => post[2][v] = "Jailed"

LEMMA StakedSets ==
  ASSUME NEW st \in States, JailedThrough(st), NEW s \in StakingResult(st),
         NEW post, post = [st EXCEPT ![pipeline_len] = s]
  PROVE  /\ post \in States
         /\ JailedThrough(post)
         /\ post[0] = st[0] /\ post[1] = st[1]
         /\ StaysJailed(st, post)
<1>1. s \in [Validator -> ValidatorState]
  BY DEF StakingResult
<1>2. \A v \in Validator :
        st[2][v] = "Jailed" /\ st[0][v] # "Jailed" => s[v] = "Jailed"
  BY DEF StakingResult, pipeline_len
<1>3. post \in States /\ post[0] = st[0] /\ post[1] = st[1] /\ post[2] = s
  BY <1>1 DEF States, Offset, pipeline_len
<1> QED
  BY <1>2, <1>3 DEF JailedThrough, StaysJailed

-----------------------------------------------------------------------------
(* The record of one validator through a block at which it was asked, with *)
(* n heights before it: M its misses, m the record of them, and the same   *)
(* afterwards, when the height n + 1 may have been missed as well.         *)
SlidWindow(n, W, M, m, M2, m2) ==
  /\ m2 \subseteq M2
  /\ \A w \in Nat : {h \in M : h > n - w} \subseteq m
       => \E w2 \in {w, W} : {h \in M2 : h > n + 1 - w2} \subseteq m2
  /\ m = {h \in M : h > n - W} => m2 = {h \in M2 : h > n + 1 - W}

LEMMA WindowSlides ==
  ASSUME NEW n \in Nat, NEW W \in Nat \ {0}, NEW M \in SUBSET (1..n),
         NEW m \in SUBSET M, NEW new \in SUBSET {n + 1},
         NEW m2, m2 = (m \ {n + 1 - W}) \union new
  PROVE  SlidWindow(n, W, M, m, M \union new, m2)
<1>1. m2 \subseteq M \union new
  OBVIOUS
<1>2. ASSUME NEW w \in Nat, {h \in M : h > n - w} \subseteq m
      PROVE  \E w2 \in {w, W} :
               {h \in M \union new : h > n + 1 - w2} \subseteq m2
  <2>1. CASE w <= W
    <3>1. ASSUME NEW h \in M \union new, h > n + 1 - w PROVE h \in m2
      <4>1. CASE h \in M
        <5>1. h \in 1..n /\ h > n - w /\ h # n + 1 - W
          BY <2>1, <3>1, <4>1
        <5> QED
          BY <1>2, <4>1, <5>1
      <4> QED
        BY <4>1
    <3> QED
      BY <3>1
  <2>2. CASE W < w
    <3>1. ASSUME NEW h \in M \union new, h > n + 1 - W PROVE h \in m2
      <4>1. CASE h \in M
        <5>1. h \in 1..n /\ h > n - w /\ h # n + 1 - W
          BY <2>2, <3>1, <4>1
        <5> QED
          BY <1>2, <4>1, <5>1
      <4> QED
        BY <4>1
    <3> QED
      BY <3>1
  <2> QED
    BY <2>1, <2>2
<1>3. ASSUME m = {h \in M : h > n - W}
      PROVE  m2 = {h \in M \union new : h > n + 1 - W}
  <2>1. ASSUME NEW h \in m2 PROVE h \in M \union new /\ h > n + 1 - W
    <3>1. CASE h \in new
      BY <3>1
    <3>2. CASE h \in m /\ h # n + 1 - W
      <4>1. h \in 1..n /\ h > n - W
        BY <1>3, <3>2
      <4> QED
        BY <3>2, <4>1
    <3> QED
      BY <3>1, <3>2
  <2>2. ASSUME NEW h \in M \union new, h > n + 1 - W PROVE h \in m2
    <3>1. CASE h \in M
      <4>1. h \in 1..n /\ h > n - W /\ h # n + 1 - W
        BY <2>2, <3>1
      <4> QED
        BY <1>3, <3>1, <4>1
    <3> QED
      BY <3>1
  <2> QED
    BY <2>1, <2>2
<1> QED
  BY <1>1, <1>2, <1>3 DEF SlidWindow

(* One height may leave the record and one may enter it.                   *)
SlidSum(n, W, m, new) ==
  Cardinality(m) - (IF n + 1 - W \in m THEN 1 ELSE 0)
                 + (IF new = {} THEN 0 ELSE 1)

LEMMA SumSlides ==
  ASSUME NEW n \in Nat, NEW W \in Nat \ {0}, NEW m \in SUBSET (1..n),
         NEW new \in SUBSET {n + 1},
         NEW m2, m2 = (m \ {n + 1 - W}) \union new
  PROVE  Cardinality(m2) = SlidSum(n, W, m, new)
<1> DEFINE kept == m \ {n + 1 - W}
<1>1. IsFiniteSet(m)
  BY FS_Interval, FS_Subset, 1 \in Int, n \in Int
<1>2. Cardinality(m) \in Nat
  BY <1>1, FS_CardinalityType
<1>3. IsFiniteSet(kept)
  BY <1>1, FS_Subset
<1>4. Cardinality(kept) = Cardinality(m) - (IF n + 1 - W \in m THEN 1 ELSE 0)
  <2>1. CASE n + 1 - W \in m
    BY <1>1, <2>1, FS_RemoveElement
  <2>2. CASE n + 1 - W \notin m
    <3>1. kept = m
      BY <2>2
    <3> HIDE DEF kept
    <3>2. Cardinality(kept) = Cardinality(m)
      BY <3>1
    <3> QED
      BY <1>2, <2>2, <3>2
  <2> QED
    BY <2>1, <2>2
<1>5. Cardinality(kept) \in Nat
  BY <1>3, FS_CardinalityType
<1>6. CASE new = {}
  <2>1. m2 = kept
    BY <1>6
  <2> QED
    BY <1>4, <1>5, <1>6, <2>1 DEF SlidSum
<1>7. CASE new = {n + 1}
  <2>1. n + 1 \notin kept /\ m2 = kept \union {n + 1}
    BY <1>7
  <2>2. Cardinality(m2) = Cardinality(kept) + 1
    BY <1>3, <2>1, FS_AddElement
  <2> QED
    BY <1>4, <1>7, <2>2 DEF SlidSum
<1> QED
  BY <1>6, <1>7

-----------------------------------------------------------------------------
(* What a block does to the records, whichever way it goes: those who are  *)
(* asked are the consensus set of the epoch of the votes, and whoever has  *)
(* a record afterwards was asked and is in the set of the current epoch.   *)
RecordSlid(v, signed) ==
  /\ missed'[v] = (missed[v] \ {height - window})
                    \union (IF v \in signed THEN {} ELSE {height})
  /\ sum'[v] = (IF v \in DOMAIN sum THEN sum[v] ELSE 0)
                 - (IF height - window \in missed[v] THEN 1 ELSE 0)
                 + (IF v \in signed THEN 0 ELSE 1)

LEMMA BlockEffect ==
  ASSUME LivenessInv, NEW signed, NEW evidence, NEW moved, NEW finished,
         FinalizeVotes(signed, evidence, moved, finished),
         NEW A, A = consensus_set(states, 0)
  PROVE  /\ signed \subseteq A
         /\ voted' = Append(voted, [asked |-> A, signed |-> signed,
                                    window |-> window])
         /\ height' = height + 1
         /\ states' \in States /\ JailedThrough(states')
         /\ window' \in Window
         /\ missed' \in [Validator -> SUBSET Nat]
         /\ DOMAIN sum' \subseteq A
         /\ \A v \in DOMAIN sum' :
              /\ states'[0][v] = "Consensus"
              /\ RecordSlid(v, signed)
              /\ sum'[v] >= threshold(window) =>
                   \A o \in jail_offset(delay')..2 : states'[o][v] = "Jailed"
         /\ \A v \in Validator \ DOMAIN sum' :
              /\ missed'[v] = {}
              /\ ~(v \in A /\ states'[0][v] = "Consensus")
<1> DEFINE d == update_delay(finished)
           offset == jail_offset(d)
           st == JailForEvidence(copy_sets, evidence, offset)
           l == [missed |-> missed, sum |-> sum]
           rec == record_liveness_data(A, signed, height, l)
           now == jail_for_liveness(rec, st, offset)
           jailed == Resettled(now, moved)
           kept == IF is_new_epoch THEN prune_liveness_data(rec, jailed) ELSE rec
<1>t. /\ states \in States /\ JailedThrough(states)
      /\ missed \in [Validator -> SUBSET Nat]
      /\ DOMAIN sum \subseteq Validator
      /\ height \in Nat /\ window \in Nat \ {0}
      /\ voted \in Seq(Vote)
  BY LivenessAssumption DEF LivenessInv, LivenessTypes
<1>o. offset \in {1, 2}
  BY DEF jail_offset
<1>1. /\ copy_sets \in States /\ JailedThrough(copy_sets)
      /\ ~is_new_epoch => copy_sets = states
      /\ is_new_epoch => copy_sets[-1] = states[0]
  BY <1>t, CopiedSets
<1>2. /\ st \in States /\ JailedThrough(st)
      /\ st[-1] = copy_sets[-1] /\ st[0] = copy_sets[0]
  BY <1>1, <1>o, JailedForEvidence
<1> HIDE DEF st
<1>3. consensus_set(st, IF is_new_epoch THEN -1 ELSE 0) = A
  BY <1>1, <1>2 DEF consensus_set
<1>4. A \subseteq Validator
  BY DEF consensus_set
<1>5. DOMAIN sum \subseteq A /\ \A v \in Validator \ DOMAIN sum : missed[v] = {}
  BY <1>t DEF LivenessInv, RecordsOfConsensus, consensus_set, RecordsExact
<1>6. signed \subseteq A
  BY <1>3 DEF FinalizeVotes, st
<1>7. /\ DOMAIN rec.sum = A
      /\ DOMAIN rec.missed = Validator
      /\ \A v \in A :
           /\ rec.missed[v] = (missed[v] \ {height - window})
                    \union (IF v \in signed THEN {} ELSE {height})
           /\ rec.sum[v] = (IF v \in DOMAIN sum THEN sum[v] ELSE 0)
                             - (IF height - window \in missed[v] THEN 1 ELSE 0)
                             + (IF v \in signed THEN 0 ELSE 1)
      /\ \A v \in Validator \ A : rec.missed[v] = missed[v]
  BY <1>4, <1>5 DEF record_liveness_data
<1>8. \A v \in Validator : rec.missed[v] \in SUBSET Nat
  BY <1>7, <1>t
<1>9. rec.missed = [v \in Validator |-> rec.missed[v]]
  BY DEF record_liveness_data
<1>10. /\ voted' = Append(voted, [asked |-> A, signed |-> signed,
                                  window |-> window])
       /\ height' = height + 1
       /\ delay' = d
       /\ missed' = kept.missed
       /\ sum' = kept.sum
       /\ \E s \in StakingResult(jailed) :
            states' = [jailed EXCEPT ![pipeline_len] = s]
       /\ window' \in IF is_new_epoch THEN Window ELSE {window}
  BY <1>3 DEF FinalizeVotes, st
<1> HIDE DEF rec, d
<1>11. /\ now \in States /\ JailedThrough(now) /\ now[0] = st[0]
       /\ \A v \in A : rec.sum[v] >= threshold(window) /\ st[0][v] # "Jailed"
                         => \A o \in offset..2 : now[o][v] = "Jailed"
  <2>1. DOMAIN rec.sum \subseteq Validator
    BY <1>4, <1>7
  <2>2. now = jail_for_liveness(rec, st, offset)
    OBVIOUS
  <2> HIDE DEF offset, now
  <2>3. /\ now \in States /\ JailedThrough(now) /\ now[0] = st[0]
        /\ JailedIfOver(rec, st, offset, now)
    BY <1>2, <1>o, <2>1, <2>2, JailedForLiveness
  <2> QED
    BY <1>7, <2>3 DEF JailedIfOver
<1> HIDE DEF now
<1>12. /\ jailed \in States /\ JailedThrough(jailed) /\ jailed[0] = st[0]
       /\ jailed[2] = now[2]
       /\ \A v \in Validator : jailed[1][v] = "Jailed" <=> now[1][v] = "Jailed"
  BY <1>11, ResettledSets
<1> HIDE DEF jailed
<1>13. /\ states' \in States /\ JailedThrough(states') /\ states'[0] = st[0]
       /\ states'[1] = jailed[1]
       /\ \A v \in Validator : jailed[2][v] = "Jailed" /\ st[0][v] # "Jailed"
                                 => states'[2][v] = "Jailed"
  <2>1. PICK s \in StakingResult(jailed) :
          states' = [jailed EXCEPT ![pipeline_len] = s]
    BY <1>10
  <2>2. /\ states' \in States /\ JailedThrough(states')
        /\ states'[0] = jailed[0] /\ states'[1] = jailed[1]
        /\ StaysJailed(jailed, states')
    BY <1>12, <2>1, StakedSets
  <2> QED
    BY <1>12, <2>2 DEF StaysJailed
<1>14. /\ DOMAIN sum' \subseteq A
       /\ \A v \in DOMAIN sum' : /\ sum'[v] = rec.sum[v]
                                 /\ missed'[v] = rec.missed[v]
                                 /\ states'[0][v] = "Consensus"
       /\ \A v \in Validator \ DOMAIN sum' :
            /\ missed'[v] = {}
            /\ ~(v \in A /\ states'[0][v] = "Consensus")
       /\ missed' \in [Validator -> SUBSET Nat]
  <2>1. CASE ~is_new_epoch
    <3>1. missed' = rec.missed /\ sum' = rec.sum
      BY <1>10, <2>1
    <3>2. \A v \in A : states'[0][v] = "Consensus"
      BY <1>1, <1>2, <1>13, <2>1 DEF consensus_set
    <3>3. missed' \in [Validator -> SUBSET Nat]
      BY <1>8, <1>9, <3>1
    <3> QED
      BY <1>4, <1>5, <1>7, <3>1, <3>2, <3>3
  <2>2. CASE is_new_epoch
    <3> DEFINE gone == A \ consensus_set(jailed, 0)
    <3>1. /\ missed' = [v \in Validator |->
                          IF v \in gone THEN {} ELSE rec.missed[v]]
          /\ sum' = [v \in A \ gone |-> rec.sum[v]]
      BY <1>7, <1>10, <2>2 DEF prune_liveness_data
    <3>2. \A v \in Validator : v \in consensus_set(jailed, 0)
                                 <=> states'[0][v] = "Consensus"
      BY <1>12, <1>13 DEF consensus_set
    <3>3. missed' \in [Validator -> SUBSET Nat]
      BY <1>8, <3>1
    <3> QED
      BY <1>4, <1>5, <1>7, <3>1, <3>2, <3>3
  <2> QED
    BY <2>1, <2>2
<1>15. ASSUME NEW v \in DOMAIN sum', sum'[v] >= threshold(window),
              NEW o \in jail_offset(delay')..2
       PROVE  states'[o][v] = "Jailed"
  <2>1. v \in A /\ v \in Validator /\ sum'[v] = rec.sum[v]
    BY <1>4, <1>14
  <2>2. st[0][v] # "Jailed"
    BY <1>13, <1>14
  <2>3. o \in offset..2 /\ (o = 1 \/ o = 2)
    BY <1>10, <1>o
  <2>4. now[o][v] = "Jailed"
    BY <1>11, <1>15, <2>1, <2>2, <2>3
  <2> QED
    BY <1>12, <1>13, <2>1, <2>2, <2>3, <2>4
<1>16. window' \in Window
  BY <1>10 DEF LivenessInv, LivenessTypes
<1>17. \A v \in DOMAIN sum' : RecordSlid(v, signed)
  BY <1>7, <1>14 DEF RecordSlid
<1> QED
  BY <1>6, <1>10, <1>13, <1>14, <1>15, <1>16, <1>17

-----------------------------------------------------------------------------
(* How the history of a validator grows by a vote it was asked for.        *)
LEMMA StayGrows ==
  ASSUME voted \in Seq(Vote), NEW r \in Vote, voted' = Append(voted, r),
         NEW v \in r.asked, NEW n, n = Len(voted)
  PROVE  /\ n \in Nat /\ Len(voted') = n + 1 /\ voted'[n + 1] = r
         /\ Span(v) \subseteq 1..n
         /\ Span(v)' = Span(v) \union {n + 1}
         /\ Misses(v)' = Misses(v) \union (IF v \in r.signed THEN {} ELSE {n + 1})
         /\ Windows(v)' = Windows(v) \union {r.window}
<1>1. /\ n \in Nat /\ Len(voted') = n + 1 /\ voted'[n + 1] = r
      /\ \A i \in 1..n : voted'[i] = voted[i]
  BY AppendProperties
<1>2. Span(v) \subseteq 1..n
  BY DEF Span
<1>3. Span(v)' = Span(v) \union {n + 1}
  <2>1. ASSUME NEW h \in 1..(n + 1), \A i \in h..(n + 1) : v \in voted'[i].asked
        PROVE  h \in Span(v) \union {n + 1}
    <3>1. CASE h \in 1..n
      <4>1. \A i \in h..n : v \in voted[i].asked
        BY <1>1, <2>1, <3>1
      <4> QED
        BY <3>1, <4>1 DEF Span
    <3> QED
      BY <1>1, <3>1
  <2>2. ASSUME NEW h \in Span(v) \union {n + 1}
        PROVE  h \in 1..(n + 1) /\ \A i \in h..(n + 1) : v \in voted'[i].asked
    <3>1. CASE h = n + 1
      BY <1>1, <3>1
    <3>2. CASE h \in Span(v)
      <4>1. h \in 1..n /\ \A i \in h..n : v \in voted[i].asked
        BY <3>2 DEF Span
      <4> QED
        BY <1>1, <4>1
    <3> QED
      BY <3>1, <3>2
  <2>3. Span(v)' = {h \in 1..(n + 1) : \A i \in h..(n + 1) : v \in voted'[i].asked}
    BY <1>1 DEF Span
  <2> QED
    BY <2>1, <2>2, <2>3
<1>4. \A h \in Span(v) : voted'[h] = voted[h]
  BY <1>1, <1>2
<1>5. Misses(v)' = {h \in Span(v) \union {n + 1} : v \notin voted'[h].signed}
  BY <1>3 DEF Misses, MissedIn
<1>6. Windows(v)' = {voted'[h].window : h \in Span(v) \union {n + 1}}
  BY <1>3 DEF Windows
<1>7. Misses(v)' = Misses(v) \union (IF v \in r.signed THEN {} ELSE {n + 1})
  BY <1>1, <1>4, <1>5 DEF Misses, MissedIn
<1>8. Windows(v)' = Windows(v) \union {r.window}
  <2>1. ASSUME NEW h \in Span(v) \union {n + 1}
        PROVE  voted'[h].window \in Windows(v) \union {r.window}
    <3>1. CASE h \in Span(v)
      BY <1>4, <3>1 DEF Windows
    <3>2. CASE h = n + 1
      BY <1>1, <3>2
    <3> QED
      BY <3>1, <3>2
  <2>2. r.window \in Windows(v)'
    BY <1>1, <1>6
  <2>3. ASSUME NEW h \in Span(v) PROVE voted[h].window \in Windows(v)'
    BY <1>4, <1>6
  <2>4. Windows(v) \subseteq Windows(v)'
    BY <2>3 DEF Windows
  <2>5. Windows(v)' \subseteq Windows(v) \union {r.window}
    BY <1>6, <2>1
  <2> QED
    BY <2>2, <2>4, <2>5
<1> QED
  BY <1>1, <1>2, <1>3, <1>7, <1>8

LEMMA RecordStaysExact ==
  ASSUME LivenessInv, NEW r \in Vote, voted' = Append(voted, r),
         r.window = window, NEW v \in r.asked, states[0][v] = "Consensus",
         RecordSlid(v, r.signed)
  PROVE  RecordExact(v)'
<1> DEFINE n == Len(voted)
           new == IF v \in r.signed THEN {} ELSE {n + 1}
           had == IF v \in DOMAIN sum THEN sum[v] ELSE 0
<1>1. /\ voted \in Seq(Vote) /\ height = n + 1 /\ v \in Validator
      /\ window \in Window /\ window \in Nat \ {0}
  BY LivenessAssumption DEF LivenessInv, LivenessTypes, Vote
<1>2. /\ n \in Nat /\ Len(voted') = n + 1
      /\ Span(v) \subseteq 1..n
      /\ Span(v)' = Span(v) \union {n + 1}
      /\ Misses(v)' = Misses(v) \union new
      /\ Windows(v)' = Windows(v) \union {window}
  BY <1>1, StayGrows
<1>3. /\ Windows(v) \subseteq Nat
      /\ Misses(v) \subseteq 1..n
  <2>1. \A h \in Span(v) : voted[h] \in Vote
    BY <1>1, <1>2
  <2>2. Windows(v) \subseteq Window
    BY <2>1 DEF Windows, Vote
  <2> QED
    BY <1>2, <2>2, LivenessAssumption DEF Misses, MissedIn
<1>4. /\ missed[v] \subseteq Misses(v)
      /\ had = Cardinality(missed[v])
      /\ \E w \in Windows(v) \union {window} : Recent(v, w) \subseteq missed[v]
      /\ Windows(v) \subseteq {window} => missed[v] = Recent(v, window)
  <2>1. CASE v \in DOMAIN sum
    <3>1. RecordExact(v)
      BY <1>1, <2>1 DEF LivenessInv, RecordsExact
    <3>2. Windows(v) # {}
      BY <3>1 DEF RecordExact, Windows
    <3> QED
      BY <2>1, <3>1, <3>2 DEF RecordExact
  <2>2. CASE v \notin DOMAIN sum
    <3>1. missed[v] = {}
      BY <1>1, <2>2 DEF LivenessInv, RecordsExact
    <3>2. ~AskedLast(v)
      BY <1>1, <2>2 DEF LivenessInv, RecordsOfConsensus
    <3>3. Span(v) = {}
      <4> SUFFICES ASSUME NEW h \in Span(v) PROVE FALSE
        OBVIOUS
      <4>1. h \in 1..n /\ \A i \in h..n : v \in voted[i].asked
        BY DEF Span
      <4> QED
        BY <1>2, <3>2, <4>1 DEF AskedLast
    <3>4. Misses(v) = {} /\ \A w : Recent(v, w) = {}
      BY <3>3 DEF Misses, MissedIn, Recent
    <3>5. Cardinality({}) = 0
      BY FS_EmptySet
    <3> QED
      BY <2>2, <3>1, <3>4, <3>5
  <2> QED
    BY <2>1, <2>2
<1>5. missed'[v] = (missed[v] \ {n + 1 - window}) \union new
  BY <1>1 DEF RecordSlid
<1>6. sum'[v] = Cardinality(missed[v])
                  - (IF n + 1 - window \in missed[v] THEN 1 ELSE 0)
                  + (IF new = {} THEN 0 ELSE 1)
  BY <1>1, <1>4 DEF RecordSlid
<1>7. new \subseteq {n + 1}
  OBVIOUS
<1> HIDE DEF new, had
<1>8. /\ n \in Nat /\ window \in Nat \ {0}
      /\ Misses(v) \in SUBSET (1..n)
      /\ missed[v] \in SUBSET Misses(v) /\ missed[v] \in SUBSET (1..n)
      /\ new \in SUBSET {n + 1}
  BY <1>1, <1>2, <1>3, <1>4, <1>7
<1> HIDE DEF n
<1>9. sum'[v] = Cardinality(missed'[v])
  <2>1. Cardinality(missed'[v]) = SlidSum(n, window, missed[v], new)
    BY <1>5, <1>8, SumSlides
  <2> QED
    BY <1>6, <2>1 DEF SlidSum
<1>10. SlidWindow(n, window, Misses(v), missed[v], Misses(v) \union new, missed'[v])
  BY <1>5, <1>8, WindowSlides
<1>11. ASSUME NEW w \in Nat
       PROVE  Recent(v, w)' = {h \in Misses(v) \union new : h > n + 1 - w}
  <2>1. Recent(v, w)' = {h \in Misses(v)' : h > Len(voted') - w}
    BY DEF Recent
  <2> QED
    BY <1>2, <2>1
<1>12. \E w \in Windows(v)' : Recent(v, w)' \subseteq missed'[v]
  <2>1. PICK w \in Windows(v) \union {window} : Recent(v, w) \subseteq missed[v]
    BY <1>4
  <2>2. w \in Nat /\ {h \in Misses(v) : h > n - w} \subseteq missed[v]
    BY <1>1, <1>3, <2>1 DEF Recent, n
  <2>3. PICK w2 \in {w, window} :
          {h \in Misses(v) \union new : h > n + 1 - w2} \subseteq missed'[v]
    BY <1>10, <2>2 DEF SlidWindow
  <2>4. w2 \in Windows(v)' /\ w2 \in Nat
    BY <1>1, <1>2, <2>1, <2>2, <2>3
  <2> QED
    BY <1>11, <2>3, <2>4
<1>13. ASSUME NEW w \in Windows(v)', Windows(v)' = {w}
       PROVE  missed'[v] = Recent(v, w)'
  <2>1. w = window /\ Windows(v) \subseteq {window}
    BY <1>2, <1>13
  <2>2. missed[v] = {h \in Misses(v) : h > n - window}
    BY <1>4, <2>1 DEF Recent, n
  <2> QED
    BY <1>1, <1>10, <1>11, <2>1, <2>2 DEF SlidWindow
<1>14. missed'[v] \subseteq Misses(v)'
  BY <1>2, <1>10 DEF SlidWindow
<1> QED
  BY <1>2, <1>9, <1>12, <1>13, <1>14 DEF RecordExact

-----------------------------------------------------------------------------
LEMMA LivenessInitially == LivenessInit => LivenessInv
<1> SUFFICES ASSUME LivenessInit PROVE LivenessInv
  OBVIOUS
<1>1. /\ voted \in Seq(Vote) /\ Len(voted) = 0
      /\ height = 1 /\ DOMAIN sum = {} /\ window \in Window
      /\ missed = [v \in Validator |-> {}]
  BY DEF LivenessInit
<1>2. PICK in \in SUBSET Validator :
        states = [o \in Offset |-> [v \in Validator |->
                    IF v \in in THEN "Consensus" ELSE "Other"]]
  BY DEF LivenessInit
<1>3. states \in States /\ \A v \in Validator : states[1][v] # "Jailed"
  BY <1>2 DEF States, ValidatorState, Offset
<1>4. LivenessTypes
  BY <1>1, <1>3 DEF LivenessTypes
<1> QED
  BY <1>1, <1>3, <1>4
     DEF LivenessInv, RecordsOfConsensus, AskedLast, JailedThrough, RecordsExact,
         InactiveIsJailed

LEMMA LivenessStep == LivenessInv /\ [LivenessNext]_livenessVars => LivenessInv'
<1>1. ASSUME LivenessInv, NEW signed, NEW evidence, NEW moved, NEW finished,
             FinalizeVotes(signed, evidence, moved, finished)
      PROVE  LivenessInv'
  <2> DEFINE A == consensus_set(states, 0)
             r == [asked |-> A, signed |-> signed, window |-> window]
  <2>1. /\ signed \subseteq A
        /\ voted' = Append(voted, r)
        /\ height' = height + 1
        /\ states' \in States /\ JailedThrough(states')
        /\ window' \in Window
        /\ missed' \in [Validator -> SUBSET Nat]
        /\ DOMAIN sum' \subseteq A
  BY <1>1, BlockEffect
  <2>2. \A v \in DOMAIN sum' :
          /\ states'[0][v] = "Consensus"
          /\ RecordSlid(v, signed)
          /\ sum'[v] >= threshold(window) =>
               \A o \in jail_offset(delay')..2 : states'[o][v] = "Jailed"
    BY <1>1, BlockEffect
  <2>3. \A v \in Validator \ DOMAIN sum' :
          missed'[v] = {} /\ ~(v \in A /\ states'[0][v] = "Consensus")
    BY <1>1, BlockEffect
  <2>4. A \subseteq Validator /\ \A v \in A : states[0][v] = "Consensus"
    BY DEF consensus_set
  <2>5. voted \in Seq(Vote) /\ height = Len(voted) + 1 /\ window \in Window
    BY <1>1 DEF LivenessInv, LivenessTypes
  <2>6. r \in Vote
    BY <2>1, <2>4, <2>5 DEF Vote
  <2>7. r.asked = A /\ r.signed = signed /\ r.window = window
    OBVIOUS
  <2> HIDE DEF A, r
  <2>8. /\ voted' \in Seq(Vote) /\ Len(voted') = Len(voted) + 1
        /\ Len(voted) \in Nat
        /\ voted'[Len(voted')] = r
    BY <2>1, <2>5, <2>6, AppendProperties
  <2>9. LivenessTypes'
    BY <2>1, <2>4, <2>5, <2>8 DEF LivenessTypes
  <2>10. \A v : AskedLast(v)' <=> v \in A
    BY <2>7, <2>8 DEF AskedLast
  <2>11. RecordsOfConsensus'
    BY <2>1, <2>2, <2>3, <2>10 DEF RecordsOfConsensus
  <2>12. ASSUME NEW v \in DOMAIN sum' PROVE RecordExact(v)'
    <3>1. v \in r.asked /\ states[0][v] = "Consensus" /\ RecordSlid(v, r.signed)
      BY <2>1, <2>2, <2>4, <2>7
    <3> QED
      BY <1>1, <2>1, <2>6, <2>7, <3>1, RecordStaysExact
  <2>13. RecordsExact'
    BY <2>3, <2>12 DEF RecordsExact
  <2>14. JailedThrough(states)'
    BY <2>1 DEF JailedThrough
  <2>15. InactiveIsJailed'
    BY <2>2, <2>7, <2>8 DEF InactiveIsJailed, pipeline_len, jail_offset
  <2> QED
    BY <2>9, <2>11, <2>13, <2>14, <2>15 DEF LivenessInv
<1>2. ASSUME LivenessInv, UNCHANGED livenessVars PROVE LivenessInv'
  <2>1. /\ height' = height /\ delay' = delay /\ states' = states
        /\ window' = window /\ missed' = missed /\ sum' = sum /\ voted' = voted
    BY <1>2 DEF livenessVars
  <2>2. LivenessTypes' /\ RecordsOfConsensus' /\ JailedThrough(states)'
    BY <1>2, <2>1 DEF LivenessInv, LivenessTypes, RecordsOfConsensus, AskedLast,
                      JailedThrough
  <2>3. \A v : Span(v)' = Span(v)
    BY <2>1 DEF Span
  <2>4. \A v : Misses(v)' = Misses(v) /\ Windows(v)' = Windows(v)
    BY <2>1, <2>3 DEF Misses, MissedIn, Windows
  <2>5. \A v, w : Recent(v, w)' = Recent(v, w)
    BY <2>1, <2>4 DEF Recent
  <2>6. \A v : RecordExact(v) => RecordExact(v)'
    BY <2>1, <2>3, <2>4, <2>5 DEF RecordExact
  <2>7. RecordsExact'
    BY <1>2, <2>1, <2>6 DEF LivenessInv, RecordsExact
  <2>8. InactiveIsJailed'
    BY <1>2, <2>1 DEF LivenessInv, InactiveIsJailed, jail_offset
  <2> QED
    BY <2>2, <2>7, <2>8 DEF LivenessInv
<1> QED
  BY <1>1, <1>2 DEF LivenessNext

(* liveness_sum_missed_votes is the number of heights on record, and those *)
(* are the misses of the current stay in the consensus set that fall into  *)
(* the window: for every set of validators, every window governance may    *)
(* set, and every way blocks are signed and validators come and go.        *)
THEOREM WindowExactAlways == LivenessSpec => []WindowExact
<1>1. LivenessInv => WindowExact
  <2> SUFFICES ASSUME LivenessInv PROVE WindowExact
    OBVIOUS
  <2>1. ASSUME NEW v, NEW w
        PROVE  MissedIn(v, {h \in Span(v) : h > Len(voted) - w}) = Recent(v, w)
    BY DEF Recent, Misses, MissedIn
  <2>2. RecordsExact
    BY DEF LivenessInv
  <2>3. ASSUME NEW v \in Validator, v \in DOMAIN sum
        PROVE  LET used == {voted[h].window : h \in Span(v)}
                   last(w) == {h \in Span(v) : h > Len(voted) - w}
               IN  /\ Span(v) # {}
                   /\ sum[v] = Cardinality(missed[v])
                   /\ missed[v] \subseteq MissedIn(v, Span(v))
                   /\ \E w \in used : MissedIn(v, last(w)) \subseteq missed[v]
                   /\ \A w \in used :
                        used = {w} => missed[v] = MissedIn(v, last(w))
    <3>1. RecordExact(v)
      BY <2>2, <2>3 DEF RecordsExact
    <3>2. Windows(v) = {voted[h].window : h \in Span(v)}
      BY DEF Windows
    <3>3. Misses(v) = MissedIn(v, Span(v))
      BY DEF Misses
    <3> QED
      BY <2>1, <3>1, <3>2, <3>3 DEF RecordExact
  <2> QED
    BY <2>2, <2>3 DEF RecordsExact, WindowExact
<1> QED
  BY <1>1, LivenessInitially, LivenessStep, PTL DEF LivenessSpec

(* A validator over the threshold is jailed in every epoch from the jail   *)
(* epoch on: jail_for_liveness skips nobody it should not skip, and no     *)
(* transaction undoes it before the validator has been jailed.             *)
THEOREM InactiveIsJailedAlways == LivenessSpec => []InactiveIsJailed
<1>1. LivenessInv => InactiveIsJailed
  BY DEF LivenessInv
<1> QED
  BY <1>1, LivenessInitially, LivenessStep, PTL DEF LivenessSpec

=============================================================================
