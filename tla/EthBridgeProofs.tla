-------------------------- MODULE EthBridgeProofs --------------------------
(***************************************************************************)
(* Two results about the bridge, for every set of validators and stakes,   *)
(* every set of transfers, every expiry, and chains of any length: what    *)
(* was relayed on Ethereum is still in the pool when its event is acted    *)
(* on, and transfers to Namada are minted in order and once.  The first    *)
(* needs to know of every root that was or may be signed how its nonce and *)
(* its pool compare with the present ones; the second that the queue only  *)
(* holds nonces that exist, so that push_and_iter stops.  What a quorum is *)
(* does not matter to either.                                              *)
(***************************************************************************)
EXTENDS EthBridge, TLAPS, SequenceTheorems, WellFoundedInduction

(* A root of the pool with the nonce it was committed under.  It is from   *)
(* the past; while the nonce is still the same, nothing has left the pool. *)
NotAhead(root) ==
  /\ root.nonce <= nonce
  /\ root.nonce = nonce => root.pool \subseteq DOMAIN pool

Root == [epoch : Nat, nonce : Nat, pool : SUBSET Transfer]
SignedRoot == [height : Nat, nonce : Nat, pool : SUBSET Transfer]

BridgeTypes ==
  /\ nonce \in Nat
  /\ DOMAIN pool \subseteq Transfer
  /\ ethereum \in [sent : Nat, batches : Seq(SUBSET Transfer)]
  /\ ledger \in [height : Nat, epoch : Nat, at : Seq(Root)]
  /\ Len(ledger.at) = ledger.height
  /\ signed \subseteq SignedRoot

(* The inductive invariant of RelayedStillPending.                         *)
RelayInv ==
  /\ BridgeTypes
  /\ RelayedStillPending
  /\ \A h \in 1..ledger.height : NotAhead(ledger.at[h])
  /\ \A root \in signed : NotAhead(root)

(* The inductive invariant of MintedInOrder: nothing minted or queued has  *)
(* a nonce that was not sent yet.                                          *)
QueueInv ==
  /\ ethereum.sent \in Nat
  /\ queue \in [next_nonce_to_process : 0..ethereum.sent,
                inner : SUBSET (0..(ethereum.sent - 1))]
  /\ minted \in Seq(Nat)
  /\ \A i \in 1..Len(minted) : minted[i] < queue.next_nonce_to_process
  /\ MintedInOrder

-----------------------------------------------------------------------------
(* Only an event of the transaction at hand becomes confirmed by it.       *)
LEMMA ConfirmedIsUpdate ==
  ASSUME NEW t, NEW updates, NEW v, NEW epoch,
         NEW c \in newly_confirmed(t, apply_updates(t, updates, v, epoch))
  PROVE  c \in updates
BY DEF newly_confirmed, apply_updates

(* A tally that is complete stays so, with what else is voted for.         *)
LEMMA SeenStays ==
  ASSUME NEW t, NEW updates, NEW v, NEW epoch,
         NEW e \in DOMAIN t, t[e].seen
  PROVE  LET post == apply_updates(t, updates, v, epoch)
         IN  e \in DOMAIN post /\ post[e].seen
BY DEF apply_updates, apply_update

(* Complete tallies do not expire.                                         *)
LEMMA SeenSurvivesTimeout ==
  ASSUME NEW e \in DOMAIN tally, tally[e].seen
  PROVE  e \in DOMAIN timeout_events /\ timeout_events[e] = tally[e]
BY DEF timeout_events, get_timed_out_eth_events

(* Every nonempty set of naturals has a least element.                     *)
LEMMA LeastNat ==
  ASSUME NEW S, S \subseteq Nat, S # {}
  PROVE  \E m \in S : \A k \in S : m <= k
<1> DEFINE R == OpToRel(<, Nat)
<1>1. IsWellFoundedOn(R, Nat)
  BY NatLessThanWellFounded
<1>2. \A x, y \in Nat : x < y => <<x, y>> \in R
  BY DEF OpToRel
<1> HIDE DEF R
<1>3. \E x \in S : \A y \in S : ~(<<y, x>> \in R)
  BY <1>1, WFMin
<1>4. PICK x \in S : \A y \in S : ~(<<y, x>> \in R)
  BY <1>3
<1>5. ASSUME NEW y \in S PROVE x <= y
  <2>1. ~(y < x)
    BY <1>2, <1>4, Zenon
  <2> QED
    BY <2>1, x \in Nat, y \in Nat
<1> QED
  BY <1>5

(* push_and_iter stops at the first nonce that is missing.                 *)
LEMMA FirstMissing ==
  ASSUME NEW sent \in Nat, NEW first \in 0..sent,
         NEW inner \in SUBSET (0..(sent - 1)),
         NEW next,
         next = CHOOSE n \in first..sent :
                  first..(n - 1) \subseteq inner /\ n \notin inner
  PROVE  next \in first..sent /\ first..(next - 1) \subseteq inner
           /\ next \notin inner
<1> DEFINE S == {n \in first..sent : n \notin inner}
<1>1. sent \in S /\ S \subseteq Nat
  OBVIOUS
<1>2. PICK m \in S : \A k \in S : m <= k
  BY <1>1, LeastNat
<1>3. m \in first..sent /\ m \notin inner
  OBVIOUS
<1>4. first..(m - 1) \subseteq inner
  <2> SUFFICES ASSUME NEW k \in first..(m - 1) PROVE k \in inner
    OBVIOUS
  <2> QED
    BY <1>2, <1>3
<1> QED
  BY <1>3, <1>4

-----------------------------------------------------------------------------
(* What a confirmed transfer to Ethereum says: the contract is ahead.      *)
LEMMA ConfirmedBatch ==
  ASSUME BridgeTypes, RelayedStillPending,
         NEW events \in SUBSET Emitted,
         NEW c \in events, validate_eth_event_nonce(c),
         c[1] # "TransfersToNamada"
  PROVE  c[2] = nonce /\ Len(ethereum.batches) = nonce + 1
<1>1. c[1] = "TransfersToEthereum" /\ c[2] = nonce
  BY DEF validate_eth_event_nonce
<1>2. Len(ethereum.batches) \in Nat /\ nonce \in Nat
  BY DEF BridgeTypes
<1>3. PICK n \in 0..(Len(ethereum.batches) - 1) : c = ToEthereum(n)
  BY <1>1 DEF Emitted, ToNamada, ToEthereum
<1>4. n = nonce
  BY <1>1, <1>3 DEF ToEthereum
<1> QED
  BY <1>1, <1>2, <1>4 DEF RelayedStillPending

(* A step of the ledger that leaves Ethereum alone, and the nonce and the  *)
(* pool either only grow the pool or move on to the next nonce.            *)
LEMMA RelayPreserved ==
  ASSUME RelayInv, UNCHANGED <<ledger, ethereum, signed>>,
         DOMAIN pool' \subseteq Transfer,
         \/ nonce' = nonce /\ DOMAIN pool \subseteq DOMAIN pool'
         \/ nonce' = nonce + 1 /\ Len(ethereum.batches) = nonce + 1
  PROVE  RelayInv'
<1>1. nonce \in Nat /\ nonce' \in Nat /\ Len(ethereum.batches) \in Nat
  BY DEF RelayInv, BridgeTypes
<1>2. BridgeTypes'
  BY <1>1 DEF RelayInv, BridgeTypes
<1>3. RelayedStillPending'
  BY <1>1 DEF RelayInv, RelayedStillPending, batch
<1>4. ASSUME NEW root, root.nonce \in Nat, NotAhead(root) 
      PROVE  /\ root.nonce <= nonce'
             /\ root.nonce = nonce' => root.pool \subseteq DOMAIN pool'
  BY <1>1, <1>4 DEF NotAhead
<1>5. \A h \in 1..ledger.height : ledger.at[h].nonce \in Nat
  <2>1. \A h \in 1..ledger.height : ledger.at[h] \in Root
    BY DEF RelayInv, BridgeTypes
  <2> QED
    BY <2>1 DEF Root
<1>6. \A root \in signed : root.nonce \in Nat
  BY DEF RelayInv, BridgeTypes, SignedRoot
<1>7. \A h \in 1..ledger'.height : NotAhead(ledger.at[h])'
  BY <1>4, <1>5 DEF RelayInv, NotAhead
<1>8. \A root \in signed' : NotAhead(root)'
  BY <1>4, <1>6 DEF RelayInv, NotAhead
<1> QED
  BY <1>2, <1>3, <1>7, <1>8 DEF RelayInv

LEMMA RelayInit == BridgeInit => RelayInv
<1> SUFFICES ASSUME BridgeInit PROVE RelayInv
  OBVIOUS
<1>1. BridgeTypes
  BY DEF BridgeInit, BridgeTypes, Root
<1> QED
  BY <1>1 DEF BridgeInit, RelayInv, RelayedStillPending

LEMMA RelayStep == RelayInv /\ [BridgeNext]_bridgeVars => RelayInv'
<1> SUFFICES ASSUME RelayInv, [BridgeNext]_bridgeVars PROVE RelayInv'
  OBVIOUS
<1>t. /\ nonce \in Nat
      /\ Len(ethereum.batches) \in Nat
      /\ ledger.height \in Nat
  BY DEF RelayInv, BridgeTypes
<1>1. ASSUME NEW v \in Voter, NEW events \in SUBSET Emitted, NEW epoch,
             ApplyEthEvents(v, epoch, events)
      PROVE  RelayInv'
  <2> DEFINE updates == {e \in events : validate_eth_event_nonce(e)}
             after == apply_updates(timeout_events, updates, v, epoch)
             confirmed == newly_confirmed(timeout_events, after)
             to_namada == {c \in confirmed : c[1] = "TransfersToNamada"}
             to_eth == confirmed \ to_namada
  <2>1. UNCHANGED <<ledger, ethereum, signed>>
    BY <1>1 DEF ApplyEthEvents
  <2>2. CASE UNCHANGED <<pool, nonce>>
    BY <2>1, <2>2, RelayPreserved DEF RelayInv, BridgeTypes
  <2>3. CASE to_eth # {} /\ pool' = pool_after(nonce) /\ nonce' = nonce + 1
    <3>1. PICK c \in to_eth : TRUE
      BY <2>3
    <3>2. c \in updates /\ c[1] # "TransfersToNamada"
      BY ConfirmedIsUpdate
    <3>3. Len(ethereum.batches) = nonce + 1
      BY <3>2, ConfirmedBatch DEF RelayInv
    <3>4. DOMAIN pool' \subseteq Transfer
      BY <2>3 DEF pool_after, pending_keys, RelayInv, BridgeTypes
    <3> QED
      BY <2>1, <2>3, <3>3, <3>4, RelayPreserved
  <2> QED
    BY <1>1, <2>2, <2>3 DEF ApplyEthEvents, increment_bp_nonce
<1>2. ASSUME NEW t \in Transfer, AddToPool(t)
      PROVE  RelayInv'
  <2>1. UNCHANGED <<ledger, ethereum, signed, nonce>>
    BY <1>2 DEF AddToPool
  <2>2. DOMAIN pool' = DOMAIN pool \union {t}
    BY <1>2 DEF AddToPool
  <2> QED
    BY <2>1, <2>2, RelayPreserved DEF RelayInv, BridgeTypes
<1>3. ASSUME NEW new_epoch \in BOOLEAN, CommitBridgeBlock(new_epoch)
      PROVE  RelayInv'
  <2> DEFINE root == [epoch |-> ledger.epoch, nonce |-> nonce,
                      pool |-> DOMAIN pool]
  <2>1. /\ ledger' = [height |-> ledger.height + 1,
                      epoch |-> ledger.epoch + (IF new_epoch THEN 1 ELSE 0),
                      at |-> Append(ledger.at, root)]
        /\ UNCHANGED <<ethereum, pool, nonce, signed>>
    BY <1>3 DEF CommitBridgeBlock, block_height
  <2>2. /\ ledger.at \in Seq(Root) /\ Len(ledger.at) = ledger.height
        /\ ledger.epoch \in Nat /\ root \in Root
    BY DEF RelayInv, BridgeTypes, Root
  <2> HIDE DEF root
  <2>3. /\ ledger'.at \in Seq(Root) /\ Len(ledger'.at) = ledger'.height
        /\ ledger'.height = ledger.height + 1
        /\ ledger' \in [height : Nat, epoch : Nat, at : Seq(Root)]
    BY <1>t, <2>1, <2>2
  <2>4. BridgeTypes'
    BY <2>1, <2>3 DEF RelayInv, BridgeTypes
  <2>5. ASSUME NEW h \in 1..ledger'.height PROVE NotAhead(ledger.at[h])'
    <3>1. CASE h = ledger.height + 1
      <4>1. ledger'.at[h] = root
        BY <2>1, <2>2, <3>1
      <4>2. root.nonce = nonce' /\ root.pool = DOMAIN pool' /\ nonce' \in Nat
        BY <1>t, <2>1 DEF root
      <4>3. /\ ledger'.at[h].nonce <= nonce'
            /\ ledger'.at[h].pool \subseteq DOMAIN pool'
        BY <4>1, <4>2
      <4> QED
        BY <4>3 DEF NotAhead
    <3>2. CASE h \in 1..ledger.height
      <4>1. ledger'.at[h] = ledger.at[h]
        BY <2>1, <2>2, <3>2
      <4> QED
        BY <2>1, <3>2, <4>1 DEF RelayInv, NotAhead
    <3> QED
      BY <1>t, <2>3, <3>1, <3>2
  <2>6. RelayedStillPending' /\ \A r \in signed' : NotAhead(r)'
    BY <2>1 DEF RelayInv, RelayedStillPending, NotAhead, batch
  <2> QED
    BY <2>4, <2>5, <2>6 DEF RelayInv
<1>4. ASSUME NEW h \in 1..ledger.height, CompleteRoot(h)
      PROVE  RelayInv'
  <2> DEFINE root == [height |-> h, nonce |-> ledger.at[h].nonce,
                      pool |-> ledger.at[h].pool]
  <2>1. /\ signed' = signed \union {root}
        /\ UNCHANGED <<ledger, ethereum, pool, nonce>>
    BY <1>4 DEF CompleteRoot
  <2>2. ledger.at[h] \in Root
    BY DEF RelayInv, BridgeTypes
  <2>3. root \in SignedRoot
    BY <1>t, <2>2 DEF Root, SignedRoot
  <2>4. NotAhead(root)
    BY DEF RelayInv, NotAhead
  <2> HIDE DEF root
  <2>5. BridgeTypes'
    BY <2>1, <2>3 DEF RelayInv, BridgeTypes
  <2>6. \A r \in signed' : NotAhead(r)'
    BY <2>1, <2>4 DEF RelayInv, NotAhead
  <2> QED
    BY <2>1, <2>5, <2>6 DEF RelayInv, RelayedStillPending, NotAhead, batch
<1>5. ASSUME TransferToNamada
      PROVE  RelayInv'
  <2>1. /\ ethereum' = [ethereum EXCEPT !.sent = @ + 1]
        /\ UNCHANGED <<ledger, pool, nonce, signed>>
    BY <1>5 DEF TransferToNamada
  <2>2. /\ ethereum' \in [sent : Nat, batches : Seq(SUBSET Transfer)]
        /\ ethereum'.batches = ethereum.batches
    BY <2>1 DEF RelayInv, BridgeTypes
  <2> QED
    BY <2>1, <2>2
       DEF RelayInv, BridgeTypes, RelayedStillPending, NotAhead, batch
<1>6. ASSUME NEW root \in signed, NEW transfers \in SUBSET root.pool,
             RelayBatch(root, transfers)
      PROVE  RelayInv'
  <2>1. /\ root.nonce = Len(ethereum.batches)
        /\ ethereum' = [ethereum EXCEPT !.batches = Append(@, transfers)]
        /\ UNCHANGED <<ledger, pool, nonce, signed>>
    BY <1>6 DEF RelayBatch
  <2>2. /\ Len(ethereum.batches) = nonce
        /\ root.nonce = nonce /\ root.pool \subseteq DOMAIN pool
    BY <1>t, <2>1 DEF RelayInv, RelayedStillPending, NotAhead
  <2>3. /\ ethereum.batches \in Seq(SUBSET Transfer)
        /\ transfers \in SUBSET Transfer
        /\ ethereum.sent \in Nat
    BY <2>2 DEF RelayInv, BridgeTypes
  <2> DEFINE longer == Append(ethereum.batches, transfers)
  <2>4. /\ longer \in Seq(SUBSET Transfer)
        /\ Len(longer) = nonce + 1
        /\ longer[nonce + 1] = transfers
    BY <2>2, <2>3, AppendProperties
  <2>5. ethereum' = [sent |-> ethereum.sent, batches |-> longer]
    BY <2>1 DEF RelayInv, BridgeTypes
  <2> HIDE DEF longer
  <2>6. /\ ethereum' \in [sent : Nat, batches : Seq(SUBSET Transfer)]
        /\ ethereum'.batches = longer
    BY <2>3, <2>4, <2>5
  <2>7. RelayedStillPending'
    BY <1>t, <2>1, <2>2, <2>4, <2>6 DEF RelayedStillPending, batch
  <2> QED
    BY <2>1, <2>6, <2>7 DEF RelayInv, BridgeTypes, NotAhead
<1>7. CASE UNCHANGED bridgeVars
  BY <1>7 DEF bridgeVars, RelayInv, BridgeTypes, RelayedStillPending, NotAhead,
              batch
<1> QED
  BY <1>1, <1>2, <1>3, <1>4, <1>5, <1>6, <1>7 DEF BridgeNext

(* A transfer that was relayed on Ethereum is in the pool until its event  *)
(* is acted on, so act_on_transfers_to_eth finds it and never refunds it   *)
(* as timed out, and the contract is at most one batch ahead of the        *)
(* ledger: for every set of validators, stakes, transfers and expiries.    *)
THEOREM RelayedStillPendingAlways == BridgeSpec => []RelayedStillPending
<1>1. RelayInv => RelayedStillPending
  BY DEF RelayInv
<1> QED
  BY <1>1, RelayInit, RelayStep, PTL DEF BridgeSpec

-----------------------------------------------------------------------------
(* What is confirmed of the transfers to Namada: nonces that were sent and *)
(* are not behind the queue, with tallies that are complete from now on.   *)
LEMMA ConfirmedNonces ==
  ASSUME QueueInv, NEW events \in SUBSET Emitted, NEW t, NEW v, NEW epoch,
         NEW updates, updates = {e \in events : validate_eth_event_nonce(e)},
         NEW post, post = apply_updates(t, updates, v, epoch),
         NEW c \in newly_confirmed(t, post), c[1] = "TransfersToNamada"
  PROVE  /\ c[2] \in queue.next_nonce_to_process..(ethereum.sent - 1)
         /\ c = ToNamada(c[2])
         /\ c \in DOMAIN post /\ post[c].seen
<1>1. c \in updates
  BY ConfirmedIsUpdate
<1>2. PICK n \in 0..(ethereum.sent - 1) : c = ToNamada(n)
  BY <1>1 DEF Emitted, ToNamada, ToEthereum
<1>3. c[2] = n
  BY <1>2 DEF ToNamada
<1>4. n >= queue.next_nonce_to_process
  BY <1>1, <1>3 DEF validate_eth_event_nonce
<1>5. queue.next_nonce_to_process \in Nat /\ ethereum.sent \in Nat
  BY DEF QueueInv
<1>6. c[2] \in queue.next_nonce_to_process..(ethereum.sent - 1)
  BY <1>3, <1>4, <1>5
<1>7. c \in DOMAIN post /\ post[c].seen
  BY DEF newly_confirmed
<1> QED
  BY <1>2, <1>3, <1>6, <1>7

(* The queue after new nonces: it moves on to the first nonce missing.     *)
LEMMA QueueMovesOn ==
  ASSUME QueueInv,
         NEW nonces \in SUBSET (queue.next_nonce_to_process..(ethereum.sent - 1)),
         NEW q, q = push_and_iter(nonces)
  PROVE  /\ q \in [next_nonce_to_process : 0..ethereum.sent,
                   inner : SUBSET (0..(ethereum.sent - 1))]
         /\ q.next_nonce_to_process >= queue.next_nonce_to_process
         /\ \A n \in q.inner : n > q.next_nonce_to_process
         /\ q.inner \subseteq queue.inner \union nonces
<1> DEFINE inner == queue.inner \union nonces
           first == queue.next_nonce_to_process
           sent == ethereum.sent
           next == CHOOSE n \in first..sent :
                     first..(n - 1) \subseteq inner /\ n \notin inner
<1>1. /\ sent \in Nat /\ first \in 0..sent
      /\ inner \in SUBSET (0..(sent - 1))
      /\ \A n \in inner : n >= first
  <2>1. /\ ethereum.sent \in Nat
        /\ queue.next_nonce_to_process \in 0..ethereum.sent
        /\ queue.inner \in SUBSET (0..(ethereum.sent - 1))
    BY DEF QueueInv
  <2>2. \A n \in queue.inner : n > queue.next_nonce_to_process
    BY DEF QueueInv, MintedInOrder
  <2>3. ASSUME NEW n \in inner PROVE n \in 0..(sent - 1) /\ n >= first
    <3>1. CASE n \in queue.inner
      <4>1. n \in 0..(ethereum.sent - 1) /\ n > queue.next_nonce_to_process
        BY <2>1, <2>2, <3>1
      <4> QED
        BY <2>1, <4>1
    <3>2. CASE n \in nonces
      <4>1. n \in queue.next_nonce_to_process..(ethereum.sent - 1)
        BY <3>2
      <4> QED
        BY <2>1, <4>1
    <3> QED
      BY <3>1, <3>2
  <2> QED
    BY <2>1, <2>3
<1>2. q = [next_nonce_to_process |-> next,
           inner |-> inner \ (first..(next - 1))]
  BY DEF push_and_iter
<1> HIDE DEF inner, first, sent
<1>3. next \in first..sent /\ next \notin inner
  BY <1>1, FirstMissing
<1> HIDE DEF next
<1>4. ASSUME NEW n \in inner \ (first..(next - 1)) PROVE n > next
  BY <1>1, <1>3
<1>5. /\ q.next_nonce_to_process = next
      /\ q.inner = inner \ (first..(next - 1))
  BY <1>2
<1>6. /\ q \in [next_nonce_to_process : 0..sent, inner : SUBSET (0..(sent - 1))]
      /\ next >= first
  BY <1>1, <1>2, <1>3
<1> QED
  BY <1>4, <1>5, <1>6 DEF inner, first, sent

(* Minting what leaves the queue keeps the order.                          *)
LEMMA MintedGrows ==
  ASSUME NEW s \in Seq(Nat), NEW first \in Nat, NEW next \in Nat, next >= first,
         \A i \in 1..Len(s) : s[i] < first,
         \A i, j \in 1..Len(s) : i < j => s[i] < s[j],
         NEW m, m = s \o mint_eth_assets(first, next)
  PROVE  /\ m \in Seq(Nat)
         /\ Len(m) = Len(s) + (next - first)
         /\ \A i \in 1..Len(m) : m[i] < next
         /\ \A i, j \in 1..Len(m) : i < j => m[i] < m[j]
<1> DEFINE r == mint_eth_assets(first, next)
<1>1. r \in Seq(Nat) /\ Len(r) = next - first
  BY DEF mint_eth_assets
<1>2. \A i \in 1..(next - first) : r[i] = first + i - 1
  BY DEF mint_eth_assets
<1> HIDE DEF r
<1>3. /\ m \in Seq(Nat) /\ Len(m) = Len(s) + Len(r)
      /\ \A i \in 1..(Len(s) + Len(r)) :
           m[i] = IF i <= Len(s) THEN s[i] ELSE r[i - Len(s)]
  BY <1>1, ConcatProperties DEF r
<1>4. Len(s) \in Nat /\ \A i \in 1..Len(s) : s[i] \in Nat
  OBVIOUS
<1>5. \A i \in 1..Len(m) :
        m[i] = IF i <= Len(s) THEN s[i] ELSE first + (i - Len(s)) - 1
  BY <1>1, <1>2, <1>3, <1>4
<1>6. Len(m) = Len(s) + (next - first)
  BY <1>1, <1>3
<1>7. ASSUME NEW i \in 1..Len(m) PROVE m[i] < next
  <2>1. CASE i <= Len(s)
    <3>1. i \in 1..Len(s) /\ m[i] = s[i]
      BY <1>4, <1>5, <2>1
    <3> QED
      BY <1>4, <3>1
  <2>2. CASE ~(i <= Len(s))
    <3>1. m[i] = first + (i - Len(s)) - 1
      BY <1>5, <2>2
    <3> QED
      BY <1>4, <1>6, <3>1
  <2> QED
    BY <2>1, <2>2
<1>8. ASSUME NEW i \in 1..Len(m), NEW j \in 1..Len(m), i < j
      PROVE  m[i] < m[j]
  <2>1. CASE j <= Len(s)
    <3>1. i \in 1..Len(s) /\ j \in 1..Len(s) /\ m[i] = s[i] /\ m[j] = s[j]
      BY <1>4, <1>5, <1>6, <1>8, <2>1
    <3> QED
      BY <1>8, <3>1
  <2>2. CASE i <= Len(s) /\ ~(j <= Len(s))
    <3>1. i \in 1..Len(s) /\ m[i] = s[i] /\ m[j] = first + (j - Len(s)) - 1
      BY <1>4, <1>5, <2>2
    <3>2. s[i] \in Nat /\ s[i] < first
      BY <1>4, <3>1
    <3> QED
      BY <1>4, <1>6, <2>2, <3>1, <3>2
  <2>3. CASE ~(i <= Len(s)) /\ ~(j <= Len(s))
    <3>1. /\ m[i] = first + (i - Len(s)) - 1
          /\ m[j] = first + (j - Len(s)) - 1
      BY <1>5, <2>3
    <3> QED
      BY <1>4, <1>6, <1>8, <3>1
  <2> QED
    BY <1>4, <1>6, <1>8, <2>1, <2>2, <2>3
<1> QED
  BY <1>3, <1>6, <1>7, <1>8

LEMMA QueueInit == BridgeInit => QueueInv
<1> SUFFICES ASSUME BridgeInit PROVE QueueInv
  OBVIOUS
<1>1. minted \in Seq(Nat) /\ Len(minted) = 0
  BY DEF BridgeInit
<1> QED
  BY <1>1 DEF BridgeInit, QueueInv, MintedInOrder

(* A transaction of votes: the one action that changes the queue.          *)
LEMMA QueueApply ==
  ASSUME QueueInv, NEW v \in Voter, NEW events \in SUBSET Emitted, NEW epoch,
         ApplyEthEvents(v, epoch, events)
  PROVE  QueueInv'
<1> DEFINE updates == {e \in events : validate_eth_event_nonce(e)}
           before == timeout_events
           after == apply_updates(before, updates, v, epoch)
           confirmed == newly_confirmed(before, after)
           to_namada == {c \in confirmed : c[1] = "TransfersToNamada"}
           nonces == {c[2] : c \in to_namada}
           q == push_and_iter(nonces)
           first == queue.next_nonce_to_process
           next == q.next_nonce_to_process
<1>1. \A c \in to_namada : /\ c[2] \in first..(ethereum.sent - 1)
                           /\ c = ToNamada(c[2])
                           /\ c \in DOMAIN after /\ after[c].seen
  BY ConfirmedNonces
<1>2. \A n \in nonces : /\ n \in first..(ethereum.sent - 1)
                        /\ ToNamada(n) \in confirmed
                        /\ ToNamada(n) \in DOMAIN after
                        /\ after[ToNamada(n)].seen
  BY <1>1
<1>3. /\ ethereum' = ethereum
      /\ \/ /\ Replayed(nonces)
            /\ queue' = queue /\ tally' = tally /\ minted' = minted
         \/ /\ queue' = q /\ minted' = minted
            /\ "dropped" \in failed'
         \/ /\ queue' = q /\ failed' = failed /\ tally' = after
            /\ minted' = minted \o mint_eth_assets(first, next)
  BY DEF ApplyEthEvents
<1>4. "dropped" \notin failed' => "dropped" \notin failed
  BY DEF ApplyEthEvents
<1>5. nonces \in SUBSET (first..(ethereum.sent - 1))
  <2> HIDE DEF nonces
  <2> QED
    BY <1>2
<1>6. /\ q \in [next_nonce_to_process : 0..ethereum.sent,
                inner : SUBSET (0..(ethereum.sent - 1))]
      /\ next >= first
      /\ \A n \in q.inner : n > next
      /\ q.inner \subseteq queue.inner \union nonces
  <2> HIDE DEF nonces
  <2> QED
    BY <1>5, QueueMovesOn
<1>7. /\ ethereum.sent \in Nat
      /\ first \in Nat
      /\ minted \in Seq(Nat)
      /\ \A i \in 1..Len(minted) : minted[i] < first
      /\ \A i, j \in 1..Len(minted) : i < j => minted[i] < minted[j]
  BY DEF QueueInv, MintedInOrder
<1>8. ASSUME "dropped" \notin failed, NEW n \in queue.inner
      PROVE  /\ ToNamada(n) \notin confirmed
             /\ ToNamada(n) \in DOMAIN after /\ after[ToNamada(n)].seen
  <2>1. ToNamada(n) \in DOMAIN tally /\ tally[ToNamada(n)].seen
    BY <1>8 DEF QueueInv, MintedInOrder
  <2>2. ToNamada(n) \in DOMAIN before /\ before[ToNamada(n)].seen
    BY <2>1, SeenSurvivesTimeout
  <2> HIDE DEF before, updates
  <2>3. ToNamada(n) \notin confirmed
    BY <2>2 DEF newly_confirmed
  <2> QED
    BY <2>2, <2>3, SeenStays
<1> HIDE DEF updates, before, after, confirmed, to_namada, nonces, q
<1>9. next \in Nat
  BY <1>6, <1>7
<1> HIDE DEF next
<1>10. Replayed(nonces) => "dropped" \in failed
  <2> SUFFICES ASSUME "dropped" \notin failed, NEW n \in nonces,
                      n < first \/ n \in queue.inner
               PROVE  FALSE
    BY DEF Replayed
  <2>1. ~(n < first)
    <3>1. n \in first..(ethereum.sent - 1)
      BY <1>2
    <3> QED
      BY <1>7, <3>1
  <2> QED
    BY <1>2, <1>8, <2>1
<1>11. CASE /\ Replayed(nonces)
            /\ queue' = queue /\ tally' = tally /\ minted' = minted
  <2>1. "dropped" \in failed'
    BY <1>4, <1>10, <1>11
  <2>2. MintedInOrder'
    BY <1>11, <2>1 DEF QueueInv, MintedInOrder
  <2> QED
    BY <1>3, <1>11, <2>2 DEF QueueInv
<1>12. CASE queue' = q /\ minted' = minted /\ "dropped" \in failed'
  <2>1. q.next_nonce_to_process = next
    BY DEF next
  <2>2. ASSUME NEW i \in 1..Len(minted) PROVE minted[i] < next
    <3>1. minted[i] \in Nat /\ minted[i] < first
      BY <1>7
    <3> QED
      BY <1>6, <1>7, <1>9, <3>1
  <2>3. MintedInOrder'
    BY <1>6, <1>7, <1>12, <2>1 DEF MintedInOrder
  <2> QED
    BY <1>3, <1>6, <1>7, <1>12, <2>1, <2>2, <2>3 DEF QueueInv
<1>13. CASE /\ queue' = q /\ failed' = failed /\ tally' = after
            /\ minted' = minted \o mint_eth_assets(first, next)
  <2>1. q.next_nonce_to_process = next
    BY DEF next
  <2>2. /\ minted' \in Seq(Nat)
        /\ Len(minted') = Len(minted) + (next - first)
        /\ \A i \in 1..Len(minted') : minted'[i] < next
        /\ \A i, j \in 1..Len(minted') : i < j => minted'[i] < minted'[j]
    BY <1>6, <1>7, <1>9, <1>13, MintedGrows
  <2>3. ASSUME "dropped" \notin failed
        PROVE  "panic" \notin failed /\ Len(minted') = next
    <3>1. "panic" \notin failed /\ Len(minted) = first
      BY <2>3 DEF QueueInv, MintedInOrder
    <3> QED
      BY <1>7, <1>9, <2>2, <3>1
  <2>4. ASSUME "dropped" \notin failed, NEW n \in q.inner
        PROVE  ToNamada(n) \in DOMAIN after /\ after[ToNamada(n)].seen
    BY <1>2, <1>6, <1>8, <2>4
  <2>5. MintedInOrder'
    BY <1>6, <1>13, <2>1, <2>2, <2>3, <2>4 DEF MintedInOrder, ToNamada
  <2> QED
    BY <1>3, <1>6, <1>7, <1>13, <2>1, <2>2, <2>5 DEF QueueInv
<1> QED
  BY <1>3, <1>11, <1>12, <1>13

LEMMA QueueStep ==
  BridgeTypes /\ QueueInv /\ [BridgeNext]_bridgeVars => QueueInv'
<1> SUFFICES ASSUME BridgeTypes, QueueInv, [BridgeNext]_bridgeVars
             PROVE  QueueInv'
  OBVIOUS
<1>1. ASSUME UNCHANGED <<queue, tally, minted, failed>>,
             ethereum'.sent = ethereum.sent
      PROVE  QueueInv'
  BY <1>1 DEF QueueInv, MintedInOrder, ToNamada
<1>2. ASSUME NEW v \in Voter, NEW events \in SUBSET Emitted, NEW epoch,
             ApplyEthEvents(v, epoch, events)
      PROVE  QueueInv'
  BY <1>2, QueueApply
<1>3. ASSUME NEW t \in Transfer, AddToPool(t)
      PROVE  QueueInv'
  <2>1. UNCHANGED <<queue, tally, minted, failed>> /\ ethereum' = ethereum
    BY <1>3, Zenon DEF AddToPool
  <2> QED
    BY <1>1, <2>1
<1>4. ASSUME NEW new_epoch \in BOOLEAN, CommitBridgeBlock(new_epoch)
      PROVE  QueueInv'
  BY <1>1, <1>4 DEF CommitBridgeBlock
<1>5. ASSUME NEW h \in 1..ledger.height, CompleteRoot(h)
      PROVE  QueueInv'
  BY <1>1, <1>5 DEF CompleteRoot
<1>6. ASSUME TransferToNamada
      PROVE  QueueInv'
  <2>1. /\ UNCHANGED <<queue, tally, minted, failed>>
        /\ ethereum' = [ethereum EXCEPT !.sent = @ + 1]
    BY <1>6 DEF TransferToNamada
  <2>2. ethereum'.sent = ethereum.sent + 1
    BY <2>1 DEF BridgeTypes
  <2>3. /\ ethereum.sent \in Nat
        /\ queue \in [next_nonce_to_process : 0..ethereum.sent,
                      inner : SUBSET (0..(ethereum.sent - 1))]
    BY DEF QueueInv
  <2>4. /\ ethereum.sent + 1 \in Nat
        /\ queue \in [next_nonce_to_process : 0..(ethereum.sent + 1),
                      inner : SUBSET (0..(ethereum.sent + 1 - 1))]
    BY <2>3
  <2>5. MintedInOrder'
    BY <2>1 DEF QueueInv, MintedInOrder, ToNamada
  <2>6. UNCHANGED <<queue, minted>>
    BY <2>1
  <2> QED
    BY <2>2, <2>4, <2>5, <2>6 DEF QueueInv
<1>7. ASSUME NEW root \in signed, NEW transfers \in SUBSET root.pool,
             RelayBatch(root, transfers)
      PROVE  QueueInv'
  <2>1. /\ UNCHANGED <<queue, tally, minted, failed>>
        /\ ethereum' = [ethereum EXCEPT !.batches = Append(@, transfers)]
    BY <1>7 DEF RelayBatch
  <2>2. ethereum'.sent = ethereum.sent
    BY <2>1 DEF BridgeTypes
  <2> QED
    BY <1>1, <2>1, <2>2
<1>8. CASE UNCHANGED bridgeVars
  BY <1>1, <1>8 DEF bridgeVars
<1> QED
  BY <1>2, <1>3, <1>4, <1>5, <1>6, <1>7, <1>8 DEF BridgeNext

(* The transfers to Namada are minted in the order of their nonces and at  *)
(* most once, and none is left out and push_and_iter never panics unless a *)
(* transaction was dropped: for every set of validators and stakes, every  *)
(* expiry of tallies, and any number of events.                            *)
THEOREM MintedInOrderAlways == BridgeSpec => []MintedInOrder
<1>1. QueueInv => MintedInOrder
  BY DEF QueueInv
<1>2. RelayInv => BridgeTypes
  BY DEF RelayInv
<1> QED
  BY <1>1, <1>2, RelayInit, RelayStep, QueueInit, QueueStep, PTL DEF BridgeSpec

=============================================================================
