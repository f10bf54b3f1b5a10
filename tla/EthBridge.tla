----------------------------- MODULE EthBridge -----------------------------
(***************************************************************************)
(* The Ethereum bridge on the ledger: the tallies of the events that       *)
(* validators saw on Ethereum, the queue that puts transfers to Namada in  *)
(* the order of their nonces, and the bridge pool, in which transfers to   *)
(* Ethereum wait for a relayer or for their refund.  The contract on       *)
(* Ethereum is external: a relayer hands it transfers of a signed root of  *)
(* the pool, and it accepts them under the nonce it expects.               *)
(*                                                                         *)
(* A vote is for the epoch of the height it was signed at; a validator may *)
(* vote for an event at any time and again, so a vote that is sent twice,  *)
(* late, or once more after the tally expired needs no action of its own.  *)
(* Each transfer moves one unit and pays one unit of NAM to its relayer.   *)
(* Left out: transfers to Namada that give back escrowed NAM, and the      *)
(* error of redeem_native_token; every transfer to Namada mints tokens.    *)
(***************************************************************************)
EXTENDS Integers, Sequences, FiniteSets, FiniteSetsExt

CONSTANTS
  Voter,              \* the consensus validators
  stake(_, _),        \* the stake of a validator at an epoch
  Transfer,           \* transfers to Ethereum that users ask for
  NamTransfer,        \* those of them that move NAM, not an ERC20 token
  unbonding_len,      \* epochs after which a tally expires
  min_num_of_blocks,  \* blocks after which a transfer in the pool expires
  MaxBridgeHeight, MaxBridgeEpoch,
  MaxEvents           \* bounds on blocks, epochs, and events on Ethereum

ASSUME BridgeAssumption ==
  /\ \A v \in Voter, e \in 0..MaxBridgeEpoch : stake(v, e) \in Nat
  /\ NamTransfer \subseteq Transfer
  /\ unbonding_len \in Nat /\ min_num_of_blocks \in Nat

VARIABLES
  ledger,     \* last committed height, epoch of the next block, and of each
              \* committed height its epoch, its bridge pool and its nonce
  ethereum,   \* what the contract did: transfers sent to Namada, batches
  tally,      \* the tally of each event that has one
  queue,      \* eth_events_queue.transfers_to_namada, in memory
  pool,       \* the height at which each pending transfer was inserted
  nonce,      \* the bridge pool nonce
  signed,     \* the roots of the pool that were stored with a quorum
  balance,    \* the escrows, and the ERC20 supply on Ethereum of NAM
  minted,     \* the transfers to Namada that were applied, in this order
              \* (history only)
  failed      \* whether a transaction that completed a tally was dropped, and
              \* whether one ended in a panic

bridgeVars == <<ledger, ethereum, tally, queue, pool, nonce, signed, balance,
                minted, failed>>

ToNamada(n) == <<"TransfersToNamada", n>>
ToEthereum(n) == <<"TransfersToEthereum", n>>
Emitted ==
  {ToNamada(n) : n \in 0..(ethereum.sent - 1)} \union
  {ToEthereum(n) : n \in 0..(Len(ethereum.batches) - 1)}
batch(n) == ethereum.batches[n + 1]

BridgeInit ==
  /\ ledger = [height |-> 0, epoch |-> 0, at |-> << >>]
  /\ ethereum = [sent |-> 0, batches |-> << >>]
  /\ tally = << >>
  /\ queue = [next_nonce_to_process |-> 0, inner |-> {}]
  /\ pool = << >>
  /\ nonce = 0
  /\ signed = {}
  /\ balance = [bridge |-> 0, pool |-> 0, erc20 |-> 0, supply |-> 0]
  /\ minted = << >>
  /\ failed = {}

-----------------------------------------------------------------------------
(* The tallies: votes.rs and votes/update.rs.                              *)
total_voting_power ==
  [e \in 0..MaxBridgeEpoch |-> MapThenSumSet(LAMBDA v : stake(v, e), Voter)]

tallied_stake(seen_by) ==
  MapThenSumSet(LAMBDA v : stake(v, seen_by[v]), DOMAIN seen_by)

epoch_max_voting_power(seen_by) ==
  Max({total_voting_power[seen_by[v]] : v \in DOMAIN seen_by})

has_majority_quorum(seen_by) ==
  3 * tallied_stake(seen_by) > 2 * epoch_max_voting_power(seen_by)

last_epoch == ledger.at[ledger.height].epoch

(* Mutant of get_timed_out_eth_events: complete tallies expire as well     *)
get_timed_out_eth_events_Seen ==
  {e \in DOMAIN tally : /\ last_epoch > unbonding_len
                        /\ tally[e].started <= last_epoch - unbonding_len}

get_timed_out_eth_events ==
  {e \in DOMAIN tally : /\ last_epoch > unbonding_len
                        /\ tally[e].started <= last_epoch - unbonding_len
                        /\ ~tally[e].seen}

timeout_events ==
  [e \in DOMAIN tally \ get_timed_out_eth_events |-> tally[e]]

validate_eth_event_nonce(event) ==
  \/ event[1] = "TransfersToEthereum" /\ event[2] = nonce
  \/ event[1] = "TransfersToNamada" /\ event[2] >= queue.next_nonce_to_process

(* apply_update: the vote of v, signed at an epoch, for one event.         *)
apply_update(t, event, v, epoch) ==
  IF event \notin DOMAIN t
  THEN [seen_by |-> [u \in {v} |-> epoch],
        seen |-> has_majority_quorum([u \in {v} |-> epoch]),
        started |-> ledger.epoch]
  ELSE IF t[event].seen \/ v \in DOMAIN t[event].seen_by THEN t[event]
  ELSE LET seen_by == [u \in DOMAIN t[event].seen_by \union {v} |->
                         IF u = v THEN epoch ELSE t[event].seen_by[u]]
       IN  [t[event] EXCEPT !.seen_by = seen_by,
                            !.seen = has_majority_quorum(seen_by)]

apply_updates(t, updates, v, epoch) ==
  [e \in DOMAIN t \union updates |->
     IF e \in updates THEN apply_update(t, e, v, epoch) ELSE t[e]]

newly_confirmed(t, post) ==
  {e \in DOMAIN post : post[e].seen /\ ~(e \in DOMAIN t /\ t[e].seen)}

-----------------------------------------------------------------------------
(* push_and_iter of the confirmed transfers to Namada: what leaves the     *)
(* queue is the run of nonces from the next one on.                        *)
push_and_iter(nonces) ==
  LET inner == queue.inner \union nonces
      first == queue.next_nonce_to_process
      next == CHOOSE n \in first..ethereum.sent :
                first..(n - 1) \subseteq inner /\ n \notin inner
  IN  [next_nonce_to_process |-> next, inner |-> inner \ (first..(next - 1))]

(* A nonce that is behind or already queued is taken to be unreachable.    *)
Replayed(nonces) ==
  \E n \in nonces : n < queue.next_nonce_to_process \/ n \in queue.inner

(* The transfers that leave the queue are minted in this order.            *)
mint_eth_assets(from, next) == [i \in 1..(next - from) |-> from + i - 1]

-----------------------------------------------------------------------------
(* act_on_transfers_to_eth, at the height of the block that is executed.   *)
(* The transfers of the batch are paid to the relayer; of the others those *)
(* that are too old are refunded, fee and asset both from the pool.  It    *)
(* fails when the pool cannot pay, and when one of the others is not yet   *)
(* in the Merkle tree, which holds the heights of insertion.               *)
block_height == ledger.height + 1

pending_keys(n) == DOMAIN pool \ batch(n)

timed_out(n) ==
  {t \in pending_keys(n) : /\ block_height > min_num_of_blocks
                           /\ pool[t] <= block_height - min_num_of_blocks}

fees(n) == Cardinality(batch(n)) + Cardinality(timed_out(n))
erc20s(S) == Cardinality(S \ NamTransfer)
nams(S) == Cardinality(S \intersect NamTransfer)

act_on_transfers_to_eth_fails(n) ==
  \/ balance.pool < fees(n) + nams(timed_out(n))
  \/ /\ block_height > min_num_of_blocks
     /\ \E t \in pending_keys(n) : pool[t] = block_height

pool_after(n) == [t \in pending_keys(n) \ timed_out(n) |-> pool[t]]

balance_after(n) ==
  [balance EXCEPT !.pool = @ - fees(n) - nams(timed_out(n)),
                  !.erc20 = @ - erc20s(batch(n)) - erc20s(timed_out(n)),
                  !.supply = @ + nams(batch(n))]

increment_bp_nonce == nonce + 1

-----------------------------------------------------------------------------
(* apply_derived_tx: the transaction in which v, at a height of an epoch,  *)
(* votes for events; those that became outdated since the block was        *)
(* proposed are discarded, tallies expire all the same.  Events are acted  *)
(* on in their order, those to Namada first.  When an event fails the      *)
(* transaction is dropped, but the queue is in memory and stays as it is.  *)
(* A panic stops the ledger for good: the block is executed again with the *)
(* same end.                                                               *)
ApplyEthEvents(v, epoch, events) ==
  LET updates == {e \in events : validate_eth_event_nonce(e)}
      before == timeout_events
      after == apply_updates(before, updates, v, epoch)
      confirmed == newly_confirmed(before, after)
      to_namada == {c \in confirmed : c[1] = "TransfersToNamada"}
      to_eth == confirmed \ to_namada
      nonces == {c[2] : c \in to_namada}
      q == push_and_iter(nonces)
      fails == \E c \in to_eth : act_on_transfers_to_eth_fails(c[2])
  IN  /\ stake(v, epoch) > 0
      /\ events # {}
      /\ queue' = IF Replayed(nonces) THEN queue ELSE q
      /\ failed' = failed \union (IF Replayed(nonces) THEN {"panic"}
                                 ELSE IF fails THEN {"dropped"} ELSE {})
      /\ IF Replayed(nonces) \/ fails
         THEN UNCHANGED <<tally, minted, pool, nonce, balance>>
         ELSE /\ tally' = after
              /\ minted' = minted \o mint_eth_assets(queue.next_nonce_to_process,
                                                     q.next_nonce_to_process)
              /\ IF to_eth = {} THEN UNCHANGED <<pool, nonce, balance>>
                 ELSE /\ pool' = pool_after(nonce)
                      /\ balance' = balance_after(nonce)
                      /\ nonce' = increment_bp_nonce
      /\ UNCHANGED <<ledger, ethereum, signed>>

(* A transaction that the bridge pool's validity predicate accepts: the    *)
(* fee is escrowed in the pool, NAM with the bridge, ERC20 tokens in the   *)
(* pool.                                                                   *)
AddToPool(t) ==
  /\ t \notin DOMAIN pool
  /\ pool' = [u \in DOMAIN pool \union {t} |->
                IF u = t THEN block_height ELSE pool[u]]
  /\ balance' = [balance EXCEPT !.pool = @ + 1,
                                !.bridge = @ + nams({t}),
                                !.erc20 = @ + erc20s({t})]
  /\ UNCHANGED <<ledger, ethereum, tally, queue, nonce, signed, minted, failed>>

(* A block is committed; the next one may begin an epoch.                  *)
CommitBridgeBlock(new_epoch) ==
  /\ ledger.height < MaxBridgeHeight
  /\ new_epoch => ledger.epoch < MaxBridgeEpoch
  /\ ledger' = [height |-> block_height,
                epoch |-> ledger.epoch + (IF new_epoch THEN 1 ELSE 0),
                at |-> Append(ledger.at, [epoch |-> ledger.epoch,
                                          nonce |-> nonce,
                                          pool |-> DOMAIN pool])]
  /\ UNCHANGED <<ethereum, tally, queue, pool, nonce, signed, balance, minted,
                 failed>>

(* Mutant of CompleteRoot: it is stored with the nonce of this height.      *)
CompleteRoot_NonceNow(h) ==
  /\ \A r \in signed : r.height < h
  /\ signed' = signed \union
       {[height |-> h, nonce |-> nonce, pool |-> ledger.at[h].pool]}
  /\ UNCHANGED <<ledger, ethereum, tally, queue, pool, nonce, balance, minted,
                 failed>>

(* The signatures of a quorum on the root and the nonce of a height are    *)
(* complete; the root is stored if it is more recent than the stored one.  *)
CompleteRoot(h) ==
  /\ \A r \in signed : r.height < h
  /\ signed' = signed \union
       {[height |-> h, nonce |-> ledger.at[h].nonce, pool |-> ledger.at[h].pool]}
  /\ UNCHANGED <<ledger, ethereum, tally, queue, pool, nonce, balance, minted,
                 failed>>

-----------------------------------------------------------------------------
(* External: the contract on Ethereum.                                     *)
TransferToNamada ==
  /\ Cardinality(Emitted) < MaxEvents
  /\ ethereum' = [ethereum EXCEPT !.sent = @ + 1]
  /\ UNCHANGED <<ledger, tally, queue, pool, nonce, signed, balance, minted,
                 failed>>

RelayBatch(root, transfers) ==
  /\ Cardinality(Emitted) < MaxEvents
  /\ root.nonce = Len(ethereum.batches)
  /\ transfers # {}
  /\ ethereum' = [ethereum EXCEPT !.batches = Append(@, transfers)]
  /\ UNCHANGED <<ledger, tally, queue, pool, nonce, signed, balance, minted,
                 failed>>

BridgeNext ==
  \/ /\ "panic" \notin failed
     /\ \/ \E v \in Voter, events \in SUBSET Emitted :
             \E epoch \in {ledger.at[h].epoch : h \in 1..ledger.height} :
               ApplyEthEvents(v, epoch, events)
        \/ \E t \in Transfer : AddToPool(t)
        \/ \E new_epoch \in BOOLEAN : CommitBridgeBlock(new_epoch)
        \/ \E h \in 1..ledger.height : CompleteRoot(h)
  \/ TransferToNamada
  \/ \E root \in signed : \E transfers \in SUBSET root.pool :
       RelayBatch(root, transfers)

BridgeSpec == BridgeInit /\ [][BridgeNext]_bridgeVars

-----------------------------------------------------------------------------
(* The transfers to Namada are minted in the order of their nonces, each   *)
(* at most once, however votes arrive and tallies expire; none is left     *)
(* out, and what waits in the queue has a complete tally, so that it is    *)
(* not pushed a second time, which push_and_iter calls unreachable.  All   *)
(* of this holds unless a transaction was dropped after the queue had      *)
(* changed (ethereum_events/mod.rs, core/src/storage.rs).                  *)
MintedInOrder ==
  /\ \A i, j \in 1..Len(minted) : i < j => minted[i] < minted[j]
  /\ \A n \in queue.inner : n > queue.next_nonce_to_process
  /\ "dropped" \notin failed =>
       /\ "panic" \notin failed
       /\ Len(minted) = queue.next_nonce_to_process
       /\ \A n \in queue.inner :
            ToNamada(n) \in DOMAIN tally /\ tally[ToNamada(n)].seen

(* A transfer that was relayed on Ethereum is in the pool until the event  *)
(* is acted on: it is not refunded as well, and act_on_transfers_to_eth    *)
(* finds it.  The contract is at most one batch ahead of the ledger.       *)
RelayedStillPending ==
  /\ Len(ethereum.batches) \in nonce..(nonce + 1)
  /\ Len(ethereum.batches) > nonce => batch(nonce) \subseteq DOMAIN pool

(* "The BP nonce should always be incremented", as the transaction that    *)
(* completes the tally of a batch does when it does not fail.              *)
NonceAlwaysIncremented == "dropped" \notin failed

=============================================================================
