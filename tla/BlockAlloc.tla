------------------------------ MODULE BlockAlloc ------------------------------
(***************************************************************************)
(* How a proposer fills a block (prepare_proposal.rs, block_alloc.rs and    *)
(* its states), and whether the others accept it (process_proposal.rs).     *)
(*                                                                          *)
(* The mempool is CometBFT's: a sequence of transactions that passed        *)
(* CheckTx (mempool_validate), checked again after every commit.  A         *)
(* transaction is a record: its kind, its length in bytes, and for a        *)
(* wrapper the gas limit, the fee, the hash of the inner transaction and    *)
(* the last block time at which it is valid.  All fees have one payer.      *)
(*                                                                          *)
(* Left out: signatures, chain id, allowlist and the gas of the bytes,      *)
(* which CheckTx, PrepareProposal and ProcessProposal decide alike on one   *)
(* state; fee unshielding (Shell has it); the proposer's own gas prices.    *)
(***************************************************************************)
EXTENDS Integers, Sequences, SequencesExt

CONSTANTS
    MempoolTx,     \* the transactions clients and validators may submit
    MaxBytes,      \* get_max_proposal_bytes
    MaxTxBytes,    \* the parameter max_tx_bytes
    MaxGas,        \* get_max_block_gas
    InitialFunds,  \* the balance of the fee payer
    MaxMempool,    \* bound: transactions in the mempool
    MaxBlockTime   \* bound: committed blocks, one unit of time each

ASSUME AllocAssumption ==
    /\ MempoolTx \subseteq [kind : {"protocol", "wrapper"}, len : Nat, gas : Nat,
                            fee : Nat, inner : Nat, exp : Nat]
    /\ {MaxBytes, MaxTxBytes, MaxGas, InitialFunds, MaxMempool, MaxBlockTime} \subseteq Nat

VARIABLES
    mempool,     \* sequence of transactions
    chain,       \* the committed state: time, funds, wrapper and inner hashes
    stale,       \* protocol transactions whose events or updates were seen
    proposal,    \* the block under way: its transactions and those that overflowed
    stage        \* "idle", "prepared", "accepted" or "rejected"

allocVars == <<mempool, chain, stale, proposal, stage>>

NoProposal == [txs |-> <<>>, large |-> {}]

AllocInit ==
    /\ mempool = <<>>
    /\ chain = [time |-> 0, funds |-> InitialFunds, wrappers |-> {}, inners |-> {}]
    /\ stale = {}
    /\ proposal = NoProposal
    /\ stage = "idle"

-----------------------------------------------------------------------------
(* TxBin *)

TxBin(max) == [occupied |-> 0, allotted |-> max]

Dumped(res, bin) == [res |-> res, bin |-> bin]

try_dump(bin, usage) ==
    IF usage > bin.allotted THEN Dumped("OverflowsBin", bin)
    ELSE IF bin.occupied + usage <= bin.allotted
         THEN Dumped("Ok", [bin EXCEPT !.occupied = @ + usage])
         ELSE Dumped("Rejected", bin)

(* BlockAllocator::init: half of the block for the first protocol transactions *)
BlockAllocator ==
    [block |-> MaxBytes, protocol_txs |-> TxBin(MaxBytes \div 2),
     space |-> TxBin(0), gas |-> TxBin(MaxGas)]

(* Mutant of unoccupied_space_in_bytes: the protocol transactions are forgotten *)
unoccupied_space_in_bytes_NormalOnly(alloc) == alloc.block - alloc.space.occupied

unoccupied_space_in_bytes(alloc) ==
    alloc.block - (alloc.protocol_txs.occupied + alloc.space.occupied)

(* next_state: the bin of the normal transactions is what the first batch left *)
ToNormalTxs(alloc) ==
    [alloc EXCEPT !.protocol_txs.allotted = alloc.protocol_txs.occupied,
                  !.space = TxBin(unoccupied_space_in_bytes(alloc))]

(* next_state: the second batch of protocol transactions gets what is left *)
ToRemainingTxs(alloc) ==
    [alloc EXCEPT !.protocol_txs = TxBin(unoccupied_space_in_bytes(alloc))]

-----------------------------------------------------------------------------
(* PrepareProposal *)

(* deserialize_vote_extensions: validator set updates and Ethereum events that
   were seen meanwhile stay in the mempool and are not proposed *)
Proposable(tx) == tx.kind = "protocol" /\ tx \notin stale

(* build_protocol_txs.  The batch ends with the first transaction that does not
   fit in what is left of the bin; the iterator has consumed it, so the later
   batch does not see it.  One larger than the whole bin is kept. *)
build_protocol_txs(alloc, txs) ==
    LET Step(b, tx) ==
            LET dump == try_dump(b.bin, tx.len)
            IN  IF b.full \/ ~Proposable(tx) THEN [b EXCEPT !.rest = Append(@, tx)]
                ELSE IF dump.res = "Rejected" THEN [b EXCEPT !.full = TRUE]
                ELSE [b EXCEPT !.bin = dump.bin, !.taken = Append(@, tx),
                               !.large = IF dump.res = "Ok" THEN @ ELSE @ \cup {tx}]
        none == [bin |-> alloc.protocol_txs, taken |-> <<>>, rest |-> <<>>,
                 large |-> {}, full |-> FALSE]
    IN  IF chain.time = 0 THEN [none EXCEPT !.rest = txs]  \* no block was decided yet
        ELSE FoldLeft(Step, none, txs)

(* replay_protection_checks: the inner hash against the database only *)
replay_protection_checks(temp, tx) ==
    tx.inner \notin chain.inners /\ tx \notin temp.wrappers

(* transfer_fee on the temporary write log; the caller checked the balance *)
PayFee(temp, tx) ==
    [temp EXCEPT !.funds = @ - tx.fee, !.wrappers = @ \cup {tx}]

validate_wrapper_bytes(temp, tx) ==
    /\ tx.kind = "wrapper"
    /\ chain.time + 1 <= tx.exp
    /\ replay_protection_checks(temp, tx)
    /\ temp.funds >= tx.fee

(* try_alloc of a normal transaction: space first, and it stays taken when the
   gas does not fit *)
TryAllocNormal(space, gas, tx) ==
    LET s == try_dump(space, tx.len)
        g == try_dump(gas, tx.gas)
    IN  IF s.res # "Ok" THEN [res |-> s.res, space |-> space, gas |-> gas]
        ELSE [res |-> g.res, space |-> s.bin, gas |-> g.bin]

(* build_normal_txs.  An invalid wrapper is passed over; the batch ends with the
   first valid one that does not fit; one larger than the whole bin is kept. *)
build_normal_txs(alloc, txs) ==
    LET Step(b, tx) ==
            LET got == TryAllocNormal(b.space, b.gas, tx)
            IN  IF b.full \/ ~validate_wrapper_bytes(b.temp, tx) THEN b
                ELSE IF got.res = "Rejected"
                THEN [b EXCEPT !.full = TRUE, !.space = got.space, !.gas = got.gas]
                ELSE [b EXCEPT !.space = got.space, !.gas = got.gas,
                               !.temp = PayFee(@, tx), !.taken = Append(@, tx),
                               !.large = IF got.res = "Ok" THEN @ ELSE @ \cup {tx}]
        none == [space |-> alloc.space, gas |-> alloc.gas, temp |-> chain,
                 taken |-> <<>>, large |-> {}, full |-> FALSE]
    IN  FoldLeft(Step, none, txs)

(* prepare_proposal: the three batches *)
Prepared ==
    LET first  == build_protocol_txs(BlockAllocator, mempool)
        alloc1 == ToNormalTxs([BlockAllocator EXCEPT !.protocol_txs = first.bin])
        normal == build_normal_txs(alloc1, first.rest)
        alloc2 == ToRemainingTxs([alloc1 EXCEPT !.space = normal.space, !.gas = normal.gas])
        last   == build_protocol_txs(alloc2, first.rest)
    IN  [txs   |-> first.taken \o normal.taken \o last.taken,
         large |-> first.large \cup normal.large \cup last.large]

PrepareProposal ==
    /\ stage = "idle"
    /\ proposal' = Prepared
    /\ stage' = "prepared"
    /\ UNCHANGED <<mempool, chain, stale>>

-----------------------------------------------------------------------------
(* ProcessProposal *)

(* check_proposal_tx, with the ValidationMeta of the block so far.  A wrapper's
   gas is accounted for before its other checks. *)
check_proposal_tx(meta, tx) ==
    LET space == try_dump(meta.txs_bin, tx.len)
        gas   == try_dump(meta.user_gas, tx.gas)
        code  == IF tx.len > MaxTxBytes THEN "TooLarge"
                 ELSE IF space.res # "Ok" THEN "AllocationError"
                 ELSE IF tx.kind = "protocol" THEN "Ok"
                 ELSE IF gas.res # "Ok" THEN "TxGasLimit"
                 ELSE IF chain.time + 1 > tx.exp THEN "ExpiredTx"
                 ELSE IF ~replay_protection_checks(meta.temp, tx) THEN "ReplayTx"
                 ELSE IF meta.temp.funds < tx.fee THEN "FeeError"
                 ELSE "Ok"
    IN  [txs_bin  |-> IF code = "TooLarge" THEN meta.txs_bin ELSE space.bin,
         user_gas |-> IF tx.kind = "wrapper" /\ code \notin {"TooLarge", "AllocationError"}
                      THEN gas.bin ELSE meta.user_gas,
         temp     |-> IF tx.kind = "wrapper" /\ code = "Ok"
                      THEN PayFee(meta.temp, tx) ELSE meta.temp,
         codes    |-> Append(meta.codes, code)]

(* process_txs *)
Processed(txs) ==
    FoldLeft(check_proposal_tx,
             [txs_bin |-> TxBin(MaxBytes), user_gas |-> TxBin(MaxGas),
              temp |-> chain, codes |-> <<>>],
             txs)

(* No code that check_proposal_tx returns, except Ok, is recoverable *)
ProcessProposal ==
    /\ stage = "prepared"
    /\ stage' = IF \A i \in 1..Len(proposal.txs) : Processed(proposal.txs).codes[i] = "Ok"
                THEN "accepted" ELSE "rejected"
    /\ UNCHANGED <<mempool, chain, stale, proposal>>

-----------------------------------------------------------------------------
(* The mempool and the blocks that follow *)

(* mempool_validate on a committed state *)
mempool_validate(state, tx) ==
    /\ tx.len <= MaxTxBytes
    /\ tx.kind = "wrapper" =>
        /\ state.time <= tx.exp
        /\ tx.gas <= MaxGas
        /\ tx.inner \notin state.inners
        /\ tx \notin state.wrappers
        /\ tx.fee <= state.funds

CheckTx(tx) ==
    /\ stage = "idle"
    /\ Len(mempool) < MaxMempool
    /\ ~Contains(mempool, tx)
    /\ mempool_validate(chain, tx)
    /\ mempool' = Append(mempool, tx)
    /\ UNCHANGED <<chain, stale, proposal, stage>>

(* An accepted block is decided, executed and committed; the mempool drops its
   transactions and checks the others again.  Which inner transactions leave
   their hash, and which protocol transactions are stale then, is the business
   of Shell and EthBridge. *)
CommitProposal(done, seen) ==
    LET paid == Processed(proposal.txs).temp
        next == [paid EXCEPT !.time = @ + 1, !.inners = @ \cup done]
        Kept(tx) == ~Contains(proposal.txs, tx) /\ mempool_validate(next, tx)
    IN  /\ stage = "accepted"
        /\ chain.time < MaxBlockTime
        /\ chain' = next
        /\ mempool' = SelectSeq(mempool, Kept)
        /\ stale' = stale \cup seen
        /\ proposal' = NoProposal
        /\ stage' = "idle"

(* The next round, with the mempool of a proposer that got other transactions *)
NextRound ==
    /\ stage = "rejected"
    /\ proposal' = NoProposal
    /\ stage' = "idle"
    /\ UNCHANGED <<mempool, chain, stale>>

AllocNext ==
    \/ \E tx \in MempoolTx : CheckTx(tx)
    \/ PrepareProposal
    \/ ProcessProposal
    \/ \E done \in SUBSET {tx.inner : tx \in {t \in ToSet(proposal.txs) : t.kind = "wrapper"}},
          seen \in SUBSET {tx \in MempoolTx : tx.kind = "protocol"} :
            CommitProposal(done, seen)
    \/ NextRound

AllocSpec == AllocInit /\ [][AllocNext]_allocVars

-----------------------------------------------------------------------------
(* Properties *)

(* A proposal that a correct validator prepared, and in which no transaction was
   larger than its bin, is accepted by every validator on the same state: the
   bins of the three batches never hand out more than the one bin that
   ProcessProposal fills in the same order, and the temporary state on which the
   fees were checked is the one it builds (prepare_proposal.rs,
   process_proposal.rs). *)
AcceptedUnlessLarge == stage = "rejected" => proposal.large # {}

===============================================================================
