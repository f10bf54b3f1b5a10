-------------------------------- MODULE Shell --------------------------------
(***************************************************************************)
(* The block life cycle of the ledger (crates/apps/.../shell and            *)
(* crates/namada/src/ledger/protocol): replicas that validate proposed      *)
(* blocks of wrapper transactions, execute the decided ones, commit them,   *)
(* crash and restart.  Storage is the write log of WriteLog over a database *)
(* of balances of the fee token.                                            *)
(*                                                                          *)
(* A wrapper w carries the inner transaction with hash raw[w], is paid by   *)
(* payer[w] with fee[w], may ask to unshield unshield[w] into the payer's   *)
(* balance first.  inner[r] is the transfer that the inner code does;       *)
(* ending[w] is how it ends under w, whose gas limit and signature sections *)
(* are its own.                                                             *)
(*                                                                          *)
(* Left out: signatures, chain id, expiration, allowlist, gas and block     *)
(* space (a block holds wrappers that pass those checks), protocol          *)
(* transactions, the sub-systems' own FinalizeBlock.                        *)
(***************************************************************************)
EXTENDS WriteLog, Sequences, Functions

CONSTANTS
    Node,         \* replicas
    Wrapper,      \* wrapper transactions, which stand for their header hashes
    Raw,          \* inner transactions, which stand for their raw header hashes
    raw, payer, fee, unshield, inner, ending,
    proposer,     \* the account that block proposers collect fees on
    pool,         \* the account of the shielded pool
    genesis,      \* the initial balances
    MaxBlockTxs,  \* bound: transactions in a block
    MaxHeight     \* bound: blocks in the chain

Ending == {"Accepted", "Rejected", "InvalidSignature", "TxRunnerError", "GasError",
           "MissingSection"}

ASSUME WrapperAssumption ==
    /\ Wrapper \cap Raw = {}
    /\ Hash = Wrapper \cup Raw
    /\ Event = Wrapper
    /\ raw \in [Wrapper -> Raw]
    /\ payer \in [Wrapper -> Key]
    /\ fee \in [Wrapper -> Nat]
    /\ unshield \in [Wrapper -> Nat]
    /\ inner \in [Raw -> [from : Key, to : Key, amount : Nat]]
    /\ ending \in [Wrapper -> Ending]

ASSUME AccountAssumption ==
    /\ proposer \in Key
    /\ pool \in Key
    /\ Val \subseteq Nat
    /\ genesis \in [Key -> Val]

ASSUME BoundAssumption == MaxBlockTxs \in Nat /\ MaxHeight \in Nat

-----------------------------------------------------------------------------
(* Balances.  The fee transfer writes the transaction's log, not the block's. *)

read_balance(wl, db, owner) ==
    LET v == read_bytes(wl, db, owner) IN IF v = NoVal THEN 0 ELSE v

(* Mutant of token_transfer: no special case for a transfer to oneself *)
token_transfer_SelfCredit(wl, db, src, dest, amount) ==
    LET paid == write(wl, src, read_balance(wl, db, src) - amount).wl
    IN  write(paid, dest, read_balance(wl, db, dest) + amount).wl

(* Guarded by its callers: src has the amount *)
token_transfer(wl, db, src, dest, amount) ==
    IF src = dest THEN wl
    ELSE LET paid == write(wl, src, read_balance(wl, db, src) - amount).wl
         IN  write(paid, dest, read_balance(wl, db, dest) + amount).wl

(* Mutant of transfer_fee: the whole fee is moved whatever the balance is *)
transfer_fee_Unchecked(wl, db, w) ==
    Outcome(IF read_balance(wl, db, payer[w]) >= fee[w] THEN Ok ELSE "FeeError",
            emit_event(token_transfer(wl, db, payer[w], proposer, fee[w]), w))

(* When the payer cannot pay, all they have is moved, in the transaction's log,
   and the caller gets an error.  The event's name is the wrapper's hash. *)
transfer_fee(wl, db, w) ==
    LET balance == read_balance(wl, db, payer[w])
        amount  == IF balance >= fee[w] THEN fee[w] ELSE balance
    IN  Outcome(IF balance >= fee[w] THEN Ok ELSE "FeeError",
                emit_event(token_transfer(wl, db, payer[w], proposer, amount), w))

-----------------------------------------------------------------------------
(* Inner transactions *)

(* Mutant of apply_wasm_tx: no look-up of the inner hash in the block's hashes *)
apply_wasm_tx_NoReplayCheck(wl, db, w) ==
    LET tx == inner[raw[w]]
    IN  IF read_balance(wl, db, tx.from) < tx.amount THEN Outcome("TxRunnerError", wl)
        ELSE Outcome(ending[w], token_transfer(wl, db, tx.from, tx.to, tx.amount))

(* The inner code does its transfer and ends as ending[w] says; without the funds
   the code fails.  What it wrote stays in the transaction's log either way: the
   caller commits or drops it.  Events are taken out of the log when there is a
   result, accepted or not. *)
apply_wasm_tx(wl, db, w) ==
    LET tx    == inner[raw[w]]
        moved == token_transfer(wl, db, tx.from, tx.to, tx.amount)
    IN  IF has_replay_protection_entry(wl, raw[w]) THEN Outcome("ReplayAttempt", wl)
        ELSE IF read_balance(wl, db, tx.from) < tx.amount THEN Outcome("TxRunnerError", wl)
        ELSE Outcome(ending[w],
                     IF ending[w] \in {"Accepted", "Rejected", "InvalidSignature"}
                     THEN take_events(moved) ELSE moved)

(* The fee unshielding runs on a clean transaction log, over what is
   precommitted.  The pool's VP rejects it when the pool cannot pay. *)
run_fee_unshielding(wl, db, w) ==
    LET pre   == precommit_tx(wl)
        moved == take_events(token_transfer(pre, db, pool, payer[w], unshield[w]))
    IN  IF unshield[w] = 0 THEN Outcome(Ok, wl)
        ELSE IF read_balance(pre, db, pool) >= unshield[w] THEN Outcome(Ok, moved)
        ELSE Outcome("InvalidUnshield", drop_tx_keep_precommit(take_events(pre)))

(* An unshielding that failed does not matter when the fee can be paid anyway *)
charge_fee(wl, db, w) ==
    LET paid == transfer_fee(run_fee_unshielding(wl, db, w).wl, db, w)
    IN  IF paid.res = Ok THEN Outcome(Ok, commit_tx(paid.wl)) ELSE paid

-----------------------------------------------------------------------------
(* Block validation: process_txs on a temporary write log over the last       *)
(* committed state                                                            *)

Stored(disk) == disk.replay.current \cup disk.replay.general

(* Mutant of ReplayFound: the wrapper's hash is only looked up in the log *)
ReplayFound_LogOnly(disk, temp, w) ==
    raw[w] \in Stored(disk) \/ w \in temp.replay_protection

(* replay_protection_checks: the inner hash is looked up in the database only,
   the wrapper's also in the temporary log, where it is then written *)
ReplayFound(disk, temp, w) ==
    \/ raw[w] \in Stored(disk)
    \/ w \in temp.replay_protection
    \/ w \in Stored(disk)

(* process_proposal_fee_check: an invalid unshielding is an error here *)
process_proposal_fee_check(temp, db, w) ==
    LET unshielded == run_fee_unshielding(temp, db, w)
    IN  IF unshielded.res # Ok THEN unshielded
        ELSE transfer_fee(unshielded.wl, db, w)

(* Mutant of check_proposal_tx: the wrapper's hash is not written *)
check_proposal_tx_HashNotWritten(disk, temp, w) ==
    LET paid == process_proposal_fee_check(temp, disk.db, w)
    IN  IF ReplayFound(disk, temp, w) THEN Outcome("ReplayTx", drop_tx(temp))
        ELSE IF paid.res = Ok THEN Outcome(Ok, commit_tx(paid.wl))
        ELSE Outcome("FeeError", drop_tx(paid.wl))

(* check_proposal_tx, and the commit or drop of process_txs *)
check_proposal_tx(disk, temp, w) ==
    LET hashed == write_tx_hash(temp, w).wl
        paid   == process_proposal_fee_check(hashed, disk.db, w)
    IN  IF ReplayFound(disk, temp, w) THEN Outcome("ReplayTx", drop_tx(temp))
        ELSE IF paid.res = Ok THEN Outcome(Ok, commit_tx(paid.wl))
        ELSE Outcome("FeeError", drop_tx(paid.wl))

-----------------------------------------------------------------------------
(* Execution of one transaction of a decided block.  A node's memory holds    *)
(* the write log; what else it holds here is what the properties are about:   *)
(* how often each inner transaction was applied and each wrapper charged,     *)
(* the events reported, whether a payer was drained, whether an expect()      *)
(* failed.                                                                    *)

(* commit_inner_tx_hash, with both its expect() calls *)
commit_inner_tx_hash(mem, w) ==
    LET written   == write_tx_hash(mem.wl, raw[w])
        redundant == redundant_tx_hash(written.wl, w)
    IN  [mem EXCEPT !.wl = redundant.wl,
                    !.panic = @ \/ written.res # Ok \/ redundant.res # Ok]

(* Ok(result), accepted by all VPs *)
TxAccepted(mem, w) ==
    LET hashed == commit_inner_tx_hash(mem, w)
    IN  [hashed EXCEPT !.wl = commit_tx(@), !.applied[raw[w]] = @ + 1]

(* Ok(result), rejected by some VP *)
TxRejected(mem, w) ==
    [commit_inner_tx_hash(mem, w) EXCEPT !.wl = drop_tx(@)]

TxInvalidSignature(mem) == [mem EXCEPT !.wl = drop_tx(@)]

(* Err(msg) other than a WrapperRunnerError: which hash is kept *)
ErroredHashes(mem, res, w) ==
    LET redundant == redundant_tx_hash(mem.wl, w)
    IN  CASE res = "TxRunnerError" -> commit_inner_tx_hash(mem, w)
          [] res \in {"GasError", "MissingSection"} -> mem
          [] res = "ReplayAttempt" ->
               [mem EXCEPT !.wl = redundant.wl, !.panic = @ \/ redundant.res # Ok]

(* Mutant of TxErrored: the failed transaction's writes are not dropped *)
TxErrored_NoDrop(mem, res, w) == ErroredHashes(mem, res, w)

TxErrored(mem, res, w) == [ErroredHashes(mem, res, w) EXCEPT !.wl = drop_tx(@)]

(* The inner transaction of a wrapper whose fee is charged, and what
   FinalizeBlock does with its result.  result.events is what apply_wasm_tx
   took out of the log; only an accepted result's events are emitted. *)
FinishTx(mem, db, w) ==
    LET run == apply_wasm_tx(mem.wl, db, w)
        ran == [mem EXCEPT !.wl = run.wl]
    IN  CASE run.res = "Accepted" ->
               [TxAccepted(ran, w) EXCEPT !.events = @ \cup mem.wl.events]
          [] run.res = "Rejected" -> TxRejected(ran, w)
          [] run.res = "InvalidSignature" -> TxInvalidSignature(ran)
          [] OTHER -> TxErrored(ran, run.res, w)

(* dispatch_tx and what FinalizeBlock does with its result.  On a
   WrapperRunnerError the write log is neither committed nor dropped. *)
finalize_tx(mem, db, w) ==
    LET hashed  == write_tx_hash(mem.wl, w)
        charged == charge_fee(hashed.wl, db, w)
        after   == [mem EXCEPT !.wl = charged.wl,
                               !.panic = @ \/ hashed.res # Ok]
    IN  IF charged.res = Ok
        THEN FinishTx([after EXCEPT !.charged[w] = @ + 1], db, w)
        ELSE [after EXCEPT !.drained = @ \cup {w}]


-----------------------------------------------------------------------------
VARIABLES
    chain,     \* the decided blocks, each a sequence of wrappers
    proposal,  \* the block being validated, by whom, and the temporary log
    mem,       \* per node: what a process holds
    disk       \* per node: what it has committed

vars == <<chain, proposal, mem, disk>>

NoProposal == [by |-> {}, txs |-> << >>, temp |-> DefaultWriteLog]

(* A process that has just loaded the last committed state *)
Loaded(d) ==
    [ wl |-> DefaultWriteLog, temp |-> DefaultWriteLog, pos |-> 0, panic |-> FALSE,
      applied |-> d.applied, charged |-> d.charged, events |-> d.events,
      drained |-> d.drained ]

GenesisDisk ==
    [ db |-> genesis, replay |-> [current |-> {}, general |-> {}], height |-> 0,
      applied |-> [r \in Raw |-> 0], charged |-> [w \in Wrapper |-> 0],
      events |-> {}, drained |-> {} ]

Init ==
    /\ chain = << >>
    /\ proposal = NoProposal
    /\ disk = [n \in Node |-> GenesisDisk]
    /\ mem = [n \in Node |-> Loaded(GenesisDisk)]

(* n has committed the whole chain: it takes part in the next height *)
UpToDate(n) == disk[n].height = Len(chain)

(* ProcessProposal, one transaction at a time: the proposer puts any wrapper
   next, and a wrapper that the validator n refuses ends the proposal *)
ProposeTx(n, w) ==
    LET checked == check_proposal_tx(disk[n], proposal.temp, w)
    IN  /\ Len(chain) < MaxHeight
        /\ Len(proposal.txs) < MaxBlockTxs
        /\ UpToDate(n)
        /\ proposal.by \subseteq {n}
        /\ proposal' = IF checked.res = Ok
                       THEN [by |-> {n}, txs |-> Append(proposal.txs, w), temp |-> checked.wl]
                       ELSE NoProposal
        /\ UNCHANGED <<chain, mem, disk>>

(* The proposal is decided by the validators that are up to date *)
Decide ==
    /\ Len(chain) < MaxHeight
    /\ \E n \in Node : UpToDate(n)
    /\ chain' = Append(chain, proposal.txs)
    /\ proposal' = NoProposal
    /\ UNCHANGED <<mem, disk>>

(* The next transaction of the block that n is finalizing.  EndBlock runs
   process_txs over the whole block on a temporary log before FinalizeBlock, and
   FinalizeBlock skips what it refused: neither log influences the other, so
   both loops advance together here. *)
FinalizeTx(n) ==
    LET block   == chain[disk[n].height + 1]
        w       == block[mem[n].pos + 1]
        checked == check_proposal_tx(disk[n], mem[n].temp, w)
        seen    == [mem[n] EXCEPT !.temp = checked.wl, !.pos = @ + 1]
    IN  /\ disk[n].height < Len(chain)
        /\ mem[n].pos < Len(block)
        /\ mem' = [mem EXCEPT ![n] = IF checked.res = Ok
                                     THEN finalize_tx(seen, disk[n].db, w)
                                     ELSE seen]
        /\ UNCHANGED <<chain, proposal, disk>>

(* Mutant of Finalized: a block without transactions is never finalized *)
Finalized_NonEmpty(n) ==
    /\ disk[n].height < Len(chain)
    /\ mem[n].pos > 0
    /\ mem[n].pos = Len(chain[disk[n].height + 1])

(* EndBlock has gone through all the delivered transactions of the next block *)
Finalized(n) ==
    /\ disk[n].height < Len(chain)
    /\ mem[n].pos = Len(chain[disk[n].height + 1])

(* commit: one atomic batch.  The layers of the current transaction survive. *)
Commit(n) ==
    LET log == mem[n].wl
    IN  /\ Finalized(n)
        /\ disk' = [disk EXCEPT ![n] =
               [ db |-> [k \in Key |-> read_bytes_pre(log, @.db, k)],
                 replay |-> [ current |-> log.replay_protection,
                              general |-> @.replay.general \cup @.replay.current ],
                 height |-> @.height + 1,
                 applied |-> mem[n].applied, charged |-> mem[n].charged,
                 events |-> mem[n].events, drained |-> mem[n].drained ]]
        /\ mem' = [mem EXCEPT ![n].wl = [log EXCEPT !.block_write_log = EmptyLayer,
                                                    !.replay_protection = {}],
                              ![n].temp = DefaultWriteLog,
                              ![n].pos = 0]
        /\ UNCHANGED <<chain, proposal>>

(* The process stops at any point and loads the last committed state *)
Crash(n) ==
    /\ mem' = [mem EXCEPT ![n] = Loaded(disk[n])]
    /\ UNCHANGED <<chain, proposal, disk>>

Next ==
    \/ \E n \in Node, w \in Wrapper : ProposeTx(n, w)
    \/ Decide
    \/ \E n \in Node : FinalizeTx(n) \/ Commit(n) \/ Crash(n)

Spec == Init /\ [][Next]_vars

(* CometBFT delivers a decided block, again after a restart, until it is
   committed: weak fairness of FinalizeTx(n) \/ Commit(n), spelled out with the
   guards of the two actions and with what tells their steps from the others,
   which spares TLC an ENABLED over the whole of finalize_tx *)
CanProgress(n) ==
    \/ disk[n].height < Len(chain) /\ mem[n].pos < Len(chain[disk[n].height + 1])
    \/ Finalized(n)

Progress(n) ==
    \/ mem'[n].pos = mem[n].pos + 1
    \/ disk'[n].height = disk[n].height + 1

Fairness == \A n \in Node : <>[]CanProgress(n) => []<><<Progress(n)>>_vars

FairSpec == Spec /\ Fairness

-----------------------------------------------------------------------------
(* Properties *)

MemType ==
    [ wl : WriteLogType, temp : WriteLogType, pos : 0..MaxBlockTxs, panic : BOOLEAN,
      applied : [Raw -> Nat], charged : [Wrapper -> Nat],
      events : SUBSET Wrapper, drained : SUBSET Wrapper ]

DiskType ==
    [ db : [Key -> Val \cup {NoVal}],
      replay : [current : SUBSET Hash, general : SUBSET Hash],
      height : 0..MaxHeight,
      applied : [Raw -> Nat], charged : [Wrapper -> Nat],
      events : SUBSET Wrapper, drained : SUBSET Wrapper ]

(* Every balance is an amount the token's supply allows, so that no transfer of
   finalize_tx or check_proposal_tx goes below zero; a node is never ahead of
   the chain. *)
TypeOK ==
    /\ chain \in Seq(Seq(Wrapper))
    /\ proposal \in [by : SUBSET Node, txs : Seq(Wrapper), temp : WriteLogType]
    /\ mem \in [Node -> MemType]
    /\ disk \in [Node -> DiskType]
    /\ \A n \in Node : disk[n].height <= Len(chain)

(* The expect() calls on write_tx_hash and redundant_tx_hash in apply_wrapper_tx,
   commit_inner_tx_hash and FinalizeBlock never fail: what ProcessProposal lets
   through never makes a node panic on replay protection. *)
NoPanic == \A n \in Node : ~mem[n].panic

(* An inner transaction is applied at most once in the life of the chain,
   whatever wrappers carry it, in one block or in several, across restarts. *)
AppliedOnce == \A n \in Node, r \in Raw : mem[n].applied[r] <= 1

(* A wrapper's fee is charged at most once, although the hash of a wrapper
   whose inner transaction is settled is not kept (redundant_tx_hash). *)
ChargedOnce == \A n \in Node, w \in Wrapper : mem[n].charged[w] <= 1

(* Why these hold.  What a node has charged or applied is remembered by a hash:
   in the database, or, for the block being finalized, in its write log, and a
   wrapper's hash is in the temporary log of the block's validation as well. *)
Remembered(m, d) ==
    /\ \A r \in Raw : m.applied[r] > 0 => r \in Stored(d) \cup m.wl.replay_protection
    /\ \A w \in Wrapper : m.charged[w] > 0 =>
          \/ {w, raw[w]} \cap Stored(d) # {}
          \/ /\ w \in m.temp.replay_protection
             /\ {w, raw[w]} \cap m.wl.replay_protection # {}

ReplayInv ==
    \A n \in Node :
        /\ mem[n].wl.replay_protection \cap Wrapper \subseteq mem[n].temp.replay_protection
        /\ Remembered(mem[n], disk[n])
        /\ Remembered(Loaded(disk[n]), disk[n])
        /\ \A r \in Raw : mem[n].applied[r] <= 1 /\ disk[n].applied[r] <= 1
        /\ \A w \in Wrapper : mem[n].charged[w] <= 1 /\ disk[n].charged[w] <= 1
        /\ ~mem[n].panic

Total(balance) == FoldFunction(LAMBDA x, y : (IF x = NoVal THEN 0 ELSE x) + y, 0, balance)

(* No balance is created or lost: at any moment what a node reads through its
   write log adds up to the supply, and so does what it has committed. *)
SupplyConserved ==
    \A n \in Node :
        /\ Total([k \in Key |-> read_balance(mem[n].wl, disk[n].db, k)]) = Total(genesis)
        /\ Total(disk[n].db) = Total(genesis)

(* Nodes that committed the same blocks hold the same state, however often they
   crashed on the way, as long as no wrapper of the chain failed to pay its fee. *)
ReplicasAgree ==
    \A m, n \in Node :
        disk[m].height = disk[n].height /\ disk[m].drained = {} => disk[m] = disk[n]

(* A block that was being finalized is abandoned *)
Interrupted(n) == mem'[n].pos < mem[n].pos /\ disk'[n].height = disk[n].height

(* Once nodes stop crashing, every node ends up with every decided block
   committed: no decided block leaves FinalizeBlock or Commit without a next
   step.  (The chain is bounded by MaxHeight.) *)
CatchUp ==
    (<>[][\A n \in Node : ~Interrupted(n)]_vars) => <>[](\A n \in Node : UpToDate(n))

(* transfer_fee reports that "All the available transparent funds have been moved
   to the block proposer": what a node reads after the Commit of a block with
   such a wrapper is what it has committed. *)
DrainIsCommitted ==
    \A n \in Node : mem[n].pos = 0 /\ disk[n].drained # {}
        => \A k \in Key : read_bytes(mem[n].wl, disk[n].db, k) = disk[n].db[k]

=============================================================================
