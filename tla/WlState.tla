------------------------------- MODULE WlState -------------------------------
(***************************************************************************)
(* The ledger's storage state: the write log over the database, with block  *)
(* commit and restart (crates/state/src/wl_state.rs), one action per method *)
(* that changes it.  It implements the transactional store of TxStore.      *)
(***************************************************************************)
EXTENDS WriteLog

VARIABLES
    wl,         \* the write log
    db,         \* the subspace column family
    in_mem_gen, \* InMemory::address_gen
    db_gen,     \* the address generator stored with the last block
    replay      \* the replay protection column family: its two buckets

vars == <<wl, db, in_mem_gen, db_gen, replay>>

TypeOK ==
    /\ wl \in WriteLogType
    /\ db \in [Key -> Val \cup {NoVal}]
    /\ in_mem_gen \in Nat
    /\ db_gen \in Nat
    /\ replay \in [current : SUBSET Hash, general : SUBSET Hash]

(* An opened database with a fresh write log.  The VPs of the accounts that the
   generator has not reached yet are absent. *)
Init ==
    /\ wl = DefaultWriteLog
    /\ db \in [Key -> Val \cup {NoVal}]
    /\ db_gen = 0
    /\ \A n \in Generated : db[vp_key[n]] = NoVal
    /\ in_mem_gen = db_gen
    /\ replay = [current |-> {}, general |-> {}]

-----------------------------------------------------------------------------
(* Transaction execution: the host functions of a transaction *)

(* check_address_existence: the account whose storage is written must have a
   VP.  Of the keys that name an address, VpKey are the ones modelled. *)
AddressExists(k) == k \in VpKey => read_bytes(wl, db, k) # NoVal

TxWrite(k, v) ==
    /\ AddressExists(k)
    /\ wl' = write(wl, k, v).wl
    /\ UNCHANGED <<db, in_mem_gen, db_gen, replay>>

(* tx_update_validity_predicate does not check that the account exists *)
TxUpdateValidityPredicate(k, h) ==
    /\ k \in VpKey
    /\ wl' = write(wl, k, h).wl
    /\ UNCHANGED <<db, in_mem_gen, db_gen, replay>>

TxWriteTemp(k, v) ==
    /\ AddressExists(k)
    /\ wl' = write_temp(wl, k, v).wl
    /\ UNCHANGED <<db, in_mem_gen, db_gen, replay>>

TxDelete(k) ==
    /\ wl' = delete(wl, k).wl
    /\ UNCHANGED <<db, in_mem_gen, db_gen, replay>>

(* The bound: the generator's positions are Generated *)
TxInitAccount(h) ==
    /\ CurrentGen(wl, in_mem_gen) \in Generated
    /\ wl' = init_account(wl, in_mem_gen, h)
    /\ UNCHANGED <<db, in_mem_gen, db_gen, replay>>

TxEmitEvent(e) ==
    /\ wl' = emit_event(wl, e)
    /\ UNCHANGED <<db, in_mem_gen, db_gen, replay>>

TxTakeEvents ==
    /\ wl' = take_events(wl)
    /\ UNCHANGED <<db, in_mem_gen, db_gen, replay>>

-----------------------------------------------------------------------------
(* The end of a transaction, or of a part of it *)

PrecommitTx ==
    /\ wl' = precommit_tx(wl)
    /\ UNCHANGED <<db, in_mem_gen, db_gen, replay>>

(* A transaction is committed once the VPs of the accounts it touched accept it.
   The VP of an account it did not initialize itself is looked up in the
   database: when there is none, the transaction is rejected. *)
VpsFound ==
    \A k \in VpKey : TxEntry(wl, k).kind = "Write" => db[k] # NoVal

CommitTx ==
    /\ VpsFound
    /\ wl' = commit_tx(wl)
    /\ UNCHANGED <<db, in_mem_gen, db_gen, replay>>

DropTx ==
    /\ wl' = drop_tx(wl)
    /\ UNCHANGED <<db, in_mem_gen, db_gen, replay>>

DropTxKeepPrecommit ==
    /\ wl' = drop_tx_keep_precommit(wl)
    /\ UNCHANGED <<db, in_mem_gen, db_gen, replay>>

-----------------------------------------------------------------------------
(* Protocol code: writes at block level, replay protection hashes *)

(* Protocol code only replaces VPs of accounts that exist *)
ProtocolWrite(k, v) ==
    /\ k \in VpKey => read_bytes_pre(wl, db, k) # NoVal
    /\ wl' = protocol_write(wl, k, v).wl
    /\ UNCHANGED <<db, in_mem_gen, db_gen, replay>>

ProtocolDelete(k) ==
    /\ wl' = protocol_delete(wl, k).wl
    /\ UNCHANGED <<db, in_mem_gen, db_gen, replay>>

WriteTxHash(h) ==
    /\ wl' = write_tx_hash(wl, h).wl
    /\ UNCHANGED <<db, in_mem_gen, db_gen, replay>>

RedundantTxHash(h) ==
    /\ wl' = redundant_tx_hash(wl, h).wl
    /\ UNCHANGED <<db, in_mem_gen, db_gen, replay>>

-----------------------------------------------------------------------------
(* commit_block: commit_write_log_block and commit_block_from_batch, one      *)
(* atomic RocksDB batch.  The transaction's layers stay as they are.          *)

FlushedDb == [k \in Key |-> read_bytes_pre(wl, db, k)]

(* The previous block's hashes move to the general bucket, then the block's
   own hashes are put in the current one *)
FlushedReplay ==
    [ current |-> wl.replay_protection,
      general |-> replay.general \cup replay.current ]

CommitBlock ==
    /\ db' = FlushedDb
    /\ replay' = FlushedReplay
    /\ in_mem_gen' = CurrentGen(wl, in_mem_gen)
    /\ db_gen' = in_mem_gen'
    /\ wl' = [wl EXCEPT !.block_write_log = EmptyLayer,
                        !.replay_protection = {},
                        !.address_gen = NoGen]

(* The process stops at any point; FullAccessState::open makes a new write log
   and load_last_state restores the generator of the last committed block *)
Restart ==
    /\ wl' = DefaultWriteLog
    /\ in_mem_gen' = db_gen
    /\ UNCHANGED <<db, db_gen, replay>>

-----------------------------------------------------------------------------
Next ==
    \/ \E k \in Key, v \in Val : TxWrite(k, v) \/ TxWriteTemp(k, v) \/ ProtocolWrite(k, v)
    \/ \E k \in Key : TxDelete(k) \/ ProtocolDelete(k)
    \/ \E h \in Val : TxInitAccount(h) \/ \E k \in VpKey : TxUpdateValidityPredicate(k, h)
    \/ \E e \in Event : TxEmitEvent(e)
    \/ TxTakeEvents
    \/ PrecommitTx
    \/ CommitTx
    \/ DropTx
    \/ DropTxKeepPrecommit
    \/ \E h \in Hash : WriteTxHash(h) \/ RedundantTxHash(h)
    \/ CommitBlock
    \/ Restart

Spec == Init /\ [][Next]_vars

-----------------------------------------------------------------------------
(* Properties *)

(* EstablishedAddressGen never hands out an address twice: the account that the
   next init_account creates has no VP yet, neither in the database nor in the
   block's committed transactions, whatever transactions were dropped and
   wherever the node was restarted. *)
FreshAddress ==
    \A n \in Generated :
        n >= CurrentGen(wl, in_mem_gen) => read_bytes_pre(wl, db, vp_key[n]) = NoVal

(* What makes FreshAddress inductive: the generators' order, and the layers in
   which the VP of a position that is still to come may have an entry.  A
   transaction can leave a Write there (tx_update_validity_predicate), which
   VpsFound keeps out of the block. *)
GenOrder ==
    /\ db_gen = in_mem_gen
    /\ wl.address_gen # NoGen => wl.address_gen >= in_mem_gen

FreshInDb ==
    \A n \in Generated : n >= in_mem_gen => db[vp_key[n]] = NoVal

FreshInLog ==
    \A n \in Generated : n >= CurrentGen(wl, in_mem_gen) =>
        /\ wl.block_write_log[vp_key[n]].kind \in {"NoMod", "Delete"}
        /\ wl.tx_write_log[vp_key[n]].kind # "InitAccount"
        /\ wl.tx_precommit_write_log[vp_key[n]].kind # "InitAccount"

FreshInv == GenOrder /\ FreshInDb /\ FreshInLog

(* What makes VpNeverDeleted hold: no layer deletes a VP *)
NoVpDeletion ==
    \A k \in VpKey :
        /\ wl.block_write_log[k].kind # "Delete"
        /\ wl.tx_write_log[k].kind # "Delete"
        /\ wl.tx_precommit_write_log[k].kind # "Delete"

(* An account that exists keeps a VP: no sequence of transactions, protocol
   writes, block commits and restarts removes one from the database
   (Error::DeleteVp: "validity predicate key, which are not possible to
   delete"). *)
VpNeverDeleted ==
    [][\A k \in VpKey : db[k] # NoVal => db'[k] # NoVal]_vars

(* The views that the readers of the storage have: of a validity predicate's
   prior state, of the state drop_tx_keep_precommit returns to, and of the
   current transaction *)
PreView == [k \in Key |-> read_bytes_pre(wl, db, k)]

SavepointView ==
    [k \in Key |-> IF wl.tx_precommit_write_log[k] = NoMod
                   THEN read_bytes_pre(wl, db, k)
                   ELSE ValueOf(wl.tx_precommit_write_log[k])]

PostView == [k \in Key |-> read_bytes(wl, db, k)]

Store == INSTANCE TxStore
         WITH durable <- db, pre <- PreView, savepoint <- SavepointView, post <- PostView

(* Every method of the write log acts on those views as some operation of the
   store does, or not at all: in particular no step but a block commit changes
   what a restart recovers, and no step of a transaction changes what validity
   predicates see as the prior state. *)
ImplementsStore == Store!Spec

(* ... and as its own operation: a committed transaction is in pre as a whole, a
   dropped one leaves no trace, drop_tx_keep_precommit returns to the
   precommitted state, a block commit makes the committed transactions durable
   and changes no other view, and a restart recovers exactly the last block. *)
OperationMatches ==
    /\ \A k \in Key, v \in Val :
          TxWrite(k, v) => Store!TxUpdate(k, v) \/ UNCHANGED Store!vars
    /\ \A k \in Key : TxDelete(k) => Store!TxUpdate(k, NoVal) \/ UNCHANGED Store!vars
    /\ PrecommitTx => Store!SetSavepoint
    /\ CommitTx => Store!CommitTx
    /\ DropTx => Store!DropTx
    /\ DropTxKeepPrecommit => Store!RollbackToSavepoint
    /\ CommitBlock => Store!CommitBlock
    /\ Restart => Store!Restart

OperationsMatch == [][OperationMatches]_vars

=============================================================================
