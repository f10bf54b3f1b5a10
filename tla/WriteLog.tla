------------------------------ MODULE WriteLog ------------------------------
(***************************************************************************)
(* The write log of crates/state/src/write_log.rs: the layers of uncommitted *)
(* storage modifications that every transaction and every protocol step of  *)
(* the ledger writes to, and that Commit flushes to the database.           *)
(*                                                                          *)
(* This module holds the write log as a value and its methods as operators  *)
(* on that value, so that the storage state machine (WlState) and the block *)
(* life cycle (Shell) use the same definitions.                             *)
(*                                                                          *)
(* A layer (a HashMap<Key, StorageModification>) is a total function on Key *)
(* with NoMod where the map has no entry.  Values are opaque.  Gas and size *)
(* differences are left out: they never change what the log holds.          *)
(***************************************************************************)
EXTENDS Integers

CONSTANTS
    Key,        \* storage keys
    Val,        \* values; a validity predicate's code hash is one of them
    VpKey,      \* the keys for which is_validity_predicate() is Some
    NoVal,      \* "no value": what a read of an absent key returns
    Hash,       \* transaction hashes
    Event,      \* events emitted by transactions
    vp_key      \* vp_key[n] is the VP key of the n-th address generated

ASSUME NoValAssumption == NoVal \notin Val
ASSUME VpKeyAssumption == VpKey \subseteq Key

(* EstablishedAddressGen chains a hash: position n yields one address, and no
   two positions yield the same one (collision freedom of the hash) *)
Generated == DOMAIN vp_key
ASSUME GeneratorAssumption ==
    /\ Generated \subseteq Nat
    /\ vp_key \in [Generated -> VpKey]
    /\ \A m, n \in Generated : vp_key[m] = vp_key[n] => m = n

-----------------------------------------------------------------------------
(* StorageModification, with NoMod for "no entry in this layer" *)

Write(v)       == [kind |-> "Write", value |-> v]
Delete         == [kind |-> "Delete", value |-> NoVal]
InitAccount(h) == [kind |-> "InitAccount", value |-> h]
NoMod          == [kind |-> "NoMod", value |-> NoVal]

StorageModification ==
    {Delete} \cup {Write(v) : v \in Val} \cup {InitAccount(h) : h \in Val}

Layer     == [Key -> StorageModification \cup {NoMod}]
EmptyLayer == [k \in Key |-> NoMod]

(* HashMap::extend: the entries of "top" replace those of "bottom" *)
Extend(bottom, top) ==
    [k \in Key |-> IF top[k] = NoMod THEN bottom[k] ELSE top[k]]

(* The value a reader gets for a modification found in the log *)
ValueOf(mod) == IF mod.kind \in {"Write", "InitAccount"} THEN mod.value ELSE NoVal

-----------------------------------------------------------------------------
(* struct WriteLog.  address_gen is None (NoGen) until the block's first    *)
(* init_account, then the position of the local copy of the generator.      *)

NoGen == -1

WriteLogType ==
    [ address_gen : Nat \cup {NoGen},
      block_write_log : Layer,
      tx_write_log : Layer,
      tx_temp_log : [Key -> Val \cup {NoVal}],
      tx_precommit_write_log : Layer,
      events : SUBSET Event,
      replay_protection : SUBSET Hash ]

NoTemp == [k \in Key |-> NoVal]

DefaultWriteLog ==
    [ address_gen |-> NoGen,
      block_write_log |-> EmptyLayer,
      tx_write_log |-> EmptyLayer,
      tx_temp_log |-> NoTemp,
      tx_precommit_write_log |-> EmptyLayer,
      events |-> {},
      replay_protection |-> {} ]

-----------------------------------------------------------------------------
(* Reads *)

read(wl, key) ==
    IF wl.tx_write_log[key] # NoMod THEN wl.tx_write_log[key]
    ELSE IF wl.tx_precommit_write_log[key] # NoMod
         THEN wl.tx_precommit_write_log[key]
         ELSE wl.block_write_log[key]

read_pre(wl, key) == wl.block_write_log[key]

(* The entry of the current transaction, precommitted part included: what
   the mutating methods consult before they write *)
TxEntry(wl, key) ==
    IF wl.tx_write_log[key] # NoMod THEN wl.tx_write_log[key]
    ELSE wl.tx_precommit_write_log[key]

(* StorageRead::read_bytes and the pre-state read of a validity predicate,
   over the write log and the database *)
read_bytes(wl, db, key) ==
    IF read(wl, key) = NoMod THEN db[key] ELSE ValueOf(read(wl, key))

read_bytes_pre(wl, db, key) ==
    IF read_pre(wl, key) = NoMod THEN db[key] ELSE ValueOf(read_pre(wl, key))

-----------------------------------------------------------------------------
(* Mutating methods: a result and the log after the call.  An error in the  *)
(* protocol methods can come after the insertion has been made.             *)

Ok == "Ok"

Outcome(res, wl) == [res |-> res, wl |-> wl]

write(wl, key, v) ==
    IF wl.tx_temp_log[key] # NoVal THEN Outcome("UpdateTemporaryValue", wl)
    ELSE IF TxEntry(wl, key).kind = "InitAccount"
         THEN Outcome("UpdateVpOfNewAccount", wl)
         ELSE Outcome(Ok, [wl EXCEPT !.tx_write_log[key] = Write(v)])

protocol_write(wl, key, v) ==
    IF wl.tx_temp_log[key] # NoVal THEN Outcome("UpdateTemporaryValue", wl)
    ELSE Outcome(IF wl.block_write_log[key].kind = "InitAccount"
                 THEN "UpdateVpOfNewAccount" ELSE Ok,
                 [wl EXCEPT !.block_write_log[key] = Write(v)])

write_temp(wl, key, v) ==
    CASE TxEntry(wl, key).kind = "Write" -> Outcome("WriteTempAfterWrite", wl)
      [] TxEntry(wl, key).kind = "Delete" -> Outcome("WriteTempAfterDelete", wl)
      [] TxEntry(wl, key).kind = "InitAccount" -> Outcome("UpdateVpOfNewAccount", wl)
      [] OTHER -> Outcome(Ok, [wl EXCEPT !.tx_temp_log[key] = v])

(* Mutant of delete: the VP keys are not refused *)
delete_AnyKey(wl, key) == Outcome(Ok, [wl EXCEPT !.tx_write_log[key] = Delete])

delete(wl, key) ==
    IF key \in VpKey \/ TxEntry(wl, key).kind = "InitAccount"
    THEN Outcome("DeleteVp", wl)
    ELSE Outcome(Ok, [wl EXCEPT !.tx_write_log[key] = Delete])

protocol_delete(wl, key) ==
    IF key \in VpKey THEN Outcome("DeleteVp", wl)
    ELSE Outcome(IF wl.block_write_log[key].kind = "InitAccount"
                 THEN "DeleteVp" ELSE Ok,
                 [wl EXCEPT !.block_write_log[key] = Delete])

(* address_gen.get_or_insert_with(|| storage_address_gen.clone()) *)
CurrentGen(wl, storage_address_gen) ==
    IF wl.address_gen = NoGen THEN storage_address_gen ELSE wl.address_gen

init_account(wl, storage_address_gen, vp_code_hash) ==
    LET gen == CurrentGen(wl, storage_address_gen)
    IN  [wl EXCEPT !.address_gen = gen + 1,
                   !.tx_write_log[vp_key[gen]] = InitAccount(vp_code_hash)]

emit_event(wl, e) == [wl EXCEPT !.events = @ \cup {e}]

take_events(wl) == [wl EXCEPT !.events = {}]

precommit_tx(wl) ==
    [wl EXCEPT !.tx_precommit_write_log = Extend(@, wl.tx_write_log),
               !.tx_write_log = EmptyLayer]

(* Mutant of commit_tx: only what was precommitted reaches the block's log *)
commit_tx_Forgets(wl) ==
    [wl EXCEPT !.block_write_log = Extend(@, wl.tx_precommit_write_log),
               !.tx_precommit_write_log = EmptyLayer,
               !.tx_write_log = EmptyLayer,
               !.tx_temp_log = NoTemp,
               !.events = {}]

(* precommit_tx, then the block log extended with the whole precommit log *)
commit_tx(wl) ==
    LET pre == precommit_tx(wl)
    IN  [pre EXCEPT !.block_write_log = Extend(@, pre.tx_precommit_write_log),
                    !.tx_precommit_write_log = EmptyLayer,
                    !.tx_temp_log = NoTemp,
                    !.events = {}]

(* Mutant of drop_tx: the address generator goes back to the one in storage *)
drop_tx_ResetsGen(wl) ==
    [wl EXCEPT !.tx_precommit_write_log = EmptyLayer,
               !.tx_write_log = EmptyLayer,
               !.tx_temp_log = NoTemp,
               !.events = {},
               !.address_gen = NoGen]

drop_tx(wl) ==
    [wl EXCEPT !.tx_precommit_write_log = EmptyLayer,
               !.tx_write_log = EmptyLayer,
               !.tx_temp_log = NoTemp,
               !.events = {}]

(* Mutant of drop_tx_keep_precommit: the precommitted part is dropped too *)
drop_tx_All(wl) ==
    [wl EXCEPT !.tx_write_log = EmptyLayer, !.tx_precommit_write_log = EmptyLayer]

drop_tx_keep_precommit(wl) == [wl EXCEPT !.tx_write_log = EmptyLayer]

has_replay_protection_entry(wl, hash) == hash \in wl.replay_protection

write_tx_hash(wl, hash) ==
    Outcome(IF hash \in wl.replay_protection THEN "ReplayProtection" ELSE Ok,
            [wl EXCEPT !.replay_protection = @ \cup {hash}])

redundant_tx_hash(wl, hash) ==
    Outcome(IF hash \in wl.replay_protection THEN Ok ELSE "ReplayProtection",
            [wl EXCEPT !.replay_protection = @ \ {hash}])

=============================================================================
