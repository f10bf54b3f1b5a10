---------------------------- MODULE WlStateProofs ----------------------------
(***************************************************************************)
(* Proofs about the storage state: type correctness, fresh addresses, VPs   *)
(* that stay, and the implementation of the transactional store.            *)
(***************************************************************************)
EXTENDS WlState, TLAPS

Mod == StorageModification \cup {NoMod}

(* What an entry of a layer is: the case analysis every proof below starts from *)
LEMMA ModCases ==
    ASSUME NEW mod \in Mod
    PROVE  \/ mod = NoMod
           \/ mod = Delete
           \/ \E v \in Val : mod = Write(v)
           \/ \E v \in Val : mod = InitAccount(v)
BY DEF Mod, StorageModification

(* The entries that the methods insert are modifications *)
LEMMA ModIntro ==
    /\ NoMod \in Mod
    /\ Delete \in Mod
    /\ \A v \in Val : Write(v) \in Mod /\ InitAccount(v) \in Mod
BY DEF Mod, StorageModification

(* What a reader gets for an entry is a value, and no value for a VP only if
   the entry is a deletion or there is no entry *)
LEMMA ModValue ==
    ASSUME NEW mod \in Mod
    PROVE  /\ ValueOf(mod) \in Val \cup {NoVal}
           /\ mod.kind \in {"NoMod", "Delete", "Write", "InitAccount"}
           /\ mod.kind = "NoMod" <=> mod = NoMod
           /\ ValueOf(mod) = NoVal <=> mod.kind \in {"NoMod", "Delete"}
BY ModCases, NoValAssumption DEF ValueOf, NoMod, Delete, Write, InitAccount

LEMMA LayerType ==
    /\ Layer = [Key -> Mod]
    /\ EmptyLayer \in Layer
    /\ NoTemp \in [Key -> Val \cup {NoVal}]
    /\ \A bottom, top \in Layer : Extend(bottom, top) \in Layer
BY ModIntro DEF Layer, EmptyLayer, NoTemp, Extend, Mod

-----------------------------------------------------------------------------
(* Every method keeps the write log's type *)

LEMMA DefaultType == DefaultWriteLog \in WriteLogType
BY LayerType DEF DefaultWriteLog, WriteLogType, NoGen

LEMMA WriteType ==
    ASSUME NEW w \in WriteLogType, NEW k \in Key, NEW v \in Val
    PROVE  /\ write(w, k, v).wl \in WriteLogType
           /\ protocol_write(w, k, v).wl \in WriteLogType
<1>1. write(w, k, v).wl \in WriteLogType
  BY LayerType, ModIntro DEF write, Outcome, WriteLogType
<1>2. protocol_write(w, k, v).wl \in WriteLogType
  BY LayerType, ModIntro DEF protocol_write, Outcome, WriteLogType
<1> QED BY <1>1, <1>2

LEMMA WriteTempType ==
    ASSUME NEW w \in WriteLogType, NEW k \in Key, NEW v \in Val
    PROVE  write_temp(w, k, v).wl \in WriteLogType
BY DEF write_temp, Outcome, WriteLogType

LEMMA DeleteType ==
    ASSUME NEW w \in WriteLogType, NEW k \in Key
    PROVE  /\ delete(w, k).wl \in WriteLogType
           /\ protocol_delete(w, k).wl \in WriteLogType
<1>1. delete(w, k).wl \in WriteLogType
  BY LayerType, ModIntro DEF delete, Outcome, WriteLogType
<1>2. protocol_delete(w, k).wl \in WriteLogType
  BY LayerType, ModIntro DEF protocol_delete, Outcome, WriteLogType
<1> QED BY <1>1, <1>2

LEMMA InitAccountType ==
    ASSUME NEW w \in WriteLogType, NEW g \in Nat, NEW h \in Val,
           CurrentGen(w, g) \in Generated
    PROVE  init_account(w, g, h) \in WriteLogType
<1> DEFINE gen == CurrentGen(w, g)
           log == [w.tx_write_log EXCEPT ![vp_key[gen]] = InitAccount(h)]
<1>1. vp_key[gen] \in Key /\ gen + 1 \in Nat \cup {NoGen}
  BY GeneratorAssumption, VpKeyAssumption DEF Generated
<1>2. w.tx_write_log \in Layer
  BY DEF WriteLogType
<1>3. log \in Layer
  BY <1>1, <1>2, LayerType, ModIntro
<1>4. init_account(w, g, h) = [w EXCEPT !.address_gen = gen + 1, !.tx_write_log = log]
  BY DEF init_account, WriteLogType
<1> HIDE DEF gen, log
<1> QED
  BY <1>1, <1>3, <1>4 DEF WriteLogType

LEMMA EndTxType ==
    ASSUME NEW w \in WriteLogType
    PROVE  /\ precommit_tx(w) \in WriteLogType
           /\ commit_tx(w) \in WriteLogType
           /\ drop_tx(w) \in WriteLogType
           /\ drop_tx_keep_precommit(w) \in WriteLogType
           /\ take_events(w) \in WriteLogType
<1>1. precommit_tx(w) \in WriteLogType
  BY LayerType DEF precommit_tx, WriteLogType
<1>2. commit_tx(w) \in WriteLogType
  BY <1>1, LayerType DEF commit_tx, WriteLogType
<1>3. /\ drop_tx(w) \in WriteLogType
      /\ drop_tx_keep_precommit(w) \in WriteLogType
      /\ take_events(w) \in WriteLogType
  BY LayerType DEF drop_tx, drop_tx_keep_precommit, take_events, WriteLogType
<1> QED BY <1>1, <1>2, <1>3

-----------------------------------------------------------------------------
(* Type correctness *)

LEMMA PreViewType ==
    ASSUME TypeOK
    PROVE  [k \in Key |-> read_bytes_pre(wl, db, k)] \in [Key -> Val \cup {NoVal}]
<1> SUFFICES ASSUME NEW k \in Key
             PROVE  read_bytes_pre(wl, db, k) \in Val \cup {NoVal}
  OBVIOUS
<1>1. wl.block_write_log[k] \in Mod
  BY LayerType DEF TypeOK, WriteLogType
<1> QED
  BY <1>1, ModValue DEF TypeOK, read_bytes_pre, read_pre

LEMMA NextType == TypeOK /\ [Next]_vars => TypeOK'
<1> SUFFICES ASSUME TypeOK, [Next]_vars PROVE TypeOK'
  OBVIOUS
<1> USE DEF TypeOK
<1>1. ASSUME NEW k \in Key, NEW v \in Val,
             TxWrite(k, v) \/ TxWriteTemp(k, v) \/ ProtocolWrite(k, v)
      PROVE  TypeOK'
  BY <1>1, WriteType, WriteTempType DEF TxWrite, TxWriteTemp, ProtocolWrite
<1>2. ASSUME NEW k \in Key, TxDelete(k) \/ ProtocolDelete(k)
      PROVE  TypeOK'
  BY <1>2, DeleteType DEF TxDelete, ProtocolDelete
<1>3. ASSUME NEW h \in Val, TxInitAccount(h)
      PROVE  TypeOK'
  BY <1>3, InitAccountType DEF TxInitAccount
<1>4. ASSUME NEW h \in Val, NEW k \in VpKey, TxUpdateValidityPredicate(k, h)
      PROVE  TypeOK'
  BY <1>4, WriteType, VpKeyAssumption DEF TxUpdateValidityPredicate
<1>5. ASSUME NEW e \in Event, TxEmitEvent(e)
      PROVE  TypeOK'
  BY <1>5 DEF TxEmitEvent, emit_event, WriteLogType
<1>6. ASSUME TxTakeEvents \/ PrecommitTx \/ CommitTx \/ DropTx \/ DropTxKeepPrecommit
      PROVE  TypeOK'
  BY <1>6, EndTxType DEF TxTakeEvents, PrecommitTx, CommitTx, DropTx, DropTxKeepPrecommit
<1>7. ASSUME NEW h \in Hash, WriteTxHash(h) \/ RedundantTxHash(h)
      PROVE  TypeOK'
  BY <1>7 DEF WriteTxHash, RedundantTxHash, write_tx_hash, redundant_tx_hash,
              Outcome, WriteLogType
<1>8. ASSUME CommitBlock
      PROVE  TypeOK'
  <2>1. db' \in [Key -> Val \cup {NoVal}]
    BY <1>8, PreViewType DEF CommitBlock, FlushedDb
  <2>2. in_mem_gen' \in Nat /\ db_gen' \in Nat
    BY <1>8 DEF CommitBlock, CurrentGen, WriteLogType
  <2>3. wl' \in WriteLogType
    BY <1>8, LayerType DEF CommitBlock, WriteLogType
  <2>4. replay' \in [current : SUBSET Hash, general : SUBSET Hash]
    BY <1>8 DEF CommitBlock, FlushedReplay, WriteLogType
  <2> QED BY <2>1, <2>2, <2>3, <2>4
<1>9. ASSUME Restart
      PROVE  TypeOK'
  BY <1>9, DefaultType DEF Restart
<1>10. CASE UNCHANGED vars
  BY <1>10 DEF vars
<1> QED
  BY <1>1, <1>2, <1>3, <1>4, <1>5, <1>6, <1>7, <1>8, <1>9, <1>10 DEF Next

(* The storage state is always of the type of its Rust structs. *)
THEOREM TypeCorrect == Spec => []TypeOK
<1>1. Init => TypeOK
  BY DefaultType DEF Init, TypeOK
<1> QED
  BY <1>1, NextType, PTL DEF Spec

-----------------------------------------------------------------------------
(* Fresh addresses and VPs that stay *)

Inv == TypeOK /\ FreshInv /\ NoVpDeletion

(* What the layers of a typed write log hold at a key *)
LEMMA LayerEntry ==
    ASSUME NEW w \in WriteLogType, NEW k \in Key
    PROVE  /\ w.block_write_log[k] \in Mod
           /\ w.tx_write_log[k] \in Mod
           /\ w.tx_precommit_write_log[k] \in Mod
BY LayerType DEF WriteLogType

(* The kinds of the entries a transaction or the protocol inserts *)
LEMMA Kinds ==
    /\ NoMod.kind = "NoMod"
    /\ Delete.kind = "Delete"
    /\ \A v : Write(v).kind = "Write" /\ InitAccount(v).kind = "InitAccount"
BY DEF NoMod, Delete, Write, InitAccount

LEMMA NextInv == Inv /\ [Next]_vars => Inv'
<1> SUFFICES ASSUME Inv, [Next]_vars PROVE (FreshInv /\ NoVpDeletion)'
  BY NextType DEF Inv
<1> USE VpKeyAssumption, GeneratorAssumption, Kinds
        DEF Inv, TypeOK, FreshInv, GenOrder, FreshInDb, FreshInLog, NoVpDeletion, CurrentGen
<1>1. ASSUME NEW k \in Key, NEW v \in Val, TxWrite(k, v)
      PROVE  (FreshInv /\ NoVpDeletion)'
  BY <1>1 DEF TxWrite, write, Outcome, WriteLogType, Layer
<1>2. ASSUME NEW k \in Key, NEW v \in Val, TxWriteTemp(k, v)
      PROVE  (FreshInv /\ NoVpDeletion)'
  BY <1>2 DEF TxWriteTemp, write_temp, Outcome, WriteLogType
<1>3. ASSUME NEW k \in Key, NEW v \in Val, ProtocolWrite(k, v)
      PROVE  (FreshInv /\ NoVpDeletion)'
  BY <1>3 DEF ProtocolWrite, protocol_write, Outcome, WriteLogType, Layer,
              read_bytes_pre, read_pre, ValueOf
<1>4. ASSUME NEW k \in Key, TxDelete(k) \/ ProtocolDelete(k)
      PROVE  (FreshInv /\ NoVpDeletion)'
  BY <1>4 DEF TxDelete, ProtocolDelete, delete, protocol_delete, Outcome, WriteLogType, Layer
<1>5. ASSUME NEW h \in Val, TxInitAccount(h)
      PROVE  (FreshInv /\ NoVpDeletion)'
  <2> DEFINE gen == CurrentGen(wl, in_mem_gen)
  <2>1. gen \in Generated /\ gen \in Nat /\ gen >= in_mem_gen /\ vp_key[gen] \in Key
    BY <1>5 DEF TxInitAccount, WriteLogType, Generated
  <2>2. /\ wl'.address_gen = gen + 1
        /\ wl'.block_write_log = wl.block_write_log
        /\ wl'.tx_precommit_write_log = wl.tx_precommit_write_log
        /\ wl'.tx_write_log = [wl.tx_write_log EXCEPT ![vp_key[gen]] = InitAccount(h)]
    BY <1>5 DEF TxInitAccount, init_account, WriteLogType
  <2>3. db' = db /\ in_mem_gen' = in_mem_gen /\ db_gen' = db_gen
    BY <1>5 DEF TxInitAccount
  <2>4. CurrentGen(wl, in_mem_gen)' = gen + 1
    BY <2>1, <2>2, <2>3 DEF NoGen
  <2>5. wl.tx_write_log \in [Key -> Mod]
    BY LayerType DEF WriteLogType
  <2> HIDE DEF gen
  <2>6. GenOrder' /\ FreshInDb'
    BY <2>1, <2>2, <2>3
  <2>7. FreshInLog'
    <3> SUFFICES ASSUME NEW n \in Generated, n >= gen + 1
                 PROVE  /\ wl.block_write_log[vp_key[n]].kind \in {"NoMod", "Delete"}
                        /\ wl'.tx_write_log[vp_key[n]].kind # "InitAccount"
                        /\ wl.tx_precommit_write_log[vp_key[n]].kind # "InitAccount"
      BY <2>2, <2>4 DEF CurrentGen, FreshInLog
    <3>0. n \in Nat /\ gen \in Nat
      BY <2>1
    <3>1. n >= gen /\ n # gen
      BY ONLY <3>0, n >= gen + 1
    <3>2. vp_key[n] # vp_key[gen] /\ vp_key[n] \in Key
      BY <3>1, <2>1 DEF Generated
    <3> QED
      BY <3>1, <3>2, <2>2, <2>5 DEF gen
  <2>8. NoVpDeletion'
    BY <2>1, <2>2, <2>5
  <2> QED
    BY <2>6, <2>7, <2>8
<1>6. ASSUME NEW h \in Val, NEW k \in VpKey, TxUpdateValidityPredicate(k, h)
      PROVE  (FreshInv /\ NoVpDeletion)'
  BY <1>6 DEF TxUpdateValidityPredicate, write, Outcome, WriteLogType, Layer
<1>7. ASSUME NEW e \in Event, TxEmitEvent(e)
      PROVE  (FreshInv /\ NoVpDeletion)'
  BY <1>7 DEF TxEmitEvent, emit_event, WriteLogType
<1>8. ASSUME TxTakeEvents
      PROVE  (FreshInv /\ NoVpDeletion)'
  BY <1>8 DEF TxTakeEvents, take_events, WriteLogType
<1>9. ASSUME PrecommitTx
      PROVE  (FreshInv /\ NoVpDeletion)'
  BY <1>9 DEF PrecommitTx, precommit_tx, Extend, EmptyLayer, WriteLogType, Layer
<1>10. ASSUME CommitTx
      PROVE  (FreshInv /\ NoVpDeletion)'
  <2>1. /\ wl'.address_gen = wl.address_gen
        /\ wl'.tx_write_log = EmptyLayer
        /\ wl'.tx_precommit_write_log = EmptyLayer
        /\ \A k \in Key : wl'.block_write_log[k] =
              IF TxEntry(wl, k) = NoMod THEN wl.block_write_log[k] ELSE TxEntry(wl, k)
    BY <1>10 DEF CommitTx, commit_tx, precommit_tx, Extend, TxEntry, WriteLogType
  <2>2. \A k \in VpKey : TxEntry(wl, k).kind = "Write" => db[k] # NoVal
    BY <1>10 DEF CommitTx, VpsFound
  <2>3. \A k \in Key : TxEntry(wl, k).kind \in {"NoMod", "Delete", "Write", "InitAccount"}
    BY LayerEntry, ModValue DEF TxEntry
  <2> QED
    BY <1>10, <2>1, <2>2, <2>3 DEF CommitTx, EmptyLayer, TxEntry, WriteLogType
<1>11. ASSUME DropTx \/ DropTxKeepPrecommit
      PROVE  (FreshInv /\ NoVpDeletion)'
  <2>1. /\ wl'.address_gen = wl.address_gen
        /\ wl'.block_write_log = wl.block_write_log
        /\ wl'.tx_write_log = EmptyLayer
        /\ wl'.tx_precommit_write_log \in {EmptyLayer, wl.tx_precommit_write_log}
    BY <1>11 DEF DropTx, DropTxKeepPrecommit, drop_tx, drop_tx_keep_precommit, WriteLogType
  <2>2. db' = db /\ in_mem_gen' = in_mem_gen /\ db_gen' = db_gen
    BY <1>11 DEF DropTx, DropTxKeepPrecommit
  <2>3. \A n \in Generated : vp_key[n] \in Key
    BY DEF Generated
  <2> QED
    BY <2>1, <2>2, <2>3 DEF EmptyLayer
<1>12. ASSUME NEW h \in Hash, WriteTxHash(h) \/ RedundantTxHash(h)
      PROVE  (FreshInv /\ NoVpDeletion)'
  BY <1>12 DEF WriteTxHash, RedundantTxHash, write_tx_hash, redundant_tx_hash,
               Outcome, WriteLogType
<1>13. ASSUME CommitBlock
      PROVE  (FreshInv /\ NoVpDeletion)'
  <2>1. /\ wl'.address_gen = NoGen
        /\ wl'.block_write_log = EmptyLayer
        /\ wl'.tx_write_log = wl.tx_write_log
        /\ wl'.tx_precommit_write_log = wl.tx_precommit_write_log
    BY <1>13 DEF CommitBlock, WriteLogType
  <2>2. in_mem_gen' = CurrentGen(wl, in_mem_gen) /\ db_gen' = in_mem_gen'
    BY <1>13 DEF CommitBlock
  <2>3. \A n \in Generated : vp_key[n] \in Key
    BY DEF Generated
  <2>4. GenOrder'
    BY <2>1, <2>2
  <2>5. ASSUME NEW n \in Generated, n >= in_mem_gen'
        PROVE  db'[vp_key[n]] = NoVal
    <3>1. db[vp_key[n]] = NoVal
      BY <2>2, <2>5 DEF WriteLogType
    <3>2. wl.block_write_log[vp_key[n]].kind \in {"NoMod", "Delete"}
      BY <2>2, <2>5
    <3>3. ValueOf(wl.block_write_log[vp_key[n]]) = NoVal
      BY <3>2, <2>3, LayerEntry, ModValue
    <3> QED
      BY <1>13, <3>1, <3>3, <2>3 DEF CommitBlock, FlushedDb, read_bytes_pre, read_pre
  <2>6. FreshInLog'
    BY <2>1, <2>2, <2>3 DEF EmptyLayer
  <2>7. NoVpDeletion'
    BY <2>1 DEF EmptyLayer
  <2> QED
    BY <2>4, <2>5, <2>6, <2>7
<1>14. ASSUME Restart
      PROVE  (FreshInv /\ NoVpDeletion)'
  BY <1>14 DEF Restart, DefaultWriteLog, EmptyLayer
<1>15. CASE UNCHANGED vars
  BY <1>15 DEF vars
<1> QED
  BY <1>1, <1>2, <1>3, <1>4, <1>5, <1>6, <1>7, <1>8, <1>9, <1>10, <1>11, <1>12,
     <1>13, <1>14, <1>15 DEF Next

LEMMA SpecInv == Spec => []Inv
<1>1. Init => Inv
  BY DefaultType, GeneratorAssumption, VpKeyAssumption, Kinds
     DEF Init, Inv, TypeOK, FreshInv, GenOrder, FreshInDb, FreshInLog, NoVpDeletion,
         DefaultWriteLog, EmptyLayer, CurrentGen, Generated
<1> QED
  BY <1>1, NextInv, PTL DEF Spec

(* No address is generated twice: the account that the next init_account creates
   has a VP neither in the database nor in the block log. *)
THEOREM AddressesAreFresh == Spec => []FreshAddress
<1>1. Inv => FreshAddress
  <2> SUFFICES ASSUME Inv, NEW n \in Generated, n >= CurrentGen(wl, in_mem_gen)
               PROVE  read_bytes_pre(wl, db, vp_key[n]) = NoVal
    BY DEF FreshAddress
  <2>1. vp_key[n] \in Key /\ n \in Nat
    BY GeneratorAssumption, VpKeyAssumption DEF Generated
  <2>2. db[vp_key[n]] = NoVal
    BY <2>1 DEF Inv, TypeOK, WriteLogType, FreshInv, GenOrder, FreshInDb, CurrentGen
  <2>3. ValueOf(wl.block_write_log[vp_key[n]]) = NoVal
    BY <2>1, LayerEntry, ModValue DEF Inv, TypeOK, FreshInv, FreshInLog
  <2> QED
    BY <2>2, <2>3 DEF read_bytes_pre, read_pre
<1> QED
  BY <1>1, SpecInv, PTL

(* An account's VP stays in the database once it is there. *)
THEOREM VpsStay == Spec => VpNeverDeleted
<1>1. Inv /\ [Next]_vars => [\A k \in VpKey : db[k] # NoVal => db'[k] # NoVal]_vars
  <2> SUFFICES ASSUME Inv, Next, NEW k \in VpKey, db[k] # NoVal
               PROVE  db'[k] # NoVal
    OBVIOUS
  <2>1. CASE CommitBlock
    <3>1. wl.block_write_log[k] = NoMod \/ ValueOf(wl.block_write_log[k]) # NoVal
      BY VpKeyAssumption, LayerEntry, ModValue DEF Inv, TypeOK, NoVpDeletion
    <3> QED
      BY <2>1, <3>1, VpKeyAssumption DEF CommitBlock, FlushedDb, read_bytes_pre, read_pre
  <2>2. CASE ~CommitBlock
    <3>1. db' = db
      BY <2>2 DEF Next, TxWrite, TxWriteTemp, ProtocolWrite, TxDelete, ProtocolDelete,
                  TxInitAccount, TxUpdateValidityPredicate, TxEmitEvent, TxTakeEvents,
                  PrecommitTx, CommitTx, DropTx, DropTxKeepPrecommit, WriteTxHash,
                  RedundantTxHash, Restart
    <3> QED BY <3>1
  <2> QED BY <2>1, <2>2
<1> QED
  BY <1>1, SpecInv, PTL DEF Spec, VpNeverDeleted

-----------------------------------------------------------------------------
(* The write log implements the transactional store.  Each action is a step  *)
(* of the store on the three views, or leaves all of them as they are.       *)

(* What an inserted entry reads as *)
LEMMA EntryValues ==
    /\ ValueOf(Delete) = NoVal
    /\ \A v : ValueOf(Write(v)) = v /\ ValueOf(InitAccount(v)) = v
    /\ Delete # NoMod
    /\ \A v : Write(v) # NoMod /\ InitAccount(v) # NoMod
BY DEF ValueOf, Delete, Write, InitAccount, NoMod

(* A step that inserts one entry in the transaction's log updates post only *)
LEMMA InsertInTx ==
    ASSUME TypeOK, NEW k \in Key, NEW mod, mod # NoMod,
           wl'.tx_write_log = [wl.tx_write_log EXCEPT ![k] = mod],
           wl'.tx_precommit_write_log = wl.tx_precommit_write_log,
           wl'.block_write_log = wl.block_write_log,
           db' = db
    PROVE  Store!TxUpdate(k, ValueOf(mod))
<1>0. wl.tx_write_log \in [Key -> Mod]
  BY LayerType DEF TypeOK, WriteLogType
<1>1. PreView' = PreView /\ SavepointView' = SavepointView
  BY DEF PreView, SavepointView, read_bytes_pre, read_pre
<1>2. PostView' = [PostView EXCEPT ![k] = ValueOf(mod)]
  BY <1>0 DEF PostView, read_bytes, read
<1> QED
  BY <1>1, <1>2 DEF Store!TxUpdate

(* A step that inserts one entry in the block's log updates pre, and the other
   views where the transaction has no entry of its own *)
LEMMA InsertInBlock ==
    ASSUME TypeOK, NEW k \in Key, NEW mod, mod # NoMod,
           wl'.block_write_log = [wl.block_write_log EXCEPT ![k] = mod],
           wl'.tx_precommit_write_log = wl.tx_precommit_write_log,
           wl'.tx_write_log = wl.tx_write_log,
           db' = db
    PROVE  Store!ProtocolUpdate(k, ValueOf(mod))
<1>0. wl.block_write_log \in [Key -> Mod]
  BY LayerType DEF TypeOK, WriteLogType
<1>1. PreView' = [PreView EXCEPT ![k] = ValueOf(mod)]
  BY <1>0 DEF PreView, read_bytes_pre, read_pre
<1>2. SavepointView' \in {SavepointView, [SavepointView EXCEPT ![k] = ValueOf(mod)]}
  <2>1. CASE wl.tx_precommit_write_log[k] = NoMod
    <3>1. SavepointView' = [SavepointView EXCEPT ![k] = ValueOf(mod)]
      BY <1>0, <2>1 DEF SavepointView, read_bytes_pre, read_pre
    <3> QED BY <3>1
  <2>2. CASE wl.tx_precommit_write_log[k] # NoMod
    <3>1. SavepointView' = SavepointView
      BY <1>0, <2>2 DEF SavepointView, read_bytes_pre, read_pre
    <3> QED BY <3>1
  <2> QED BY <2>1, <2>2
<1>3. PostView' \in {PostView, [PostView EXCEPT ![k] = ValueOf(mod)]}
  <2>1. CASE wl.tx_precommit_write_log[k] = NoMod /\ wl.tx_write_log[k] = NoMod
    <3>1. PostView' = [PostView EXCEPT ![k] = ValueOf(mod)]
      BY <1>0, <2>1 DEF PostView, read_bytes, read
    <3> QED BY <3>1
  <2>2. CASE ~(wl.tx_precommit_write_log[k] = NoMod /\ wl.tx_write_log[k] = NoMod)
    <3>1. PostView' = PostView
      BY <1>0, <2>2 DEF PostView, read_bytes, read
    <3> QED BY <3>1
  <2> QED BY <2>1, <2>2
<1> QED
  BY <1>1, <1>2, <1>3 DEF Store!ProtocolUpdate

(* A step that changes no layer and not the database is a stutter *)
LEMMA SameLayers ==
    ASSUME wl'.tx_write_log = wl.tx_write_log,
           wl'.tx_precommit_write_log = wl.tx_precommit_write_log,
           wl'.block_write_log = wl.block_write_log,
           db' = db
    PROVE  UNCHANGED Store!vars
BY DEF Store!vars, PreView, SavepointView, PostView, read_bytes, read_bytes_pre, read, read_pre

(* write and delete: one update of post, or an error that changes nothing *)
LEMMA TxWriteMatches ==
    ASSUME TypeOK, NEW k \in Key, NEW v \in Val, wl' = write(wl, k, v).wl, db' = db
    PROVE  Store!TxUpdate(k, v) \/ UNCHANGED Store!vars
<1>1. CASE wl' = wl
  BY <1>1, SameLayers
<1>2. CASE wl' # wl
  <2>1. wl' = [wl EXCEPT !.tx_write_log[k] = Write(v)]
    BY <1>2 DEF write, Outcome
  <2>2. Store!TxUpdate(k, ValueOf(Write(v)))
    BY <2>1, InsertInTx, EntryValues DEF TypeOK, WriteLogType
  <2> QED BY <2>2, EntryValues
<1> QED BY <1>1, <1>2

LEMMA TxDeleteMatches ==
    ASSUME TypeOK, NEW k \in Key, TxDelete(k)
    PROVE  Store!TxUpdate(k, NoVal) \/ UNCHANGED Store!vars
<1>1. CASE wl' = wl
  BY <1>1, SameLayers DEF TxDelete
<1>2. CASE wl' # wl
  <2>1. wl' = [wl EXCEPT !.tx_write_log[k] = Delete]
    BY <1>2 DEF TxDelete, delete, Outcome
  <2>2. Store!TxUpdate(k, ValueOf(Delete))
    BY <2>1, InsertInTx, EntryValues DEF TxDelete, TypeOK, WriteLogType
  <2> QED BY <2>2, EntryValues
<1> QED BY <1>1, <1>2

(* What an entry of a merged layer is *)
LEMMA ExtendEntry ==
    ASSUME NEW bottom, NEW top, NEW k \in Key
    PROVE  Extend(bottom, top)[k] = IF top[k] = NoMod THEN bottom[k] ELSE top[k]
BY DEF Extend

(* commit_tx shows the next transaction what this one was reading *)
LEMMA CommitTxReads ==
    ASSUME wl'.tx_precommit_write_log = EmptyLayer,
           wl'.block_write_log = Extend(wl.block_write_log,
                                        Extend(wl.tx_precommit_write_log, wl.tx_write_log)),
           db' = db
    PROVE  PreView' = PostView /\ SavepointView' = PostView
<1>1. ASSUME NEW k \in Key
      PROVE  wl'.block_write_log[k] = read(wl, k)
  BY ExtendEntry DEF read
<1>2. ASSUME NEW k \in Key
      PROVE  read_bytes_pre(wl, db, k)' = read_bytes(wl, db, k)
  BY <1>1 DEF read_bytes_pre, read_pre, read_bytes
<1>3. PreView' = PostView
  BY <1>2 DEF PreView, PostView
<1>4. \A k \in Key : wl'.tx_precommit_write_log[k] = NoMod
  BY DEF EmptyLayer
<1>5. SavepointView' = PostView
  BY <1>2, <1>4 DEF SavepointView, PostView
<1> QED
  BY <1>3, <1>5

(* The operations without an argument *)
LEMMA EndTxMatches ==
    ASSUME TypeOK
    PROVE  /\ PrecommitTx => Store!SetSavepoint
           /\ CommitTx => Store!CommitTx
           /\ DropTx => Store!DropTx
           /\ DropTxKeepPrecommit => Store!RollbackToSavepoint
           /\ CommitBlock => Store!CommitBlock
           /\ Restart => Store!Restart
<1>1. ASSUME PrecommitTx
      PROVE  Store!SetSavepoint
  <2>1. /\ wl'.block_write_log = wl.block_write_log
        /\ wl'.tx_write_log = EmptyLayer
        /\ wl'.tx_precommit_write_log = Extend(wl.tx_precommit_write_log, wl.tx_write_log)
        /\ db' = db
    BY <1>1 DEF PrecommitTx, precommit_tx, TypeOK, WriteLogType
  <2>2. PreView' = PreView
    BY <2>1 DEF PreView, read_bytes_pre, read_pre
  <2>3. SavepointView' = PostView
    BY <2>1 DEF SavepointView, PostView, read_bytes_pre, read_pre, read_bytes, read, Extend
  <2>4. PostView' = PostView
    BY <2>1 DEF PostView, read_bytes, read, Extend, EmptyLayer
  <2> QED
    BY <2>1, <2>2, <2>3, <2>4 DEF Store!SetSavepoint
<1>2. ASSUME CommitTx
      PROVE  Store!CommitTx
  <2>1. /\ wl'.tx_write_log = EmptyLayer
        /\ wl'.tx_precommit_write_log = EmptyLayer
        /\ wl'.block_write_log = Extend(wl.block_write_log,
                                        Extend(wl.tx_precommit_write_log, wl.tx_write_log))
        /\ db' = db
    BY <1>2 DEF CommitTx, commit_tx, precommit_tx, TypeOK, WriteLogType
  <2>2. PreView' = PostView
    BY <2>1, CommitTxReads
  <2>3. SavepointView' = PostView
    BY <2>1, CommitTxReads
  <2>4. PostView' = PostView
    BY <2>1 DEF PostView, read_bytes, read, Extend, EmptyLayer
  <2> QED
    BY <2>1, <2>2, <2>3, <2>4 DEF Store!CommitTx
<1>3. ASSUME DropTx
      PROVE  Store!DropTx
  <2>1. /\ wl'.tx_write_log = EmptyLayer
        /\ wl'.tx_precommit_write_log = EmptyLayer
        /\ wl'.block_write_log = wl.block_write_log
        /\ db' = db
    BY <1>3 DEF DropTx, drop_tx, TypeOK, WriteLogType
  <2>2. PreView' = PreView /\ SavepointView' = PreView /\ PostView' = PreView
    BY <2>1 DEF PreView, SavepointView, PostView, read_bytes_pre, read_pre, read_bytes,
                read, EmptyLayer
  <2> QED
    BY <2>1, <2>2 DEF Store!DropTx
<1>4. ASSUME DropTxKeepPrecommit
      PROVE  Store!RollbackToSavepoint
  <2>1. /\ wl'.tx_write_log = EmptyLayer
        /\ wl'.tx_precommit_write_log = wl.tx_precommit_write_log
        /\ wl'.block_write_log = wl.block_write_log
        /\ db' = db
    BY <1>4 DEF DropTxKeepPrecommit, drop_tx_keep_precommit, TypeOK, WriteLogType
  <2>2. PreView' = PreView /\ SavepointView' = SavepointView /\ PostView' = SavepointView
    BY <2>1 DEF PreView, SavepointView, PostView, read_bytes_pre, read_pre, read_bytes,
                read, EmptyLayer
  <2> QED
    BY <2>1, <2>2 DEF Store!RollbackToSavepoint
<1>5. ASSUME CommitBlock
      PROVE  Store!CommitBlock
  <2>1. /\ wl'.tx_write_log = wl.tx_write_log
        /\ wl'.tx_precommit_write_log = wl.tx_precommit_write_log
        /\ wl'.block_write_log = EmptyLayer
        /\ db' = PreView
    BY <1>5 DEF CommitBlock, FlushedDb, PreView, TypeOK, WriteLogType
  <2>2. PreView' = PreView /\ SavepointView' = SavepointView /\ PostView' = PostView
    BY <2>1 DEF PreView, SavepointView, PostView, read_bytes_pre, read_pre, read_bytes,
                read, EmptyLayer
  <2> QED
    BY <2>1, <2>2 DEF Store!CommitBlock
<1>6. ASSUME Restart
      PROVE  Store!Restart
  <2>1. /\ wl'.tx_write_log = EmptyLayer
        /\ wl'.tx_precommit_write_log = EmptyLayer
        /\ wl'.block_write_log = EmptyLayer
        /\ db' = db
    BY <1>6 DEF Restart, DefaultWriteLog
  <2>2. PreView' = db /\ SavepointView' = db /\ PostView' = db
    BY <2>1 DEF PreView, SavepointView, PostView, read_bytes_pre, read_pre, read_bytes,
                read, EmptyLayer, TypeOK
  <2> QED
    BY <2>1, <2>2 DEF Store!Restart
<1> QED BY <1>1, <1>2, <1>3, <1>4, <1>5, <1>6

LEMMA StepImplements ==
    ASSUME TypeOK, [Next]_vars
    PROVE  [Store!Next]_(Store!vars)
<1>1. ASSUME NEW k \in Key, NEW v \in Val, wl' = write(wl, k, v).wl, db' = db
      PROVE  [Store!Next]_(Store!vars)
  BY <1>1, TxWriteMatches DEF Store!Next
<1>2. ASSUME NEW k \in Key, NEW v \in Val, TxWriteTemp(k, v)
      PROVE  [Store!Next]_(Store!vars)
  BY <1>2, SameLayers DEF TxWriteTemp, write_temp, Outcome, TypeOK, WriteLogType
<1>3. ASSUME NEW k \in Key, NEW v \in Val, ProtocolWrite(k, v)
      PROVE  [Store!Next]_(Store!vars)
  <2>1. CASE wl' = wl
    BY <1>3, <2>1, SameLayers DEF ProtocolWrite
  <2>2. CASE wl' # wl
    <3>1. wl' = [wl EXCEPT !.block_write_log[k] = Write(v)]
      BY <1>3, <2>2 DEF ProtocolWrite, protocol_write, Outcome
    <3>2. Store!ProtocolUpdate(k, ValueOf(Write(v)))
      BY <1>3, <3>1, InsertInBlock, EntryValues DEF ProtocolWrite, TypeOK, WriteLogType
    <3> QED BY <3>2, EntryValues DEF Store!Next
  <2> QED BY <2>1, <2>2
<1>4. ASSUME NEW k \in Key, TxDelete(k)
      PROVE  [Store!Next]_(Store!vars)
  BY <1>4, TxDeleteMatches DEF Store!Next
<1>5. ASSUME NEW k \in Key, ProtocolDelete(k)
      PROVE  [Store!Next]_(Store!vars)
  <2>1. CASE wl' = wl
    BY <1>5, <2>1, SameLayers DEF ProtocolDelete
  <2>2. CASE wl' # wl
    <3>1. wl' = [wl EXCEPT !.block_write_log[k] = Delete]
      BY <1>5, <2>2 DEF ProtocolDelete, protocol_delete, Outcome
    <3>2. Store!ProtocolUpdate(k, ValueOf(Delete))
      BY <1>5, <3>1, InsertInBlock, EntryValues DEF ProtocolDelete, TypeOK, WriteLogType
    <3> QED BY <3>2, EntryValues DEF Store!Next
  <2> QED BY <2>1, <2>2
<1>6. ASSUME NEW h \in Val, TxInitAccount(h)
      PROVE  [Store!Next]_(Store!vars)
  <2> DEFINE k == vp_key[CurrentGen(wl, in_mem_gen)]
  <2>1. k \in Key
    BY <1>6, GeneratorAssumption, VpKeyAssumption DEF TxInitAccount, Generated
  <2>2. /\ wl'.tx_write_log = [wl.tx_write_log EXCEPT ![k] = InitAccount(h)]
        /\ wl'.tx_precommit_write_log = wl.tx_precommit_write_log
        /\ wl'.block_write_log = wl.block_write_log
        /\ db' = db
    BY <1>6 DEF TxInitAccount, init_account, TypeOK, WriteLogType
  <2> HIDE DEF k
  <2>3. Store!TxUpdate(k, ValueOf(InitAccount(h)))
    BY <2>1, <2>2, InsertInTx, EntryValues
  <2> QED BY <2>1, <2>3, EntryValues DEF Store!Next
<1>7. ASSUME \/ \E e \in Event : TxEmitEvent(e)
             \/ TxTakeEvents
             \/ \E h \in Hash : WriteTxHash(h) \/ RedundantTxHash(h)
      PROVE  [Store!Next]_(Store!vars)
  BY <1>7, SameLayers DEF TxEmitEvent, TxTakeEvents, WriteTxHash, RedundantTxHash,
     emit_event, take_events, write_tx_hash, redundant_tx_hash, Outcome, TypeOK, WriteLogType
<1>8. ASSUME \/ PrecommitTx \/ CommitTx \/ DropTx \/ DropTxKeepPrecommit
             \/ CommitBlock \/ Restart
      PROVE  [Store!Next]_(Store!vars)
  BY <1>8, EndTxMatches DEF Store!Next
<1>9. CASE UNCHANGED vars
  BY <1>9, SameLayers DEF vars
<1> QED
  BY <1>1, <1>2, <1>3, <1>4, <1>5, <1>6, <1>7, <1>8, <1>9, VpKeyAssumption
     DEF Next, TxWrite, TxUpdateValidityPredicate

(* The storage state implements the transactional store: in whatever order the
   methods of the write log are called, a dropped transaction leaves no trace,
   a block commit changes what is durable and nothing else, and a restart
   recovers exactly what the last block commit made durable. *)
THEOREM WriteLogImplementsStore == Spec => ImplementsStore
<1>1. Init => Store!Init
  BY DEF Init, Store!Init, Store!Store, PreView, SavepointView, PostView, read_bytes_pre,
         read_pre, read_bytes, read, DefaultWriteLog, EmptyLayer
<1>2. TypeOK /\ [Next]_vars => [Store!Next]_(Store!vars)
  BY StepImplements
<1> QED
  BY <1>1, <1>2, TypeCorrect, PTL DEF Spec, ImplementsStore, Store!Spec

(* Each operation of the write log is the operation of the store that its caller
   means: commit_tx commits the whole transaction, drop_tx and a restart leave
   nothing of it, and drop_tx_keep_precommit leaves the precommitted part. *)
THEOREM OperationsCorrespond == Spec => OperationsMatch
<1>1. TypeOK => OperationMatches
  BY TxWriteMatches, TxDeleteMatches, EndTxMatches DEF OperationMatches, TxWrite
<1> QED
  BY <1>1, TypeCorrect, PTL DEF OperationsMatch

=============================================================================
