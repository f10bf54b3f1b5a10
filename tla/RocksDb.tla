------------------------------ MODULE RocksDb ------------------------------
(***************************************************************************)
(* The database of a node: what the batch of a block writes to each column *)
(* family, what a node loads when it starts, what it reads at past         *)
(* heights, and the rollback command, which takes the last block back so   *)
(* that it can be executed again, perhaps by another version of the code.  *)
(*                                                                         *)
(* A batch is written at once, so a crash leaves the last committed block. *)
(* A value is a number, 0 for a key that is not there.  The Merkle tree is *)
(* what it commits to, the values of the keys with persisted diffs, kept   *)
(* at the first height of each epoch and rebuilt from there by the diffs.  *)
(***************************************************************************)
EXTENDS Integers, FiniteSets, FiniteSetsExt

CONSTANTS
  PersistedKey,     \* keys whose diffs are kept, and that are merklized
  TransientKey,     \* keys whose diffs are kept for one block
  Value,            \* the values of a key
  MaxDbHeight,      \* the bound on the length of the chain
  MaxRollbacks      \* the bound on rollbacks

ASSUME DbAssumption ==
  /\ Value \subseteq Nat \ {0}
  /\ PersistedKey \intersect TransientKey = {}
  /\ MaxDbHeight \in Nat /\ MaxRollbacks \in Nat

VARIABLES
  disk,       \* the column families
  tree,       \* the Merkle tree in memory
  running,    \* whether the node runs
  snapshot,   \* what each committed block left (history only)
  redone,     \* the heights that were rolled back and executed again with
              \* another outcome (history only)
  rollbacks   \* how many rollbacks there were, and whether one was the last
              \* thing to change the database

dbVars == <<disk, tree, running, snapshot, redone, rollbacks>>

DbKey == PersistedKey \union TransientKey
DbHeight == 1..MaxDbHeight
DbEpoch == 0..MaxDbHeight
NoDiff == [old |-> 0, new |-> 0]
NoDiffs(keys) == [h \in 0..(MaxDbHeight + 1) |-> [k \in keys |-> NoDiff]]

DbInit ==
  /\ disk = [height |-> 0,
             subspace |-> [k \in DbKey |-> 0],
             diffs |-> NoDiffs(PersistedKey),
             rollback |-> NoDiffs(TransientKey),
             meta |-> 0, pred_meta |-> 0,
             conversion |-> 0, pred_conversion |-> 0, eth |-> 0,
             current |-> {}, general |-> {},
             epoch |-> [h \in DbHeight |-> 0],
             base |-> [h \in DbHeight |-> [k \in PersistedKey |-> 0]],
             stores |-> << >>]
  /\ tree = [k \in PersistedKey |-> 0]
  /\ running = TRUE
  /\ snapshot = << >>
  /\ redone = {}
  /\ rollbacks = [count |-> 0, fresh |-> FALSE]

-----------------------------------------------------------------------------
(* batch_write_subspace_diff puts a value over what is there and an absent *)
(* one not at all.                                                         *)
batch_write_subspace_diff(there, old, new) ==
  [old |-> IF old # 0 THEN old ELSE there.old,
   new |-> IF new # 0 THEN new ELSE there.new]

(* batch_write_subspace_val and batch_delete_subspace_val of the keys that *)
(* a block changes, in one column family of diffs.                         *)
WriteDiffs(there, writes) ==
  [k \in DOMAIN there |->
     IF k \in DOMAIN writes
     THEN batch_write_subspace_diff(there[k], disk.subspace[k], writes[k])
     ELSE there[k]]

WriteSubspace(writes) ==
  [k \in DbKey |-> IF k \in DOMAIN writes THEN writes[k] ELSE disk.subspace[k]]

(* prune_non_persisted_diffs of the block before.                          *)
WriteRollback(h, writes) ==
  [disk.rollback EXCEPT ![h] = WriteDiffs(disk.rollback[h], writes),
                        ![h - 1] = [k \in TransientKey |-> NoDiff]]

(* The tree stores of an epoch are written with its first block, which     *)
(* prunes the non-provable stores of the epoch before.                     *)
WriteStores(epoch, content, is_full_commit) ==
  IF ~is_full_commit THEN disk.stores
  ELSE [e \in (DOMAIN disk.stores \ {epoch - 1}) \union {epoch} |->
          IF e = epoch THEN content ELSE disk.stores[e]]

(* The batch of a block: commit_write_log_block, then                      *)
(* commit_block_from_batch.  What it writes under one key at every height  *)
(* is the number meta, with a predecessor or, of the Ethereum bridge,      *)
(* without; the conversion state is written with an epoch.                 *)
CommitBatch(writes, new_epoch, meta, content) ==
  LET h == disk.height + 1
      epoch == IF h = 1 THEN 0
               ELSE disk.epoch[h - 1] + (IF new_epoch THEN 1 ELSE 0)
      is_full_commit == h = 1 \/ new_epoch
  IN  [height |-> h,
       subspace |-> WriteSubspace(writes),
       diffs |-> [disk.diffs EXCEPT ![h] = WriteDiffs(disk.diffs[h], writes)],
       rollback |-> WriteRollback(h, writes),
       meta |-> meta, pred_meta |-> disk.meta,
       conversion |-> IF is_full_commit THEN meta ELSE disk.conversion,
       pred_conversion |-> IF is_full_commit THEN disk.conversion
                           ELSE disk.pred_conversion,
       eth |-> meta,
       current |-> {meta}, general |-> disk.general \union disk.current,
       epoch |-> [disk.epoch EXCEPT ![h] = epoch],
       base |-> [disk.base EXCEPT ![h] = content],
       stores |-> WriteStores(epoch, content, is_full_commit)]

View(d) ==
  [subspace |-> d.subspace, meta |-> d.meta, conversion |-> d.conversion,
   replay |-> d.current \union d.general, eth |-> d.eth]

CommitDbBlock(writes, new_epoch) ==
  LET h == disk.height + 1
      content == [k \in PersistedKey |->
                    IF k \in DOMAIN writes THEN writes[k] ELSE tree[k]]
      meta == h + rollbacks.count * MaxDbHeight
      d == CommitBatch(writes, new_epoch, meta, content)
      fresh == [k \in PersistedKey |->
                  IF k \in DOMAIN writes
                  THEN [old |-> disk.subspace[k], new |-> writes[k]] ELSE NoDiff]
  IN  /\ running
      /\ h <= MaxDbHeight
      /\ new_epoch => h > 1
      /\ disk' = d
      /\ tree' = content
      /\ snapshot' = [g \in 1..h |-> IF g = h THEN View(d) ELSE snapshot[g]]
      /\ redone' = IF d.diffs[h] = fresh THEN redone ELSE redone \union {h}
      /\ rollbacks' = [rollbacks EXCEPT !.fresh = FALSE]
      /\ UNCHANGED running

-----------------------------------------------------------------------------
(* Mutant of read_subspace_val_with_height: the height after is skipped     *)
read_subspace_val_with_height_SkipNext(k, h, last) ==
  LET changed(g) == disk.diffs[g][k] # NoDiff
      later == {g \in (h + 2)..last : changed(g)}
  IN  IF disk.diffs[h][k].new # 0 THEN disk.diffs[h][k].new
      ELSE IF disk.diffs[h][k].old # 0 THEN 0
      ELSE IF later # {} THEN disk.diffs[Min(later)][k].old
      ELSE disk.subspace[k]

(* read_subspace_val_with_height: the diff of the height itself, or the    *)
(* next one after it, or the latest value.                                 *)
read_subspace_val_with_height(k, h, last) ==
  LET changed(g) == disk.diffs[g][k] # NoDiff
      later == {g \in (h + 1)..(IF last > h THEN last ELSE h + 1) : changed(g)}
  IN  IF disk.diffs[h][k].new # 0 THEN disk.diffs[h][k].new
      ELSE IF disk.diffs[h][k].old # 0 THEN 0
      ELSE IF later # {} THEN disk.diffs[Min(later)][k].old
      ELSE disk.subspace[k]

(* get_merkle_tree of the last height: the stores of its epoch, the diffs  *)
(* of the heights since the first one of the epoch, and the base tree of   *)
(* the height, which must agree with the outcome.                          *)
epoch_start(h) == Min({g \in 1..h : disk.epoch[g] = disk.epoch[h]})

HasStores == disk.epoch[disk.height] \in DOMAIN disk.stores

(* Mutant of rebuild_full_merkle_tree: the diffs of deleted keys are not    *)
(* applied.                                                                *)
rebuild_full_merkle_tree_WritesOnly ==
  LET h == disk.height
      changes(k) ==
        {g \in (epoch_start(h) + 1)..h : disk.diffs[g][k].new # 0}
  IN  [k \in PersistedKey |->
         IF changes(k) = {} THEN disk.stores[disk.epoch[h]][k]
         ELSE disk.diffs[Max(changes(k))][k].new]

rebuild_full_merkle_tree ==
  LET h == disk.height
      changes(k) ==
        {g \in (epoch_start(h) + 1)..h : disk.diffs[g][k] # NoDiff}
  IN  [k \in PersistedKey |->
         IF changes(k) = {} THEN disk.stores[disk.epoch[h]][k]
         ELSE disk.diffs[Max(changes(k))][k].new]

CanStart ==
  disk.height > 0 =>
    HasStores /\ rebuild_full_merkle_tree = disk.base[disk.height]

(* The node stops, or crashes, and starts again; load_last_state panics    *)
(* when the tree cannot be rebuilt.                                        *)
StopNode ==
  /\ running
  /\ running' = FALSE
  /\ tree' = [k \in PersistedKey |-> 0]
  /\ UNCHANGED <<disk, snapshot, redone, rollbacks>>

load_last_state ==
  /\ ~running
  /\ CanStart
  /\ running' = TRUE
  /\ tree' = IF disk.height > 0 THEN rebuild_full_merkle_tree
             ELSE [k \in PersistedKey |-> 0]
  /\ UNCHANGED <<disk, snapshot, redone, rollbacks>>

(* Mutant of RestoreSubspace: the transient keys that the block created stay *)
RestoreSubspace_KeepCreated(h) ==
  [k \in DbKey |->
     IF k \in PersistedKey
     THEN IF disk.diffs[h][k].old # 0 THEN disk.diffs[h][k].old
          ELSE IF disk.subspace[k] # 0
          THEN read_subspace_val_with_height(k, h - 1, h)
          ELSE 0
     ELSE IF disk.rollback[h][k].old # 0 THEN disk.rollback[h][k].old
          ELSE disk.subspace[k]]

(* What rollback makes of the subspace: the keys that are there, then the  *)
(* old values of the last height, then the transient keys it created.      *)
RestoreSubspace(h) ==
  [k \in DbKey |->
     IF k \in PersistedKey
     THEN IF disk.diffs[h][k].old # 0 THEN disk.diffs[h][k].old
          ELSE IF disk.subspace[k] # 0
          THEN read_subspace_val_with_height(k, h - 1, h)
          ELSE 0
     ELSE IF disk.rollback[h][k].old # 0 THEN disk.rollback[h][k].old
          ELSE IF disk.rollback[h][k].new # 0 THEN 0
          ELSE disk.subspace[k]]

(* The rollback command.  The keys that begin with the last height stay:   *)
(* rollback looks for the height in decimal, they begin with its base 32   *)
(* form.  ethereum_height and eth_events_queue, without a predecessor,     *)
(* stay too.  A second rollback before a block is committed is none.       *)
Rollback ==
  LET h == disk.height
  IN  /\ ~running
      /\ h > 1
      /\ rollbacks.count < MaxRollbacks
      /\ ~rollbacks.fresh
      /\ disk' = [disk EXCEPT
           !.height = h - 1,
           !.subspace = RestoreSubspace(h),
           !.meta = disk.pred_meta,
           !.conversion = IF disk.epoch[h - 1] # disk.epoch[h]
                          THEN disk.pred_conversion ELSE disk.conversion,
           !.current = {}]
      /\ rollbacks' = [count |-> rollbacks.count + 1, fresh |-> TRUE]
      /\ UNCHANGED <<tree, running, snapshot, redone>>

BlockWrites ==
  UNION {[{k} -> Value \union {0}] : k \in DbKey} \union {<< >>}

DbNext ==
  \/ \E writes \in BlockWrites, new_epoch \in BOOLEAN :
       CommitDbBlock(writes, new_epoch)
  \/ StopNode \/ load_last_state \/ Rollback

DbSpec == DbInit /\ [][DbNext]_dbVars

-----------------------------------------------------------------------------
(* What a node finds on its disk is what the block of the last height      *)
(* left, also when rollback had to put it together from the diffs, the     *)
(* predecessors of the values that change with every block, and the two    *)
(* sets of transaction hashes.  The exception are the height and the event *)
(* queue of the Ethereum bridge, which rollback does not take back.        *)
RollbackRestores ==
  disk.height > 0 =>
    LET expected == snapshot[disk.height]
    IN  View(disk) = IF rollbacks.fresh THEN [expected EXCEPT !.eth = disk.eth]
                     ELSE expected

(* A key with persisted diffs is read at each past height as the block of  *)
(* that height left it.  The exception are heights that were executed a    *)
(* second time with another outcome, whose old diffs rollback left behind. *)
HistoryExact ==
  \A h \in 1..disk.height, k \in PersistedKey :
    h \notin redone =>
      read_subspace_val_with_height(k, h, disk.height) = snapshot[h].subspace[k]

(* A node can start from its disk, whenever it stopped, with the tree of   *)
(* the state it finds there.  The exceptions: a rollback took back the     *)
(* first block of an epoch, which had pruned the stores of the epoch       *)
(* before; a height of this epoch was executed again with another outcome. *)
StartsAgain ==
  \/ /\ CanStart
     /\ running => tree = [k \in PersistedKey |-> disk.subspace[k]]
  \/ rollbacks.fresh /\ disk.epoch[disk.height + 1] # disk.epoch[disk.height]
  \/ \E h \in redone : epoch_start(disk.height) < h /\ h <= disk.height

(* "Merkle tree should be restored", which load_last_state expects of      *)
(* every disk, one that was rolled back included.                          *)
TreeRestored == CanStart

=============================================================================
