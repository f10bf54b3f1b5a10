----------------------------- MODULE ShellProofs -----------------------------
(***************************************************************************)
(* Replay protection of the block life cycle, for any set of nodes, any     *)
(* wrappers and inner transactions, any balances and any bounds: what the   *)
(* runs on Shell check on small instances.                                  *)
(*                                                                          *)
(* Only the hashes in the write logs matter, so the first lemmas say which  *)
(* methods leave them alone.  Nothing is assumed of the amounts.            *)
(***************************************************************************)
EXTENDS Shell, TLAPS

(* A value with the fields of a write log, whatever the layers hold *)
IsLog(wl) ==
    DOMAIN wl = {"address_gen", "block_write_log", "tx_write_log", "tx_temp_log",
                 "tx_precommit_write_log", "events", "replay_protection"}

(* The log "after" is a write log with the hashes of "before" *)
KeepsHashes(before, after) ==
    IsLog(after) /\ after.replay_protection = before.replay_protection

(* A new write log has no hashes. *)
LEMMA DefaultIsLog == IsLog(DefaultWriteLog) /\ DefaultWriteLog.replay_protection = {}
  BY DEF DefaultWriteLog, IsLog

(* The methods on the layers and on the events do not touch the hashes. *)
LEMMA LayerMethods ==
  ASSUME NEW wl, IsLog(wl), NEW key, NEW v, NEW e
  PROVE  /\ KeepsHashes(wl, write(wl, key, v).wl)
         /\ KeepsHashes(wl, emit_event(wl, e))
         /\ KeepsHashes(wl, take_events(wl))
         /\ KeepsHashes(wl, precommit_tx(wl))
         /\ KeepsHashes(wl, commit_tx(wl))
         /\ KeepsHashes(wl, drop_tx(wl))
         /\ KeepsHashes(wl, drop_tx_keep_precommit(wl))
  <1>1. KeepsHashes(wl, write(wl, key, v).wl)
    BY DEF KeepsHashes, IsLog, write, Outcome
  <1>2. KeepsHashes(wl, emit_event(wl, e)) /\ KeepsHashes(wl, take_events(wl))
    BY DEF KeepsHashes, IsLog, emit_event, take_events
  <1>3. KeepsHashes(wl, precommit_tx(wl))
    BY DEF KeepsHashes, IsLog, precommit_tx
  <1>4. KeepsHashes(wl, commit_tx(wl))
    BY <1>3 DEF KeepsHashes, IsLog, commit_tx
  <1>5. KeepsHashes(wl, drop_tx(wl)) /\ KeepsHashes(wl, drop_tx_keep_precommit(wl))
    BY DEF KeepsHashes, IsLog, drop_tx, drop_tx_keep_precommit
  <1> QED  BY <1>1, <1>2, <1>3, <1>4, <1>5

(* The two methods on the hashes, and their results. *)
LEMMA HashMethods ==
  ASSUME NEW wl, IsLog(wl), NEW h
  PROVE  /\ IsLog(write_tx_hash(wl, h).wl)
         /\ write_tx_hash(wl, h).wl.replay_protection = wl.replay_protection \cup {h}
         /\ h \notin wl.replay_protection => write_tx_hash(wl, h).res = Ok
         /\ IsLog(redundant_tx_hash(wl, h).wl)
         /\ redundant_tx_hash(wl, h).wl.replay_protection = wl.replay_protection \ {h}
         /\ h \in wl.replay_protection => redundant_tx_hash(wl, h).res = Ok
  BY DEF IsLog, write_tx_hash, redundant_tx_hash, Outcome

(* Moving tokens does not touch the hashes. *)
LEMMA TransferKeepsHashes ==
  ASSUME NEW wl, IsLog(wl), NEW db, NEW src, NEW dest, NEW amount
  PROVE  KeepsHashes(wl, token_transfer(wl, db, src, dest, amount))
  <1> DEFINE paid == write(wl, src, read_balance(wl, db, src) - amount).wl
  <1>1. KeepsHashes(wl, paid)
    BY LayerMethods
  <1>2. KeepsHashes(paid, write(paid, dest, read_balance(wl, db, dest) + amount).wl)
    BY <1>1, LayerMethods DEF KeepsHashes
  <1> QED  BY <1>1, <1>2 DEF token_transfer, KeepsHashes

(* Fees, unshieldings and inner transactions do not touch the hashes. *)
LEMMA ExecutionKeepsHashes ==
  ASSUME NEW wl, IsLog(wl), NEW db, NEW w
  PROVE  /\ KeepsHashes(wl, transfer_fee(wl, db, w).wl)
         /\ KeepsHashes(wl, apply_wasm_tx(wl, db, w).wl)
         /\ KeepsHashes(wl, run_fee_unshielding(wl, db, w).wl)
  <1>1. KeepsHashes(wl, transfer_fee(wl, db, w).wl)
    <2> DEFINE balance == read_balance(wl, db, payer[w])
               amount  == IF balance >= fee[w] THEN fee[w] ELSE balance
               moved   == token_transfer(wl, db, payer[w], proposer, amount)
    <2>1. KeepsHashes(wl, moved)
      BY TransferKeepsHashes
    <2>2. KeepsHashes(moved, emit_event(moved, w))
      BY <2>1, LayerMethods DEF KeepsHashes
    <2>3. transfer_fee(wl, db, w).wl = emit_event(moved, w)
      BY DEF transfer_fee, Outcome
    <2> QED  BY <2>1, <2>2, <2>3 DEF KeepsHashes
  <1>2. KeepsHashes(wl, apply_wasm_tx(wl, db, w).wl)
    <2> DEFINE tx    == inner[raw[w]]
               moved == token_transfer(wl, db, tx.from, tx.to, tx.amount)
    <2>1. KeepsHashes(wl, moved)
      BY TransferKeepsHashes
    <2>2. KeepsHashes(moved, take_events(moved))
      BY <2>1, LayerMethods DEF KeepsHashes
    <2>3. apply_wasm_tx(wl, db, w).wl \in {wl, moved, take_events(moved)}
      BY DEF apply_wasm_tx, Outcome
    <2> QED  BY <2>1, <2>2, <2>3 DEF KeepsHashes
  <1>3. KeepsHashes(wl, run_fee_unshielding(wl, db, w).wl)
    <2> DEFINE pre   == precommit_tx(wl)
               moved == token_transfer(pre, db, pool, payer[w], unshield[w])
    <2>1. KeepsHashes(wl, pre)
      BY LayerMethods
    <2>2. KeepsHashes(pre, moved)
      BY <2>1, TransferKeepsHashes DEF KeepsHashes
    <2>3. KeepsHashes(moved, take_events(moved))
      BY <2>2, LayerMethods DEF KeepsHashes
    <2>4. KeepsHashes(pre, take_events(pre))
      BY <2>1, LayerMethods DEF KeepsHashes
    <2>5. KeepsHashes(take_events(pre), drop_tx_keep_precommit(take_events(pre)))
      BY <2>4, LayerMethods DEF KeepsHashes
    <2>6. run_fee_unshielding(wl, db, w).wl
            \in {wl, take_events(moved), drop_tx_keep_precommit(take_events(pre))}
      BY DEF run_fee_unshielding, Outcome
    <2> QED  BY <2>1, <2>2, <2>3, <2>4, <2>5, <2>6 DEF KeepsHashes
  <1> QED  BY <1>1, <1>2, <1>3

(* Charging a fee does not touch the hashes. *)
LEMMA ChargeKeepsHashes ==
  ASSUME NEW wl, IsLog(wl), NEW db, NEW w
  PROVE  KeepsHashes(wl, charge_fee(wl, db, w).wl)
  <1> DEFINE unshielded == run_fee_unshielding(wl, db, w).wl
             paid       == transfer_fee(unshielded, db, w)
  <1>1. KeepsHashes(wl, unshielded)
    BY ExecutionKeepsHashes
  <1>2. KeepsHashes(unshielded, paid.wl)
    BY <1>1, ExecutionKeepsHashes DEF KeepsHashes
  <1>3. KeepsHashes(paid.wl, commit_tx(paid.wl))
    BY <1>2, LayerMethods DEF KeepsHashes
  <1>4. charge_fee(wl, db, w).wl \in {paid.wl, commit_tx(paid.wl)}
    BY DEF charge_fee, Outcome
  <1> QED  BY <1>1, <1>2, <1>3, <1>4 DEF KeepsHashes

(* What a successful validation of a transaction says, and which hashes it
   leaves in the temporary log. *)
LEMMA CheckedTx ==
  ASSUME NEW d, NEW temp, IsLog(temp), NEW w
  PROVE  LET c == check_proposal_tx(d, temp, w)
         IN  /\ IsLog(c.wl)
             /\ temp.replay_protection \subseteq c.wl.replay_protection
             /\ c.res = Ok => /\ ~ReplayFound(d, temp, w)
                              /\ w \in c.wl.replay_protection
  <1> DEFINE hashed     == write_tx_hash(temp, w).wl
             unshielded == run_fee_unshielding(hashed, d.db, w)
             fee_paid   == transfer_fee(unshielded.wl, d.db, w)
             paid       == process_proposal_fee_check(hashed, d.db, w)
             c          == check_proposal_tx(d, temp, w)
  <1>1. IsLog(hashed) /\ hashed.replay_protection = temp.replay_protection \cup {w}
    BY HashMethods
  <1>2. KeepsHashes(hashed, paid.wl)
    <2>1. KeepsHashes(hashed, unshielded.wl)
      BY <1>1, ExecutionKeepsHashes
    <2>2. KeepsHashes(unshielded.wl, fee_paid.wl)
      BY <2>1, ExecutionKeepsHashes DEF KeepsHashes
    <2>3. paid \in {unshielded, fee_paid}
      BY DEF process_proposal_fee_check
    <2> QED  BY <2>1, <2>2, <2>3 DEF KeepsHashes
  <1>3. KeepsHashes(paid.wl, commit_tx(paid.wl)) /\ KeepsHashes(paid.wl, drop_tx(paid.wl))
    BY <1>2, LayerMethods DEF KeepsHashes
  <1>4. KeepsHashes(temp, drop_tx(temp))
    BY LayerMethods
  <1>5. \/ c.wl = drop_tx(temp) /\ c.res # Ok
        \/ c.wl = commit_tx(paid.wl) /\ ~ReplayFound(d, temp, w)
        \/ c.wl = drop_tx(paid.wl) /\ c.res # Ok
    BY DEF check_proposal_tx, Outcome, Ok
  <1> HIDE DEF hashed, paid, c
  <1>6. /\ IsLog(c.wl)
        /\ temp.replay_protection \subseteq c.wl.replay_protection
        /\ c.res = Ok => ~ReplayFound(d, temp, w) /\ w \in c.wl.replay_protection
    BY <1>1, <1>2, <1>3, <1>4, <1>5 DEF KeepsHashes
  <1> QED  BY <1>6 DEF c

-----------------------------------------------------------------------------
(* The memory of a node, as far as replay protection is concerned *)
IsMem(m) ==
    /\ DOMAIN m = {"wl", "temp", "pos", "panic", "applied", "charged", "events", "drained"}
    /\ IsLog(m.wl)
    /\ m.applied \in [Raw -> Nat]
    /\ m.charged \in [Wrapper -> Nat]

(* m2 is m with another write log, and no expect() has failed *)
SameBook(m, m2) ==
    /\ IsMem(m2) /\ ~m2.panic
    /\ m2.temp = m.temp /\ m2.pos = m.pos
    /\ m2.applied = m.applied /\ m2.charged = m.charged

(* Replacing the log of a node by a write log keeps its book. *)
LEMMA LogReplaced ==
  ASSUME NEW m, IsMem(m), ~m.panic, NEW wl, IsLog(wl)
  PROVE  /\ SameBook(m, [m EXCEPT !.wl = wl])
         /\ [m EXCEPT !.wl = wl].wl = wl
  BY DEF SameBook, IsMem

(* The expect() calls of commit_inner_tx_hash hold when the wrapper's hash is in
   the log and the inner transaction's is not; it leaves the latter only. *)
LEMMA InnerHashCommitted ==
  ASSUME NEW m, IsMem(m), ~m.panic, NEW w \in Wrapper,
         w \in m.wl.replay_protection, raw[w] \notin m.wl.replay_protection
  PROVE  LET m2 == commit_inner_tx_hash(m, w)
         IN  /\ SameBook(m, m2)
             /\ m2.wl.replay_protection = (m.wl.replay_protection \cup {raw[w]}) \ {w}
  <1> DEFINE written   == write_tx_hash(m.wl, raw[w])
             redundant == redundant_tx_hash(written.wl, w)
             m2        == commit_inner_tx_hash(m, w)
  <1>1. /\ IsLog(written.wl) /\ written.res = Ok
        /\ written.wl.replay_protection = m.wl.replay_protection \cup {raw[w]}
    BY HashMethods DEF IsMem
  <1>3. m2 = [m EXCEPT !.wl = redundant.wl,
                       !.panic = @ \/ written.res # Ok \/ redundant.res # Ok]
    BY DEF commit_inner_tx_hash
  <1> HIDE DEF written
  <1>4. w \in written.wl.replay_protection
    BY <1>1
  <1>5. /\ IsLog(redundant.wl) /\ redundant.res = Ok
        /\ redundant.wl.replay_protection = written.wl.replay_protection \ {w}
    <2>1. ASSUME NEW log, IsLog(log), w \in log.replay_protection
          PROVE  /\ IsLog(redundant_tx_hash(log, w).wl)
                 /\ redundant_tx_hash(log, w).res = Ok
                 /\ redundant_tx_hash(log, w).wl.replay_protection = log.replay_protection \ {w}
      BY <2>1, HashMethods
    <2> QED  BY <1>1, <1>4, <2>1
  <1> HIDE DEF redundant, m2
  <1>6. SameBook(m, m2) /\ m2.wl = redundant.wl
    BY <1>1, <1>3, <1>5 DEF SameBook, IsMem
  <1> QED  BY <1>1, <1>5, <1>6 DEF m2

(* One transaction of a block whose wrapper's hash is not in the write log: no
   expect() fails, hashes are only added, at most the wrapper's and the inner
   transaction's, and what is applied or charged leaves a hash behind. *)
FinalizedTx(m, m2, w) ==
    /\ IsMem(m2) /\ ~m2.panic
    /\ m2.temp = m.temp /\ m2.pos = m.pos
    /\ m.wl.replay_protection \subseteq m2.wl.replay_protection
    /\ m2.wl.replay_protection \subseteq m.wl.replay_protection \cup {w, raw[w]}
    /\ \/ m2.applied = m.applied
       \/ /\ raw[w] \notin m.wl.replay_protection
          /\ raw[w] \in m2.wl.replay_protection
          /\ m2.applied = [m.applied EXCEPT ![raw[w]] = @ + 1]
    /\ \/ m2.charged = m.charged
       \/ /\ {w, raw[w]} \cap m2.wl.replay_protection # {}
          /\ m2.charged = [m.charged EXCEPT ![w] = @ + 1]

(* The part of it that follows the charging of the fee *)
FinishedTx(m, m2, w) ==
    /\ IsMem(m2) /\ ~m2.panic
    /\ m2.temp = m.temp /\ m2.pos = m.pos /\ m2.charged = m.charged
    /\ m2.wl.replay_protection \in
         {m.wl.replay_protection, m.wl.replay_protection \ {w},
          (m.wl.replay_protection \cup {raw[w]}) \ {w}}
    /\ {w, raw[w]} \cap m2.wl.replay_protection # {}
    /\ \/ m2.applied = m.applied
       \/ /\ raw[w] \notin m.wl.replay_protection
          /\ raw[w] \in m2.wl.replay_protection
          /\ m2.applied = [m.applied EXCEPT ![raw[w]] = @ + 1]

(* A wrapper whose fee is charged is finished as FinishedTx says, however its
   inner transaction ends. *)
LEMMA TxFinished ==
  ASSUME NEW m, IsMem(m), ~m.panic, NEW db, NEW w \in Wrapper,
         w \in m.wl.replay_protection
  PROVE  FinishedTx(m, FinishTx(m, db, w), w)
  <1> DEFINE run    == apply_wasm_tx(m.wl, db, w)
             ran    == [m EXCEPT !.wl = run.wl]
             hashed == commit_inner_tx_hash(ran, w)
             hashes == m.wl.replay_protection
             m2     == FinishTx(m, db, w)
  <1>0. raw[w] \in Raw /\ raw[w] # w
    BY WrapperAssumption
  <1>1. KeepsHashes(m.wl, run.wl)
    BY ExecutionKeepsHashes DEF IsMem
  <1>2. SameBook(m, ran) /\ ran.wl = run.wl
    BY <1>1, LogReplaced DEF KeepsHashes
  <1>3. IsMem(ran) /\ ~ran.panic /\ ran.wl.replay_protection = hashes
    BY <1>1, <1>2 DEF SameBook, KeepsHashes
  <1>4. run.res = "ReplayAttempt" <=> raw[w] \in hashes
    BY WrapperAssumption DEF apply_wasm_tx, Outcome, has_replay_protection_entry, Ending
  <1> HIDE DEF run, ran
  <1>5. ASSUME raw[w] \notin hashes
        PROVE  /\ SameBook(ran, hashed)
               /\ hashed.wl.replay_protection = (hashes \cup {raw[w]}) \ {w}
    BY <1>3, <1>5, InnerHashCommitted
  <1>6. CASE run.res = "Accepted"
    <2>1. raw[w] \notin hashes
      BY <1>4, <1>6
    <2>2. SameBook(ran, hashed) /\ hashed.wl.replay_protection = (hashes \cup {raw[w]}) \ {w}
      BY <1>5, <2>1
    <2>3. KeepsHashes(hashed.wl, commit_tx(hashed.wl))
      BY <2>2, LayerMethods DEF SameBook, IsMem
    <2>4. m2 = [[hashed EXCEPT !.wl = commit_tx(hashed.wl), !.applied[raw[w]] = @ + 1]
                   EXCEPT !.events = @ \cup m.wl.events]
      BY <1>6 DEF FinishTx, TxAccepted, run, ran
    <2> HIDE DEF hashed, m2
    <2>5. /\ DOMAIN m2 = DOMAIN hashed
          /\ m2.wl = commit_tx(hashed.wl) /\ m2.temp = hashed.temp /\ m2.pos = hashed.pos
          /\ m2.panic = hashed.panic /\ m2.charged = hashed.charged
          /\ m2.applied = [hashed.applied EXCEPT ![raw[w]] = @ + 1]
      BY <2>2, <2>4 DEF SameBook, IsMem
    <2>6. hashed.applied = m.applied /\ m2.applied \in [Raw -> Nat]
      BY <1>0, <1>2, <2>2, <2>5 DEF SameBook, IsMem
    <2>7. m2.wl.replay_protection = (hashes \cup {raw[w]}) \ {w}
      BY <2>2, <2>3, <2>5 DEF KeepsHashes
    <2>8. /\ IsMem(m2) /\ ~m2.panic
          /\ m2.temp = m.temp /\ m2.pos = m.pos /\ m2.charged = m.charged
      BY <1>2, <2>2, <2>3, <2>5, <2>6 DEF SameBook, IsMem, KeepsHashes
    <2> QED  BY <1>0, <2>1, <2>5, <2>6, <2>7, <2>8 DEF m2, FinishedTx
  <1>7. ASSUME NEW mid, SameBook(ran, mid), m2 = [mid EXCEPT !.wl = drop_tx(mid.wl)],
               mid.wl.replay_protection \in {hashes, hashes \ {w}, (hashes \cup {raw[w]}) \ {w}},
               {w, raw[w]} \cap mid.wl.replay_protection # {}
        PROVE  FinishedTx(m, m2, w)
    <2>1. KeepsHashes(mid.wl, drop_tx(mid.wl))
      BY <1>7, LayerMethods DEF SameBook, IsMem
    <2>2. SameBook(mid, m2) /\ m2.wl = drop_tx(mid.wl)
      BY <1>7, <2>1, LogReplaced DEF SameBook, KeepsHashes
    <2> HIDE DEF m2
    <2>3. m2.wl.replay_protection = mid.wl.replay_protection
      BY <2>1, <2>2 DEF KeepsHashes
    <2>4. /\ IsMem(m2) /\ ~m2.panic /\ m2.applied = m.applied
          /\ m2.temp = m.temp /\ m2.pos = m.pos /\ m2.charged = m.charged
      BY <1>2, <1>7, <2>2 DEF SameBook
    <2> QED  BY <1>7, <2>3, <2>4 DEF FinishedTx
  <1>8. CASE run.res \in {"Rejected", "TxRunnerError"}
    <2>1. raw[w] \notin hashes
      BY <1>4, <1>8
    <2>2. m2 = [hashed EXCEPT !.wl = drop_tx(hashed.wl)]
      BY <1>8 DEF FinishTx, TxRejected, TxErrored, ErroredHashes, run, ran
    <2>3. SameBook(ran, hashed) /\ hashed.wl.replay_protection = (hashes \cup {raw[w]}) \ {w}
      BY <1>5, <2>1
    <2> HIDE DEF hashed
    <2>4. {w, raw[w]} \cap hashed.wl.replay_protection # {}
      BY <1>0, <2>3
    <2> HIDE DEF m2
    <2>5. FinishedTx(m, m2, w)
      BY <1>7, <2>2, <2>3, <2>4
    <2> QED  BY <2>5 DEF m2
  <1>9. CASE run.res \in {"InvalidSignature", "GasError", "MissingSection"}
    <2>1. m2 = [ran EXCEPT !.wl = drop_tx(ran.wl)]
      BY <1>9 DEF FinishTx, TxInvalidSignature, TxErrored, ErroredHashes, run, ran
    <2>2. SameBook(ran, ran) /\ w \in ran.wl.replay_protection
      BY <1>3 DEF SameBook
    <2> HIDE DEF m2
    <2>3. FinishedTx(m, m2, w)
      BY <1>3, <1>7, <2>1, <2>2
    <2> QED  BY <2>3 DEF m2
  <1>10. CASE run.res = "ReplayAttempt"
    <2> DEFINE redundant == redundant_tx_hash(ran.wl, w)
               mid == [ran EXCEPT !.wl = redundant.wl, !.panic = @ \/ redundant.res # Ok]
    <2>1. m2 = [mid EXCEPT !.wl = drop_tx(mid.wl)]
      BY <1>10 DEF FinishTx, TxErrored, ErroredHashes, run, ran
    <2>2. /\ IsLog(redundant.wl) /\ redundant.res = Ok
          /\ redundant.wl.replay_protection = hashes \ {w}
      BY <1>3, HashMethods DEF IsMem
    <2> HIDE DEF redundant
    <2>3. SameBook(ran, mid) /\ mid.wl = redundant.wl
      BY <1>3, <2>2 DEF SameBook, IsMem
    <2>4. raw[w] \in hashes
      BY <1>4, <1>10
    <2> HIDE DEF mid, m2
    <2>5. {w, raw[w]} \cap mid.wl.replay_protection # {}
      BY <1>0, <2>2, <2>3, <2>4
    <2>6. FinishedTx(m, m2, w)
      BY <1>7, <2>1, <2>2, <2>3, <2>5
    <2> QED  BY <2>6 DEF m2
  <1>11. run.res \in Ending \cup {"ReplayAttempt"}
    BY WrapperAssumption DEF run, apply_wasm_tx, Outcome, Ending
  <1> QED  BY <1>6, <1>8, <1>9, <1>10, <1>11 DEF Ending

(* A transaction whose wrapper's hash is not in the write log is finalized as
   FinalizedTx says. *)
LEMMA TxFinalized ==
  ASSUME NEW m, IsMem(m), ~m.panic, NEW db, NEW w \in Wrapper,
         w \notin m.wl.replay_protection
  PROVE  FinalizedTx(m, finalize_tx(m, db, w), w)
  <1> DEFINE hashed  == write_tx_hash(m.wl, w)
             charged == charge_fee(hashed.wl, db, w)
             after   == [m EXCEPT !.wl = charged.wl, !.panic = @ \/ hashed.res # Ok]
             counted == [after EXCEPT !.charged[w] = @ + 1]
             failed  == [after EXCEPT !.drained = @ \cup {w}]
             m2      == finalize_tx(m, db, w)
  <1>1. /\ IsLog(hashed.wl) /\ hashed.res = Ok
        /\ hashed.wl.replay_protection = m.wl.replay_protection \cup {w}
    BY HashMethods DEF IsMem
  <1>2. KeepsHashes(hashed.wl, charged.wl)
    BY <1>1, ChargeKeepsHashes
  <1>3. m2 = IF charged.res = Ok THEN FinishTx(counted, db, w) ELSE failed
    BY DEF finalize_tx
  <1> HIDE DEF hashed, charged
  <1>4. SameBook(m, after) /\ after.wl = charged.wl
    BY <1>1, <1>2 DEF SameBook, IsMem, KeepsHashes
  <1>5. after.wl.replay_protection = m.wl.replay_protection \cup {w}
    BY <1>1, <1>2, <1>4 DEF KeepsHashes
  <1> HIDE DEF after
  <1>6. /\ IsMem(counted) /\ ~counted.panic
        /\ counted.wl = after.wl /\ counted.temp = m.temp /\ counted.pos = m.pos
        /\ counted.applied = m.applied
        /\ counted.charged = [m.charged EXCEPT ![w] = @ + 1]
    BY <1>4 DEF SameBook, IsMem
  <1>7. SameBook(m, failed) /\ failed.wl = after.wl
    BY <1>4 DEF SameBook, IsMem
  <1> HIDE DEF counted, failed, m2
  <1>8. CASE charged.res = Ok
    <2> DEFINE f == FinishTx(counted, db, w)
    <2>1. w \in counted.wl.replay_protection
      BY <1>5, <1>6
    <2>2. FinishedTx(counted, f, w)
      BY <1>6, <2>1, TxFinished
    <2>3. m2 = f
      BY <1>3, <1>8
    <2> HIDE DEF f
    <2>4. /\ m.wl.replay_protection \subseteq f.wl.replay_protection
          /\ f.wl.replay_protection \subseteq m.wl.replay_protection \cup {w, raw[w]}
      BY <1>5, <1>6, <2>2 DEF FinishedTx
    <2>5. FinalizedTx(m, f, w)
      BY <1>5, <1>6, <2>2, <2>4 DEF FinalizedTx, FinishedTx
    <2> QED  BY <2>3, <2>5 DEF m2
  <1>9. CASE charged.res # Ok
    <2>1. m2 = failed
      BY <1>3, <1>9
    <2>2. FinalizedTx(m, failed, w)
      BY <1>5, <1>7 DEF FinalizedTx, SameBook
    <2> QED  BY <2>1, <2>2 DEF m2
  <1> QED  BY <1>8, <1>9

-----------------------------------------------------------------------------
(* The inductive invariant: the shape of the state, and ReplayInv *)

IsDisk(d) ==
    /\ d.applied \in [Raw -> Nat]
    /\ d.charged \in [Wrapper -> Nat]

Shape ==
    /\ chain \in Seq(Seq(Wrapper))
    /\ proposal.txs \in Seq(Wrapper)
    /\ DOMAIN mem = Node /\ mem = [n \in Node |-> mem[n]]
    /\ DOMAIN disk = Node /\ disk = [n \in Node |-> disk[n]]
    /\ \A n \in Node :
          /\ IsMem(mem[n]) /\ IsLog(mem[n].temp)
          /\ mem[n].pos \in Nat
          /\ IsDisk(disk[n]) /\ disk[n].height \in Nat

(* What ReplayInv says of one node *)
NodeInv(m, d) ==
    /\ m.wl.replay_protection \cap Wrapper \subseteq m.temp.replay_protection
    /\ Remembered(m, d)
    /\ Remembered(Loaded(d), d)
    /\ \A r \in Raw : m.applied[r] <= 1 /\ d.applied[r] <= 1
    /\ \A w \in Wrapper : m.charged[w] <= 1 /\ d.charged[w] <= 1
    /\ ~m.panic

(* A process that has just loaded the last state satisfies the invariant. *)
LEMMA LoadedInv ==
  ASSUME NEW m, NEW d, IsDisk(d), NodeInv(m, d)
  PROVE  /\ IsMem(Loaded(d)) /\ IsLog(Loaded(d).temp) /\ Loaded(d).pos \in Nat
         /\ NodeInv(Loaded(d), d)
  <1>1. /\ Loaded(d).wl = DefaultWriteLog /\ Loaded(d).temp = DefaultWriteLog
        /\ Loaded(d).pos = 0 /\ ~Loaded(d).panic
        /\ Loaded(d).applied = d.applied /\ Loaded(d).charged = d.charged
    BY DEF Loaded
  <1>2. IsMem(Loaded(d))
    BY DefaultIsLog DEF Loaded, IsMem, IsDisk
  <1>3. NodeInv(Loaded(d), d)
    BY <1>1, DefaultIsLog DEF NodeInv
  <1> QED  BY <1>1, <1>2, <1>3, DefaultIsLog

(* Validating the next transaction again keeps the invariant: the temporary log
   only gains hashes. *)
LEMMA SeenInv ==
  ASSUME NEW m, IsMem(m), NEW d, NodeInv(m, d), NEW temp, IsLog(temp),
         m.temp.replay_protection \subseteq temp.replay_protection, m.pos \in Nat
  PROVE  LET seen == [m EXCEPT !.temp = temp, !.pos = @ + 1]
         IN  /\ IsMem(seen) /\ NodeInv(seen, d) /\ seen.temp = temp /\ seen.pos \in Nat
             /\ seen.wl = m.wl /\ seen.applied = m.applied /\ seen.charged = m.charged
  <1> DEFINE seen == [m EXCEPT !.temp = temp, !.pos = @ + 1]
  <1>1. /\ IsMem(seen) /\ seen.temp = temp /\ seen.pos \in Nat /\ (seen.panic <=> m.panic)
        /\ seen.wl = m.wl /\ seen.applied = m.applied /\ seen.charged = m.charged
    BY DEF IsMem
  <1> HIDE DEF seen
  <1>2. Remembered(seen, d)
    BY <1>1 DEF NodeInv, Remembered
  <1>3. NodeInv(seen, d)
    BY <1>1, <1>2 DEF NodeInv
  <1> QED  BY <1>1, <1>3 DEF seen

(* Finalizing a transaction that validation has let through keeps it. *)
LEMMA FinalizedInv ==
  ASSUME NEW m, IsMem(m), NEW d, IsDisk(d), NodeInv(m, d), NEW w \in Wrapper,
         NEW m2, FinalizedTx(m, m2, w),
         w \in m.temp.replay_protection, m.charged[w] = 0, raw[w] \notin Stored(d)
  PROVE  NodeInv(m2, d)
  <1>0. raw[w] \in Raw /\ raw[w] \notin Wrapper
    BY WrapperAssumption
  <1>1. m2.wl.replay_protection \cap Wrapper \subseteq m2.temp.replay_protection
    BY <1>0 DEF NodeInv, FinalizedTx
  <1>2. \A r \in Raw : /\ m2.applied[r] <= 1
                       /\ m2.applied[r] > 0 => r \in Stored(d) \cup m2.wl.replay_protection
    <2> SUFFICES ASSUME NEW r \in Raw
                 PROVE  /\ m2.applied[r] <= 1
                        /\ m2.applied[r] > 0 => r \in Stored(d) \cup m2.wl.replay_protection
      OBVIOUS
    <2>1. CASE m2.applied[r] = m.applied[r]
      BY <2>1 DEF NodeInv, Remembered, FinalizedTx
    <2>2. CASE m2.applied[r] # m.applied[r]
      <3>1. /\ r = raw[w] /\ r \notin m.wl.replay_protection /\ r \in m2.wl.replay_protection
            /\ m2.applied[r] = m.applied[r] + 1
        BY <1>0, <2>2 DEF FinalizedTx, IsMem
      <3>2. m.applied[r] = 0
        BY <3>1 DEF NodeInv, Remembered, IsMem
      <3> QED  BY <3>1, <3>2
    <2> QED  BY <2>1, <2>2
  <1>3. \A v \in Wrapper :
           /\ m2.charged[v] <= 1
           /\ m2.charged[v] > 0 =>
                 \/ {v, raw[v]} \cap Stored(d) # {}
                 \/ /\ v \in m2.temp.replay_protection
                    /\ {v, raw[v]} \cap m2.wl.replay_protection # {}
    <2> SUFFICES ASSUME NEW v \in Wrapper
                 PROVE  /\ m2.charged[v] <= 1
                        /\ m2.charged[v] > 0 =>
                              \/ {v, raw[v]} \cap Stored(d) # {}
                              \/ /\ v \in m2.temp.replay_protection
                                 /\ {v, raw[v]} \cap m2.wl.replay_protection # {}
      OBVIOUS
    <2>1. CASE m2.charged[v] = m.charged[v]
      <3>1. /\ m.charged[v] <= 1
            /\ m.charged[v] > 0 =>
                  \/ {v, raw[v]} \cap Stored(d) # {}
                  \/ /\ v \in m.temp.replay_protection
                     /\ {v, raw[v]} \cap m.wl.replay_protection # {}
        BY DEF NodeInv, Remembered
      <3>2. /\ m2.temp = m.temp
            /\ m.wl.replay_protection \subseteq m2.wl.replay_protection
        BY DEF FinalizedTx
      <3> QED  BY <2>1, <3>1, <3>2
    <2>2. CASE m2.charged[v] # m.charged[v]
      <3>1. /\ v = w /\ m2.charged[v] = m.charged[v] + 1
            /\ {w, raw[w]} \cap m2.wl.replay_protection # {}
        BY <2>2 DEF FinalizedTx, IsMem
      <3> QED  BY <3>1 DEF FinalizedTx
    <2> QED  BY <2>1, <2>2
  <1>4. Remembered(m2, d)
    BY <1>2, <1>3 DEF Remembered
  <1> QED  BY <1>1, <1>2, <1>3, <1>4 DEF NodeInv, FinalizedTx

(* A wrapper that validation lets through has not been charged. *)
LEMMA NotCharged ==
  ASSUME NEW m, IsMem(m), NEW d, NodeInv(m, d), NEW w \in Wrapper,
         ~ReplayFound(d, m.temp, w)
  PROVE  /\ m.charged[w] = 0 /\ w \notin m.wl.replay_protection
         /\ raw[w] \notin Stored(d)
  BY DEF ReplayFound, NodeInv, Remembered, IsMem

(* Commit keeps it: the block's hashes go to the database. *)
LEMMA CommittedInv ==
  ASSUME NEW m, IsMem(m), NEW d, NodeInv(m, d), NEW d2, NEW m2, IsMem(m2),
         Stored(d2) = Stored(d) \cup m.wl.replay_protection,
         d2.applied = m.applied, d2.charged = m.charged,
         m2.applied = m.applied, m2.charged = m.charged, ~m2.panic,
         m2.wl.replay_protection = {}
  PROVE  NodeInv(m2, d2)
  <1>1. /\ Loaded(d2).applied = m.applied /\ Loaded(d2).charged = m.charged
    BY DEF Loaded
  <1>2. /\ \A r \in Raw : m.applied[r] > 0 => r \in Stored(d2)
        /\ \A w \in Wrapper : m.charged[w] > 0 => {w, raw[w]} \cap Stored(d2) # {}
    BY DEF NodeInv, Remembered
  <1>3. Remembered(m2, d2) /\ Remembered(Loaded(d2), d2)
    BY <1>1, <1>2 DEF Remembered
  <1> QED  BY <1>3 DEF NodeInv

-----------------------------------------------------------------------------
IInv == Shape /\ ReplayInv

(* ReplayInv, node by node. *)
LEMMA ReplayInvIsNodeInv == ReplayInv <=> \A n \in Node : NodeInv(mem[n], disk[n])
  BY DEF ReplayInv, NodeInv

(* Genesis satisfies the invariant. *)
LEMMA InitInv == Init => IInv
  <1> SUFFICES ASSUME Init PROVE IInv
    OBVIOUS
  <1> DEFINE d == GenesisDisk
  <1>1. /\ IsDisk(d) /\ d.height \in Nat
        /\ \A r \in Raw : d.applied[r] = 0
        /\ \A w \in Wrapper : d.charged[w] = 0
    BY DEF GenesisDisk, IsDisk
  <1> HIDE DEF d
  <1>2. /\ Loaded(d).wl = DefaultWriteLog /\ Loaded(d).temp = DefaultWriteLog
        /\ Loaded(d).pos = 0 /\ ~Loaded(d).panic
        /\ Loaded(d).applied = d.applied /\ Loaded(d).charged = d.charged
    BY DEF Loaded
  <1>3. Remembered(Loaded(d), d)
    BY <1>1, <1>2 DEF Remembered
  <1>4. NodeInv(Loaded(d), d)
    BY <1>1, <1>2, <1>3, DefaultIsLog DEF NodeInv
  <1>5. IsMem(Loaded(d)) /\ IsLog(Loaded(d).temp) /\ Loaded(d).pos \in Nat
    BY <1>1, <1>4, LoadedInv
  <1>6. disk = [n \in Node |-> d] /\ mem = [n \in Node |-> Loaded(d)]
    BY DEF Init, d
  <1>7. Shape
    <2>1. chain \in Seq(Seq(Wrapper)) /\ proposal.txs \in Seq(Wrapper)
      BY DEF Init, NoProposal
    <2>2. \A n \in Node : mem[n] = Loaded(d) /\ disk[n] = d
      BY <1>6
    <2> QED  BY <1>1, <1>5, <1>6, <2>1, <2>2 DEF Shape
  <1>8. ReplayInv
    BY <1>4, <1>6, ReplayInvIsNodeInv
  <1> QED  BY <1>7, <1>8 DEF IInv

(* Every step keeps it. *)
LEMMA NextInv == IInv /\ [Next]_vars => IInv'
  <1> SUFFICES ASSUME IInv, [Next]_vars PROVE IInv'
    OBVIOUS
  <1> USE DEF IInv
  <1>0. \A n \in Node : NodeInv(mem[n], disk[n])
    BY ReplayInvIsNodeInv
  <1>7. (\A n \in Node : NodeInv(mem'[n], disk'[n])) => ReplayInv'
    BY DEF ReplayInv, NodeInv
  <1>1. ASSUME NEW n \in Node, NEW w \in Wrapper, ProposeTx(n, w) PROVE IInv'
    <2>1. proposal'.txs \in Seq(Wrapper)
      BY <1>1 DEF ProposeTx, NoProposal, Shape
    <2>2. UNCHANGED <<chain, mem, disk>>
      BY <1>1 DEF ProposeTx
    <2> QED  BY <1>0, <1>7, <2>1, <2>2 DEF Shape
  <1>2. CASE Decide
    <2>1. chain' \in Seq(Seq(Wrapper)) /\ proposal'.txs \in Seq(Wrapper)
      BY <1>2 DEF Decide, NoProposal, Shape
    <2>2. UNCHANGED <<mem, disk>>
      BY <1>2 DEF Decide
    <2> QED  BY <1>0, <1>7, <2>1, <2>2 DEF Shape
  <1>3. ASSUME NEW n \in Node, FinalizeTx(n) PROVE IInv'
    <2> DEFINE m       == mem[n]
               d       == disk[n]
               block   == chain[d.height + 1]
               w       == block[m.pos + 1]
               checked == check_proposal_tx(d, m.temp, w)
               seen    == [m EXCEPT !.temp = checked.wl, !.pos = @ + 1]
               m2      == IF checked.res = Ok THEN finalize_tx(seen, d.db, w) ELSE seen
    <2>1. w \in Wrapper
      <3>1. d.height < Len(chain) /\ m.pos < Len(block)
        BY <1>3 DEF FinalizeTx
      <3>2. block \in Seq(Wrapper)
        BY <3>1 DEF Shape
      <3> QED  BY <3>1, <3>2 DEF Shape
    <2>2. mem' = [mem EXCEPT ![n] = m2] /\ UNCHANGED <<chain, proposal, disk>>
      BY <1>3 DEF FinalizeTx
    <2>3. IsMem(m) /\ IsLog(m.temp) /\ m.pos \in Nat /\ IsDisk(d) /\ NodeInv(m, d)
      BY <1>0 DEF Shape
    <2> HIDE DEF w, m, d
    <2>4. /\ IsLog(checked.wl)
          /\ m.temp.replay_protection \subseteq checked.wl.replay_protection
          /\ checked.res = Ok => /\ ~ReplayFound(d, m.temp, w)
                                 /\ w \in checked.wl.replay_protection
      BY <2>3, CheckedTx
    <2> HIDE DEF checked
    <2>5. /\ IsMem(seen) /\ NodeInv(seen, d) /\ seen.temp = checked.wl /\ seen.pos \in Nat
          /\ seen.wl = m.wl /\ seen.applied = m.applied /\ seen.charged = m.charged
      BY <2>3, <2>4, SeenInv
    <2> HIDE DEF seen
    <2>6. CASE checked.res = Ok
      <3>1. m.charged[w] = 0 /\ w \notin m.wl.replay_protection /\ raw[w] \notin Stored(d)
        BY <2>1, <2>3, <2>4, <2>6, NotCharged
      <3>2. ~seen.panic /\ w \notin seen.wl.replay_protection
        BY <2>5, <3>1 DEF NodeInv
      <3>3. FinalizedTx(seen, m2, w)
        BY <2>1, <2>5, <2>6, <3>2, TxFinalized
      <3>4. NodeInv(m2, d)
        BY <2>1, <2>3, <2>4, <2>5, <2>6, <3>1, <3>3, FinalizedInv
      <3>5. IsMem(m2) /\ m2.temp = checked.wl /\ m2.pos \in Nat
        BY <2>5, <3>3 DEF FinalizedTx
      <3> QED  BY <1>0, <1>7, <2>2, <2>4, <3>4, <3>5 DEF Shape, d, m
    <2>7. CASE checked.res # Ok
      BY <1>0, <1>7, <2>2, <2>4, <2>5, <2>7 DEF Shape, d, m
    <2> QED  BY <2>6, <2>7
  <1>4. ASSUME NEW n \in Node, Commit(n) PROVE IInv'
    <2> DEFINE m  == mem[n]
               d  == disk[n]
               d2 == disk'[n]
               m2 == mem'[n]
    <2>1. IsMem(m) /\ IsLog(m.temp) /\ IsDisk(d) /\ d.height \in Nat /\ NodeInv(m, d)
      BY <1>0 DEF Shape
    <2>2. /\ UNCHANGED <<chain, proposal>>
          /\ DOMAIN mem' = Node /\ mem' = [k \in Node |-> mem'[k]]
          /\ DOMAIN disk' = Node /\ disk' = [k \in Node |-> disk'[k]]
          /\ \A k \in Node \ {n} : mem'[k] = mem[k] /\ disk'[k] = disk[k]
      BY <1>4 DEF Commit, Shape
    <2>3. /\ d2.height = d.height + 1
          /\ d2.applied = m.applied /\ d2.charged = m.charged
          /\ Stored(d2) = m.wl.replay_protection \cup
                          (d.replay.general \cup d.replay.current)
      BY <1>4 DEF Commit, Shape, Stored
    <2>4. /\ m2.temp = DefaultWriteLog /\ m2.pos = 0
          /\ m2.applied = m.applied /\ m2.charged = m.charged /\ (m2.panic <=> m.panic)
          /\ DOMAIN m2 = DOMAIN m
          /\ m2.wl = [m.wl EXCEPT !.block_write_log = EmptyLayer, !.replay_protection = {}]
      BY <1>4, <2>1 DEF Commit, Shape, IsMem
    <2> HIDE DEF m, d, m2, d2
    <2>5. IsLog(m2.wl) /\ m2.wl.replay_protection = {}
      BY <2>1, <2>4 DEF IsMem, IsLog
    <2>6. IsMem(m2) /\ ~m2.panic /\ IsDisk(d2)
      BY <2>1, <2>3, <2>4, <2>5 DEF IsMem, IsDisk, NodeInv
    <2>7. Stored(d2) = Stored(d) \cup m.wl.replay_protection
      BY <2>3 DEF Stored
    <2>8. NodeInv(m2, d2)
      BY <2>1, <2>3, <2>4, <2>5, <2>6, <2>7, CommittedInv
    <2>9. /\ IsLog(m2.temp) /\ m2.pos \in Nat /\ d2.height \in Nat
      BY <2>1, <2>3, <2>4, DefaultIsLog
    <2> QED  BY <1>0, <1>7, <2>2, <2>6, <2>8, <2>9 DEF Shape, m2, d2
  <1>5. ASSUME NEW n \in Node, Crash(n) PROVE IInv'
    <2>1. /\ IsMem(Loaded(disk[n])) /\ IsLog(Loaded(disk[n]).temp)
          /\ Loaded(disk[n]).pos \in Nat /\ NodeInv(Loaded(disk[n]), disk[n])
      BY <1>0, LoadedInv DEF Shape
    <2>2. mem' = [mem EXCEPT ![n] = Loaded(disk[n])] /\ UNCHANGED <<chain, proposal, disk>>
      BY <1>5 DEF Crash
    <2> QED  BY <1>0, <1>7, <2>1, <2>2 DEF Shape
  <1>6. CASE UNCHANGED vars
    BY <1>0, <1>7, <1>6 DEF vars, Shape
  <1> QED  BY <1>1, <1>2, <1>3, <1>4, <1>5, <1>6 DEF Next

(* The invariant holds in every reachable state. *)
LEMMA Invariance == Spec => []IInv
  BY InitInv, NextInv, PTL DEF Spec

(* For any nodes, wrappers, inner transactions and balances, no expect() on
   write_tx_hash or redundant_tx_hash fails in FinalizeBlock. *)
THEOREM ExpectsHold == Spec => []NoPanic
  <1>1. IInv => NoPanic
    BY DEF IInv, ReplayInv, NoPanic
  <1> QED  BY <1>1, Invariance, PTL

(* No inner transaction is applied twice, in one block or in several, whatever
   wrappers carry it and however often nodes restart. *)
THEOREM InnerAppliedOnce == Spec => []AppliedOnce
  <1>1. IInv => AppliedOnce
    BY DEF IInv, ReplayInv, AppliedOnce
  <1> QED  BY <1>1, Invariance, PTL

(* No wrapper is charged twice. *)
THEOREM WrapperChargedOnce == Spec => []ChargedOnce
  <1>1. IInv => ChargedOnce
    BY DEF IInv, ReplayInv, ChargedOnce
  <1> QED  BY <1>1, Invariance, PTL

=============================================================================
