------------------------------- MODULE TxStore -------------------------------
(***************************************************************************)
(* What the ledger's storage promises its users, whatever the layers it is  *)
(* made of: a store with one transaction at a time, a savepoint in it, a    *)
(* block of committed transactions, and a durable state.                    *)
(*                                                                          *)
(*   durable    what a restart recovers                                     *)
(*   pre        the state before the current transaction: what validity     *)
(*              predicates see as the prior state                           *)
(*   savepoint  what a partial rollback of the transaction returns to       *)
(*   post       what the current transaction reads                          *)
(***************************************************************************)
CONSTANTS Key, Val, NoVal

VARIABLES durable, pre, savepoint, post

vars == <<durable, pre, savepoint, post>>

Store == [Key -> Val \cup {NoVal}]

Init == /\ durable \in Store
        /\ pre = durable
        /\ savepoint = durable
        /\ post = durable

(* The transaction writes v, or deletes when v is NoVal: only it sees that *)
TxUpdate(k, v) ==
    /\ post' = [post EXCEPT ![k] = v]
    /\ UNCHANGED <<durable, pre, savepoint>>

SetSavepoint ==
    /\ savepoint' = post
    /\ UNCHANGED <<durable, pre, post>>

RollbackToSavepoint ==
    /\ post' = savepoint
    /\ UNCHANGED <<durable, pre, savepoint>>

CommitTx ==
    /\ pre' = post
    /\ savepoint' = post
    /\ UNCHANGED <<durable, post>>

DropTx ==
    /\ savepoint' = pre
    /\ post' = pre
    /\ UNCHANGED <<durable, pre>>

(* The protocol writes under the current transaction, which goes on seeing its
   own value of the key, if it has one, in post and in the savepoint *)
ProtocolUpdate(k, v) ==
    /\ pre' = [pre EXCEPT ![k] = v]
    /\ savepoint' \in {savepoint, [savepoint EXCEPT ![k] = v]}
    /\ post' \in {post, [post EXCEPT ![k] = v]}
    /\ UNCHANGED durable

(* Only the block's committed transactions become durable, all of them in one
   step, and no reader of the running node sees any difference *)
CommitBlock ==
    /\ durable' = pre
    /\ UNCHANGED <<pre, savepoint, post>>

Restart ==
    /\ pre' = durable
    /\ savepoint' = durable
    /\ post' = durable
    /\ UNCHANGED durable

Next ==
    \/ \E k \in Key, v \in Val \cup {NoVal} : TxUpdate(k, v) \/ ProtocolUpdate(k, v)
    \/ SetSavepoint
    \/ RollbackToSavepoint
    \/ CommitTx
    \/ DropTx
    \/ CommitBlock
    \/ Restart

Spec == Init /\ [][Next]_vars

=============================================================================
