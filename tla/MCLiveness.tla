---------------------------- MODULE MCLiveness ----------------------------
(* What a node must get done under the scheduling that the code relies on: a
   behaviour is one of the shells that replay the decided blocks, or one of the
   threads that share the compilation cache of a node. *)
EXTENDS MCShell, CompilationCache

VARIABLE part

LiveInit ==
    /\ part \in {"shell", "cache"}
    /\ Init /\ CacheInit
    /\ part # "cache" => node.kind = "tx"

LiveNext ==
    \/ part = "shell" /\ Next /\ UNCHANGED <<part, cacheVars>>
    \/ part = "cache" /\ CacheNext /\ UNCHANGED <<part, vars>>

LiveSpec ==
    LiveInit /\ [][LiveNext]_<<part, vars, cacheVars>> /\ Fairness /\ CacheFairness

=============================================================================
