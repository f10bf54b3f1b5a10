------------------------------ MODULE MCShell ------------------------------
(* A small instance of Shell.                                               *)
EXTENDS Shell, TLC

CONSTANTS a, b, val, masp, w1, w2, w3, w4, w5, w6, w7, r1, r4, r5

MCKey == {a, b, val, masp}
MCgenesis == (a :> 4) @@ (b :> 1) @@ (val :> 1) @@ (masp :> 1)
MCVal == 0..7
MCno_vp_key == << >>

(* w1, w2 and w3 carry the same inner transaction, w3 from another payer, who
   pays from the shielded pool; w4 is paid by the account that proposers collect
   fees on.  After the transfers of r1 and r4, payer a has something left but not
   the fee of w2.  w5, w6 and w7 carry r5, which empties the pool: the unshielding
   of w3 then fails and its payer still has the fee. *)
MCWrapper == {w1, w2, w3, w4, w5, w6, w7}
MCRaw == {r1, r4, r5}
MCHash == MCWrapper \cup MCRaw
MCraw == [w \in {w1, w2, w3} |-> r1] @@ (w4 :> r4) @@ [w \in {w5, w6, w7} |-> r5]
MCpayer ==
    [w \in {w1, w2, w7} |-> a] @@ [w \in {w3, w6} |-> b] @@ [w \in {w4, w5} |-> val]
MCfee == (w2 :> 2) @@ (w6 :> 0) @@ [w \in MCWrapper |-> 1]
MCunshield == (w3 :> 1) @@ [w \in MCWrapper |-> 0]

Transfer(from, to, amount) == [from |-> from, to |-> to, amount |-> amount]
MCinner ==
    (r1 :> Transfer(a, b, 1)) @@ (r4 :> Transfer(a, val, 2)) @@ (r5 :> Transfer(masp, a, 1))

(* The first wrapper of r1 is not authorized.  The first wrapper of r5 has too
   low a gas limit, and under the last one a VP rejects the transfer. *)
MCending ==
    (w1 :> "InvalidSignature") @@ (w5 :> "GasError") @@ (w7 :> "Rejected")
    @@ [w \in MCWrapper |-> "Accepted"]

Symmetry == Permutations(Node)

=============================================================================
